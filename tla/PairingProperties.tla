------------------------- MODULE PairingProperties -------------------------
(* What pairing promises about the codes, the group's key and the screen. *)
EXTENDS Pairing

Messages == {"empty", "closed", "offer", "request", "joined", "key"}

TypeOK ==
    /\ slot \in [Codes -> [a: Messages, b: Messages]]
    /\ show \in [Codes -> [pc: {"no", "replace", "set", "over"}, mode: {"offer", "request"},
                           old: Codes \cup {NoCode}]]
    /\ await \in [Codes -> [pc: {"no", "sleep", "take", "got", "expire", "closing", "over"},
                            got: Messages]]
    /\ dead \subseteq Codes /\ late \subseteq Codes /\ unclosed \subseteq Codes
    /\ screen \in [code: Codes \cup {NoCode}, state: {"none", "waiting", "done", "expired", "failed"}]
    /\ closing \in [Codes -> {"no", "a", "b", "again", "refill", "done"}]
    /\ run \in [pc: {"on", "stop", "over"}, code: Codes \cup {NoCode}]
    /\ enter \in [Enterers -> [pc: {"no", "answer"},
                               code: Codes \cup {NoCode}, got: Messages]]
    /\ faults \in 0..MaxFaults

\* A withdrawn code no longer works, and a request that left the screen leaves no group key at the
\* relay, neither one that was sent before nor one on its way (closeSlots, docs/sync.md).
WithdrawnIsDead ==
    \A c \in Codes \ unclosed : closing[c] = "done" =>
        /\ Holds(c, "a") = Empty
        /\ show[c].mode = "request" => Holds(c, "b") # "key"

\* A code that can still be answered is the one on the screen, as a new code replaces the old one
\* (show); and the screen says of a code what became of this code: expired after its ten minutes,
\* done once its own answer came (finish).
ScreenIsTrue ==
    /\ \A c \in Codes :
          Alive /\ await[c].pc \in {"sleep", "take"} /\ ~Over(c)
          => screen = [code |-> c, state |-> "waiting"]
    /\ screen.state = "expired" => screen.code \in late
    /\ screen.state = "done" => await[screen.code].got \in {"joined", "key"}

\* While the core runs a code does not stay on the screen for ever as waiting (await).
CodesEnd ==
    \A c \in Codes :
        LET waits == screen = [code |-> c, state |-> "waiting"] IN [](waits => <>(~waits \/ ~Alive))

=============================================================================
