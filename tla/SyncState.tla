----------------------------- MODULE SyncState -----------------------------
(***************************************************************************)
(* What internal/devsync/engine.go keeps on each device (keys, sync.json,  *)
(* the changes not sent yet), what the relay (relay/worker.js) keeps of a  *)
(* group, and the merge of a round.                                        *)
(*                                                                         *)
(* A value stands for itself and for its keyed hash.  A website that is    *)
(* not on the list has no value in a snapshot and is "false" in a group.   *)
(***************************************************************************)
EXTENDS Naturals, FiniteSets

CONSTANTS
    Devices,     \* device ids, compared by size as the code compares its strings
    Creators,    \* those that may turn syncing on first
    Texts,       \* settings with one value: language, automatic updates
    Sites,       \* websites, domain/<host>
    Secrets,     \* password, second factor
    Values,      \* values of Texts and Secrets, the first setup's among them
    Default,
    MaxTime,     \* changes made by users
    MaxGroup,    \* groups, the first one and one for each removal tried
    MaxFaults,   \* lost requests and answers, refused settings, ends of a core
    Events       \* what may happen in a run, see EventNames

EventNames == {"edit", "editMidRound", "lost", "offline", "refuse", "end", "endWhileApplied",
               "remove", "expire"}
None == "none"
Typed == "typed"
OnOff == {"true", "false"}
Keys == Texts \cup Sites \cup Secrets
ValuesOf(k) == IF k \in Sites THEN OnOff ELSE Values

ASSUME SyncAssumption ==
    /\ Devices \subseteq Nat \ {0} /\ Creators \subseteq Devices
    /\ Texts \cap Sites = {} /\ Texts \cap Secrets = {} /\ Sites \cap Secrets = {}
    /\ Default \in Values /\ {None, Typed} \cap Values = {}
    /\ MaxTime \in Nat /\ MaxGroup \in Nat \ {0} /\ MaxFaults \in Nat
    /\ Events \subseteq EventNames

Groups == 1..MaxGroup
Times == 0..(2 * MaxTime + 2)

\* Entry, and no entry in a document.
Entry == [v: Values \cup OnOff, t: Times, d: Devices]
NoEntry == [v |-> None, t |-> 0, d |-> 0]
NoEntries == [k \in Keys |-> NoEntry]
NoRows == [d \in Devices |-> "absent"]

\* savedHash of a change not sent yet; one typed without a hash has Typed.
NoNote == [h |-> None, t |-> 0]
NoPending == [at |-> 0, secrets |-> FALSE, changes |-> [k \in Keys |-> NoNote]]

\* sync.json; a missing file reads as NoFile.
NoHashes == [k \in Keys |-> None]
NewState == [version |-> 0, adopt |-> FALSE, lost |-> FALSE, hashes |-> NoHashes, drop |-> {}]
NoFile == [NewState EXCEPT !.lost = TRUE]

NoGroup == [version |-> 0, entries |-> NoEntries, rows |-> NoRows, moved |-> 0, sealed |-> {}]

\* What one round holds while it runs; pc names the call it is in.
RoundPcs == {"idle", "read", "apply", "applied", "store", "save", "remove", "close"}
NoRound ==
    [pc |-> "idle", g |-> 0, version |-> 0, remote |-> NoEntries, rows |-> NoRows, p |-> NoPending,
     st |-> NewState, merged |-> NoEntries, here |-> NoHashes, write |-> FALSE,
     incoming |-> {}, failed |-> {}, busy |-> {}, target |-> 0, next |-> 0]

\* A change made in the app: the setting is written, then Notify runs.
NoEdit == [pc |-> "idle", typed |-> {}, at |-> 0, linked |-> FALSE, snap |-> NoHashes,
           st |-> NewState, data |-> NoPending]

VARIABLES
    clock, faults, made,          \* changes so far, faults so far, groups made so far
    groups,                       \* the relay
    keys, local, file, round,     \* each device: its group, settings, sync.json, round
    pend, pendFile, fresh, edit,  \* changes not sent, their file, pendingGen = readGen, Notify
    mine, seen, kept              \* history: last written by the user, group version of the
                                  \* last round, settings it could not take over

noteVars == <<pend, pendFile, fresh, edit>>
histVars == <<mine, seen, kept>>
vars == <<clock, faults, made, groups, keys, local, file, round, noteVars, histVars>>

Init ==
    /\ clock = 1 /\ faults = 0 /\ made = 0
    /\ groups = [g \in Groups |-> NoGroup]
    /\ keys = [d \in Devices |-> 0]
    /\ local \in {l \in [Devices -> [Keys -> {Default} \cup OnOff]] :
                  \A d \in Devices, k \in Keys : (l[d][k] \in OnOff) = (k \in Sites)}
    /\ file = [d \in Devices |-> NoFile]
    /\ round = [d \in Devices |-> NoRound]
    /\ pend = [d \in Devices |-> NoPending] /\ pendFile = pend
    /\ fresh = [d \in Devices |-> TRUE]
    /\ edit = [d \in Devices |-> NoEdit]
    /\ mine = [d \in Devices |-> [k \in Keys |-> TRUE]]
    /\ seen = [d \in Devices |-> <<0, 0>>]
    /\ kept = [d \in Devices |-> {}]

-----------------------------------------------------------------------------
\* Entry.newer: the later change wins, the device id breaks a tie.
Newer(e, o) == e.t > o.t \/ (e.t = o.t /\ e.d > o.d)

\* Local.Snapshot: a website not listed has no value, a secret only when it was asked for.
Snapshot(d, withSecrets) ==
    [k \in Keys |->
        IF (k \in Sites /\ local[d][k] = "false") \/ (k \in Secrets /\ ~withSecrets)
        THEN None ELSE local[d][k]]

\* The merge of one round r of device d at time `at`, with what Snapshot gave.
ChangedHere(r, k, v) == r.p.changes[k].h \in {v, Typed}

When(r, k, v) ==
    LET t == IF ChangedHere(r, k, v) THEN r.p.changes[k].t ELSE r.p.at
    IN IF t = 0 \/ t > clock THEN clock ELSE t

\* Mutant: changing back after a lost answer goes unnoticed.
NeverBack(d, r, k, v) == FALSE

\* Back at what sync.json has while the group holds another value of this device's own: a write
\* whose answer got lost, changed back since.
ChangedBack(d, r, k, v) ==
    LET theirs == r.remote[k] IN ChangedHere(r, k, v) /\ theirs.d = d /\ theirs.v # v

Sends(d, r, snap, k) ==
    LET old == r.st.hashes[k]
        theirs == r.remote[k]
        v == snap[k]
    IN ~r.st.adopt /\
       IF v # None
       THEN /\ old = v => ChangedBack(d, r, k, v)
            /\ theirs.v = v => ChangedHere(r, k, v) /\ When(r, k, v) > theirs.t
            /\ old = None /\ theirs # NoEntry => ChangedHere(r, k, v)
       ELSE /\ k \in Sites
            /\ \/ old \notin {None, "false"}
               \/ /\ old \in {None, "false"} /\ r.p.changes[k].h = "false"
                  /\ theirs # NoEntry /\ theirs.v # "false"

\* A change comes after this device's own earlier one, also when the clock was set back since.
Own(d, r, k, v) ==
    LET theirs == r.remote[k]
        t == When(r, k, v)
    IN [v |-> v, t |-> IF theirs.d = d /\ t <= theirs.t THEN theirs.t + 1 ELSE t, d |-> d]

\* stamp: the later change wins.
Stamped(d, r, k, v) ==
    LET own == Own(d, r, k, v) IN IF Newer(own, r.remote[k]) THEN own ELSE r.remote[k]

Merged(d, r, snap) ==
    [k \in Keys |-> IF Sends(d, r, snap, k)
                    THEN Stamped(d, r, k, IF snap[k] = None THEN "false" ELSE snap[k])
                    ELSE r.remote[k]]

\* What this device has of a key, as a hash; a secret not read counts as synced.
Here(r, snap, withSecrets) ==
    [k \in Keys |-> IF snap[k] # None THEN snap[k]
                    ELSE IF k \in Secrets /\ ~withSecrets THEN r.st.hashes[k]
                    ELSE IF k \in Sites THEN "false" ELSE None]

Incoming(r, snap, merged, here) ==
    {k \in Keys :
        \/ merged[k] # NoEntry /\ here[k] # merged[k].v
        \/ merged[k] = NoEntry /\ snap[k] # None /\ ((r.st.adopt /\ k \in Sites) \/ k \in r.st.drop)}
=============================================================================
