----------------------------- MODULE SyncRound -----------------------------
(***************************************************************************)
(* One device's round (Sync, syncLocked and step of                        *)
(* internal/devsync/engine.go), and Notify, which notes a change made here *)
(* while rounds go on.                                                     *)
(*                                                                         *)
(* One action is what happens between two calls that take time: a request  *)
(* to the relay, the snapshot, Apply, a file.  A round that stops early is *)
(* tried again at the next wake-up, so "idle" stands for its start too.    *)
(***************************************************************************)
EXTENDS SyncState

Fault(kind) == kind \in Events /\ faults < MaxFaults /\ faults' = faults + 1

\* The round is over; a removal that waited for it is given up unless it went through.
Ended(d) == [round EXCEPT ![d] = NoRound]
Again(d) == [round EXCEPT ![d] = [NoRound EXCEPT !.target = round[d].target]]

\* forget: keys, sync.json and what was pending go, the settings stay.
Forget(d) ==
    /\ keys' = [keys EXCEPT ![d] = 0]
    /\ file' = [file EXCEPT ![d] = NoFile]
    /\ pend' = [pend EXCEPT ![d] = NoPending]
    /\ pendFile' = [pendFile EXCEPT ![d] = NoPending]
    /\ round' = Ended(d)

Gone(d) == groups[keys[d]].version = 0 /\ file[d].version > 0
Closed(d) == groups[keys[d]].moved # 0

\* fetch, the pending changes and loadState: what the round compares.
RoundReads(d) ==
    LET g == keys[d] IN
    /\ g # 0 /\ round[d].pc = "idle" /\ ~Closed(d) /\ ~Gone(d)
    /\ edit[d].pc \in {"wrote", "noting"} => "editMidRound" \in Events
    /\ round' = [round EXCEPT ![d].pc = "read", ![d].g = g, ![d].version = groups[g].version,
                    ![d].remote = groups[g].entries, ![d].rows = groups[g].rows,
                    ![d].p = pend[d], ![d].st = file[d]]
    /\ fresh' = [fresh EXCEPT ![d] = TRUE]
    /\ UNCHANGED <<clock, faults, made, groups, keys, local, file, pend, pendFile, edit, histVars>>

\* The group moved on: to its next key, or syncing is off here.
Follows(d) ==
    /\ keys[d] # 0 /\ round[d].pc = "idle" /\ Closed(d)
    /\ IF d \in groups[keys[d]].sealed
       THEN /\ keys' = [keys EXCEPT ![d] = groups[keys[d]].moved]
            /\ UNCHANGED <<file, pend, pendFile, round>>
       ELSE Forget(d)
    /\ UNCHANGED <<clock, faults, made, groups, local, fresh, edit, histVars>>

\* The relay dropped the group.
GroupGone(d) ==
    /\ keys[d] # 0 /\ round[d].pc = "idle" /\ ~Closed(d) /\ Gone(d)
    /\ Forget(d)
    /\ UNCHANGED <<clock, faults, made, groups, local, fresh, edit, histVars>>

AfterApply(r) == IF r.write THEN "store" ELSE "save"

\* step up to Apply: stamp what changed here, see what the group has that this device has not.
RoundMerges(d) ==
    LET r == round[d]
        withSecrets == r.p.secrets \/ r.version = 0
        snap == Snapshot(d, withSecrets)
        merged == Merged(d, r, snap)
        here == Here(r, snap, withSecrets)
        incoming == Incoming(r, snap, merged, here)
        next == [r EXCEPT !.merged = merged, !.here = here, !.incoming = incoming,
                          !.rows = [r.rows EXCEPT ![d] = "here"],
                          !.write = merged # r.remote \/ r.rows[d] # "here"]
    IN
    /\ r.pc = "read"
    /\ round' = [round EXCEPT ![d] =
                    [next EXCEPT !.pc = IF incoming # {} THEN "apply" ELSE AfterApply(next)]]
    /\ UNCHANGED <<clock, faults, made, groups, keys, local, file, noteVars, histVars>>

\* Local.Apply writes the settings in `incoming`, the website list as a whole.  Password and
\* second factor wait when something was typed here since the round read the settings.
Refusable(incoming) == {f \in SUBSET incoming : f \cap Sites \in {{}, incoming \cap Sites}}

Busy(d, r) == IF fresh[d] THEN {} ELSE r.incoming \cap Secrets

RoundApplies(d) ==
    LET r == round[d]
        busy == Busy(d, r)
    IN
    /\ r.pc = "apply"
    /\ \E refused \in Refusable(r.incoming \ busy) :
          LET failed == refused \cup busy
              applied == r.incoming \ failed
              now == [k \in Keys |->
                         IF k \in Sites /\ applied \cap Sites # {}
                         THEN IF r.merged[k].v = "true" THEN "true" ELSE "false"
                         ELSE IF k \in applied THEN r.merged[k].v ELSE local[d][k]]
          IN /\ IF refused = {} THEN UNCHANGED faults ELSE Fault("refuse")
             /\ local' = [local EXCEPT ![d] = now]
             /\ mine' = [mine EXCEPT ![d] = [k \in Keys |-> @[k] /\ now[k] = local[d][k]]]
             /\ round' = [round EXCEPT ![d].pc = "applied", ![d].failed = failed, ![d].busy = busy]
    /\ UNCHANGED <<clock, made, groups, keys, file, noteVars, seen, kept>>

\* Mutant: sync.json learns of it only at the end of the round.
NotYetTakenOver(r, listed) == r.st.hashes

\* The hashes once `listed` was taken over; what was the same here already is in step too.
TakenOver(r, listed) ==
    [k \in Keys |->
        IF k \in listed THEN r.merged[k].v
        ELSE IF r.st.hashes[k] = None /\ r.remote[k] # NoEntry /\ r.here[k] = r.remote[k].v
        THEN r.here[k] ELSE r.st.hashes[k]]

\* What was taken over is the group's from now on: sync.json and the pending changes say so
\* before the document is written.
RoundKeeps(d) ==
    LET r == round[d]
        applied == r.incoming \ r.failed
        listed == {k \in applied : r.merged[k] # NoEntry}
        st == [r.st EXCEPT !.hashes = TakenOver(r, listed), !.drop = @ \ listed,
                           !.adopt = @ /\ r.failed # {}]
        changes == [k \in Keys |->
                       IF k \in applied /\ pend[d].changes[k] = r.p.changes[k]
                       THEN NoNote ELSE pend[d].changes[k]]
    IN
    /\ r.pc = "applied"
    /\ IF applied = {}
       THEN /\ round' = [round EXCEPT ![d].pc = AfterApply(r)]
            /\ UNCHANGED <<file, pend, pendFile>>
       ELSE /\ round' = [round EXCEPT ![d].pc = AfterApply(r), ![d].st = st]
            /\ file' = [file EXCEPT ![d] = st]
            /\ pend' = [pend EXCEPT ![d].changes = changes]
            /\ pendFile' = IF pend' = pend THEN pendFile ELSE [pendFile EXCEPT ![d] = pend'[d]]
    /\ UNCHANGED <<clock, faults, made, groups, keys, local, fresh, edit, histVars>>

\* Mutant: a write to an open group always goes through.
Open(r) == groups[r.g].moved = 0

\* The relay's condition for a write (If-Match, not final).
Current(r) == groups[r.g].version = r.version /\ groups[r.g].moved = 0

\* store: the relay takes the document if the group is still at the version read, and the
\* answer may get lost.
RoundStores(d) ==
    LET r == round[d] IN
    /\ r.pc = "store"
    /\ IF Current(r)
       THEN /\ groups' = [groups EXCEPT ![r.g].version = @ + 1, ![r.g].entries = r.merged,
                                        ![r.g].rows = r.rows]
            /\ \/ /\ round' = [round EXCEPT ![d].pc = "save", ![d].version = r.version + 1]
                  /\ UNCHANGED faults
               \/ Fault("lost") /\ round' = Ended(d)
       ELSE round' = Again(d) /\ UNCHANGED <<groups, faults>>
    /\ UNCHANGED <<clock, made, keys, local, file, noteVars, histVars>>

\* A request or the snapshot fails.
RoundFails(d) ==
    /\ round[d].pc \in {"read", "store", "remove", "close"} /\ Fault("offline")
    /\ round' = Ended(d)
    /\ UNCHANGED <<clock, made, groups, keys, local, file, noteVars, histVars>>

\* Mutant: sync.json gets what the round read here.
HashRead(d, r, k) == IF r.merged[k] = NoEntry THEN None ELSE r.here[k]

\* sync.json has what this device and the group now share.
SavedHash(d, r, k) ==
    LET theirs == r.merged[k] # NoEntry
        typedSince == k \in r.busy /\ ~r.st.adopt IN
    IF theirs /\ k \notin r.failed THEN r.merged[k].v
    ELSE IF theirs /\ typedSince /\ (r.st.hashes[k] # None \/ pend[d].changes[k] # NoNote)
    THEN r.st.hashes[k]
    ELSE IF k \in r.failed THEN r.here[k] ELSE None

\* Mutant: what was noted since the round read it goes too.
DoneAll(d) ==
    pend' = [pend EXCEPT ![d] = NoPending] /\ pendFile' = [pendFile EXCEPT ![d] = NoPending]

\* donePending, unless something changed since the round read it.
DonePending(d) ==
    IF fresh[d]
    THEN /\ pend' = [pend EXCEPT ![d] = NoPending]
         /\ pendFile' = [pendFile EXCEPT ![d] = NoPending]
    ELSE UNCHANGED <<pend, pendFile>>

\* The end of step.
RoundSaves(d) ==
    LET r == round[d] IN
    /\ r.pc = "save"
    /\ file' = [file EXCEPT ![d] =
                  [version |-> r.version, adopt |-> FALSE, lost |-> FALSE,
                   hashes |-> [k \in Keys |-> SavedHash(d, r, k)],
                   drop |-> {k \in r.failed : r.merged[k] = NoEntry}]]
    /\ DonePending(d)
    /\ round' = IF r.target = 0 THEN Ended(d) ELSE [Again(d) EXCEPT ![d].pc = "remove"]
    /\ seen' = [seen EXCEPT ![d] = <<r.g, r.version>>]
    /\ kept' = [kept EXCEPT ![d] = r.failed]
    /\ UNCHANGED <<clock, faults, made, groups, keys, local, fresh, edit, mine>>

-----------------------------------------------------------------------------
\* A setting is changed in the app: first the setting itself, then Notify.
Edit(d, k, v) ==
    /\ "edit" \in Events /\ clock <= MaxTime
    /\ edit[d].pc = "idle" /\ v # local[d][k]
    /\ round[d].pc \in {"read", "apply"} => "editMidRound" \in Events
    /\ clock' = clock + 1
    /\ local' = [local EXCEPT ![d][k] = v]
    /\ mine' = [mine EXCEPT ![d][k] = TRUE]
    /\ edit' = [edit EXCEPT ![d].pc = "wrote", ![d].typed = {k} \cap Secrets]
    /\ UNCHANGED <<faults, made, groups, keys, file, round, pend, pendFile, fresh, seen, kept>>

\* Notify reads the settings and sync.json without a lock; while Apply runs only a password or
\* second factor is a change made here.
NotifyReads(d) ==
    LET e == edit[d] IN
    /\ e.pc = "wrote"
    /\ edit' = [edit EXCEPT ![d] =
                  IF round[d].pc = "apply" /\ e.typed = {} THEN NoEdit
                  ELSE [e EXCEPT !.pc = "noting", !.at = clock, !.linked = keys[d] # 0,
                                 !.snap = IF keys[d] # 0 THEN Snapshot(d, FALSE) ELSE NoHashes,
                                 !.st = IF keys[d] # 0 THEN file[d] ELSE NewState]]
    /\ UNCHANGED <<clock, faults, made, groups, keys, local, file, round, pend, pendFile, fresh,
                   histVars>>

Noted(e, p, k) ==
    LET known == e.st.hashes[k] # None
        noted == p.changes[k] # NoNote
        last == IF noted THEN p.changes[k].h ELSE e.st.hashes[k]
        default == ~known /\ ~noted /\ (e.st.lost \/ (e.st.version > 0 /\ k \notin Sites))
    IN IF k \in e.typed THEN [h |-> Typed, t |-> e.at]
       ELSE IF e.linked /\ k \notin Secrets /\ e.snap[k] \notin {None, last} /\ ~default
       THEN [h |-> e.snap[k], t |-> e.at]
       ELSE IF e.linked /\ k \in Sites /\ e.snap[k] = None /\ (known \/ noted) /\ last # "false"
       THEN [h |-> "false", t |-> e.at]
       ELSE p.changes[k]

NotifyNotes(d) ==
    LET e == edit[d]
        p == pend[d]
        noted == [at |-> e.at, secrets |-> p.secrets \/ e.typed # {},
                  changes |-> [k \in Keys |-> Noted(e, p, k)]]
    IN
    /\ e.pc = "noting"
    /\ pend' = [pend EXCEPT ![d] = noted]
    /\ fresh' = [fresh EXCEPT ![d] = FALSE]
    /\ edit' = [edit EXCEPT ![d] = [NoEdit EXCEPT !.pc = "writing", !.data = noted]]
    /\ UNCHANGED <<clock, faults, made, groups, keys, local, file, round, pendFile, histVars>>

\* The file is written after the lock is released.
NotifyWrites(d) ==
    /\ edit[d].pc = "writing"
    /\ pendFile' = [pendFile EXCEPT ![d] = edit[d].data]
    /\ edit' = [edit EXCEPT ![d] = NoEdit]
    /\ UNCHANGED <<clock, faults, made, groups, keys, local, file, round, pend, fresh, histVars>>
=============================================================================
