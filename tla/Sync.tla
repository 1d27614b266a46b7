-------------------------------- MODULE Sync --------------------------------
(***************************************************************************)
(* Devices that share their settings through the relay: groups are made,   *)
(* joined, moved to a new key when a device is removed, and dropped.       *)
(***************************************************************************)
EXTENDS SyncRound

\* ensureGroup: the first device of a new group.
CreatesGroup(d) ==
    /\ d \in Creators /\ \A e \in Devices : keys[e] = 0
    /\ made + 1 \in Groups
    /\ made' = made + 1
    /\ keys' = [keys EXCEPT ![d] = made']
    /\ file' = [file EXCEPT ![d] = NewState]
    /\ UNCHANGED <<clock, faults, groups, local, round, noteVars, histVars>>

\* join: the key of a code of a device in g; the group may move on before the first round here.
\* A device that was removed comes back under another id.
Joins(d, g) ==
    /\ keys[d] = 0 /\ \E e \in Devices : keys[e] = g
    /\ groups[g].version > 0 /\ groups[g].moved = 0 /\ groups[g].rows[d] = "absent"
    /\ keys' = [keys EXCEPT ![d] = g]
    /\ file' = [file EXCEPT ![d] = [NewState EXCEPT !.adopt = TRUE]]
    /\ UNCHANGED <<clock, faults, made, groups, local, round, noteVars, histVars>>

\* Remove(device): a round first, then the others get a new key.
RemoveBegins(d, x) ==
    /\ "remove" \in Events /\ keys[d] # 0 /\ round[d] = NoRound /\ made < MaxGroup
    /\ round' = [round EXCEPT ![d].target = x]
    /\ UNCHANGED <<clock, faults, made, groups, keys, local, file, noteVars, histVars>>

\* The group that moved on meanwhile is followed, a group that is gone needs no removal.
RemoveFollows(d) ==
    LET g == keys[d] IN
    /\ round[d].pc = "remove" /\ (Closed(d) \/ groups[g].version = 0)
    /\ IF Closed(d) /\ d \in groups[g].sealed
       THEN /\ keys' = [keys EXCEPT ![d] = groups[g].moved]
            /\ UNCHANGED <<file, pend, pendFile, round>>
       ELSE IF Closed(d) THEN Forget(d)
       ELSE round' = Ended(d) /\ UNCHANGED <<keys, file, pend, pendFile>>
    /\ UNCHANGED <<clock, faults, made, groups, local, fresh, edit, histVars>>

\* Each attempt makes a group; after five (here: when no group is left) the removal is given up.
RemoveGivesUp(d) ==
    /\ round[d].pc = "remove" /\ ~Closed(d) /\ made = MaxGroup
    /\ round' = Ended(d)
    /\ UNCHANGED <<clock, faults, made, groups, keys, local, file, noteVars, histVars>>

\* The new group: the whole document, the removed device's row gone.
RemoveMakesGroup(d) ==
    LET g == keys[d]
        old == groups[g]
        next == made + 1
    IN
    /\ round[d].pc = "remove" /\ ~Closed(d) /\ old.version > 0 /\ next \in Groups
    /\ made' = next
    /\ groups' = [groups EXCEPT ![next] = [old EXCEPT !.version = 1,
                                                      !.rows[round[d].target] = "gone"]]
    /\ round' = [round EXCEPT ![d].pc = "close", ![d].g = g, ![d].version = old.version,
                              ![d].rows = old.rows, ![d].next = next]
    /\ UNCHANGED <<clock, faults, keys, local, file, noteVars, histVars>>

\* Closed: the removing device takes the new key, or turns syncing off when it is the one.
Removed(d, r) ==
    IF r.target = d THEN Forget(d)
    ELSE /\ keys' = [keys EXCEPT ![d] = r.next]
         /\ file' = [file EXCEPT ![d].version = 0]
         /\ round' = Ended(d)
         /\ UNCHANGED <<pend, pendFile>>

\* The forwarding note closes the old group, if nobody wrote to it since it was read.
RemoveCloses(d) ==
    LET r == round[d]
        sealed == {e \in Devices : r.rows[e] = "here"} \ {r.target}
    IN
    /\ r.pc = "close"
    /\ IF Current(r)
       THEN /\ groups' = [groups EXCEPT ![r.g].version = @ + 1, ![r.g].moved = r.next,
                                        ![r.g].sealed = sealed]
            /\ \/ UNCHANGED faults /\ Removed(d, r)
               \/ Fault("lost") /\ round' = Ended(d) /\ UNCHANGED <<keys, file, pend, pendFile>>
       ELSE /\ round' = [Again(d) EXCEPT ![d].pc = "remove"]
            /\ UNCHANGED <<groups, faults, keys, file, pend, pendFile>>
    /\ UNCHANGED <<clock, made, local, fresh, edit, histVars>>

\* The core ends and starts again: what is in memory is read back from the files.
Restarts(d) ==
    /\ Fault("end")
    /\ round[d].pc = "applied" => "endWhileApplied" \in Events
    /\ round' = Ended(d)
    /\ edit' = [edit EXCEPT ![d] = NoEdit]
    /\ pend' = [pend EXCEPT ![d] = pendFile[d]]
    /\ fresh' = [fresh EXCEPT ![d] = TRUE]
    /\ UNCHANGED <<clock, made, groups, keys, local, file, pendFile, histVars>>

\* cleanup: a group nobody used for long, so no join or removal is half-way.
GroupExpires(g) ==
    /\ Fault("expire") /\ groups[g].version > 0
    /\ \A d \in Devices : /\ g \notin {round[d].g, round[d].next}
                          /\ keys[d] = g => file[d].version > 0
    /\ groups' = [groups EXCEPT ![g] = NoGroup]
    /\ UNCHANGED <<clock, made, keys, local, file, round, noteVars, histVars>>

-----------------------------------------------------------------------------
RoundSteps(d) ==
    \/ RoundReads(d) \/ Follows(d) \/ GroupGone(d) \/ RoundMerges(d) \/ RoundApplies(d)
    \/ RoundKeeps(d) \/ RoundStores(d) \/ RoundSaves(d)
    \/ RemoveFollows(d) \/ RemoveGivesUp(d) \/ RemoveMakesGroup(d) \/ RemoveCloses(d)

NotifySteps(d) == NotifyReads(d) \/ NotifyNotes(d) \/ NotifyWrites(d)

Next ==
    \/ \E d \in Devices :
          \/ RoundSteps(d) \/ RoundFails(d) \/ NotifySteps(d) \/ Restarts(d)
          \/ CreatesGroup(d)
          \/ \E g \in Groups : Joins(d, g)
          \/ \E k \in Keys : \E v \in ValuesOf(k) : Edit(d, k, v)
          \/ \E x \in Devices : RemoveBegins(d, x)
    \/ \E g \in Groups : GroupExpires(g)

Spec == Init /\ [][Next]_vars

\* A core that runs syncs again and again (Run: every Interval and on a wake-up), and finishes
\* the Notify it began.
Fairness == \A d \in Devices : WF_vars(RoundSteps(d)) /\ WF_vars(NotifySteps(d))

FairSpec == Spec /\ Fairness
=============================================================================
