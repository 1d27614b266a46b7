--------------------------- MODULE SyncProperties ---------------------------
(***************************************************************************)
(* What syncing between devices promises (docs/sync.md, "Group document"). *)
(***************************************************************************)
EXTENDS Sync

TypeOK ==
    /\ clock \in 1..(MaxTime + 1) /\ faults \in 0..MaxFaults /\ made \in 0..MaxGroup
    /\ keys \in [Devices -> 0..MaxGroup]
    /\ \A d \in Devices, k \in Keys : local[d][k] \in ValuesOf(k)
    /\ \A d \in Devices : round[d].pc \in RoundPcs
    /\ \A g \in Groups, k \in Keys :
          groups[g].entries[k] \in [v: ValuesOf(k), t: Times, d: Devices] \cup {NoEntry}

\* What a device and its group agree on according to sync.json is the same on both, after any
\* round that saw the group's last version, whatever was typed, refused or lost in between.
InStep ==
    \A d \in Devices :
        LET g == keys[d] IN
        g # 0 /\ round[d].pc = "idle" /\ seen[d] = <<g, groups[g].version>> =>
            \A k \in Keys \ kept[d] :
                local[d][k] = file[d].hashes[k] => groups[g].entries[k].v = local[d][k]

\* "What Apply took over is the group's now, not a change made here": only what the user of a
\* device chose there is offered to the group under the device's name.
NothingSentBack ==
    [][\A d \in Devices : round[d].pc = "read" /\ round'[d].pc \in {"apply", "store", "save"} =>
          \A k \in Keys : round'[d].merged[k] # round[d].remote[k] => mine[d][k]]_vars

\* "The later change wins": a change noted on a device is neither overwritten by the group's
\* value nor dropped from what is pending unless the group's document has this value or one that
\* is no older, or the device is back at what was in step and another one changed it since.
\* Joining takes the group's settings.
Yields(d, k, c) ==
    LET r == round[d]
        v == IF c.h = Typed THEN r.here[k] ELSE c.h
    IN \/ r.st.adopt \/ r.merged[k].v = v \/ r.merged[k].t >= c.t
       \/ r.st.hashes[k] = v /\ r.remote[k].d # d
       \/ r.merged[k] = NoEntry /\ v = "false"

LaterChangeWins ==
    [][\A d \in Devices, k \in Keys :
          LET c == pend[d].changes[k] IN
          /\ c # NoNote /\ faults' = faults
          /\ \/ c.h \in {local[d][k], Typed} /\ local'[d][k] # local[d][k] /\ ~mine'[d][k]
             \/ c.h \in {round[d].here[k], Typed} /\ pend'[d].changes[k] = NoNote
          => Yields(d, k, c)]_vars

\* A device in a group's list is turned off only when it was removed from it or the relay dropped
\* the group, however its own writes race with the removal.
KeepsItsPlace ==
    [][\A d \in Devices :
          LET g == keys[d] IN
          g # 0 /\ keys'[d] = 0 =>
             \/ groups[g].rows[d] # "here" \/ groups'[g].version = 0
             \/ LET next == groups[groups'[g].moved]
                IN groups'[g].moved # 0 /\ (next.rows[d] = "gone" \/ next.version = 0)]_vars

-----------------------------------------------------------------------------
\* In the end every device has left the closed groups, and the devices of a group have the same
\* settings.
Converges ==
    <>[](\A d, e \in Devices :
            keys[d] # 0 => groups[keys[d]].moved = 0 /\ (keys[e] = keys[d] => local[e] = local[d]))
=============================================================================
