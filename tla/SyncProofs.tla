------------------------------ MODULE SyncProofs ------------------------------
(***************************************************************************)
(* Safety of Sync, for any devices, settings, groups and faults, as long   *)
(* as either devices are removed or the relay drops groups (NoRevival).    *)
(*  - GroupInv: the groups that devices are in form a chain, one removal   *)
(*    each, and only the last one is open; the group a removal has made    *)
(*    is nobody's until the old one is closed.                             *)
(*  - RowsInv: a device in a group is not listed there as gone, and the    *)
(*    note that closes a group leaves out just the device removed.         *)
(*  - ReadInv: at the version a round has read, the group is still what    *)
(*    the round has read; all it writes rests on that version.             *)
(*  - SeenInv, HashInv: no device has noted a version its group has not    *)
(*    reached, and what sync.json says is in step at a version is what     *)
(*    the group has at it.                                                 *)
(* InStep follows from HashInv, KeepsItsPlace from RowsInv.                *)
(***************************************************************************)
EXTENDS SyncProperties, TLAPS

-----------------------------------------------------------------------------
\* Types.
Hashes == {None, Typed} \cup Values \cup OnOff
EntryType == [v: Hashes, t: Nat, d: Devices \cup {0}]
EntriesType == {e \in [Keys -> EntryType] :
                  \A k \in Keys : e[k] # NoEntry => e[k].v \in ValuesOf(k)}
HashesType == [Keys -> Hashes]
PendingType == [at: Nat, secrets: BOOLEAN, changes: [Keys -> [h: Hashes, t: Nat]]]
FileType == [version: Nat, adopt: BOOLEAN, lost: BOOLEAN, hashes: HashesType, drop: SUBSET Sites]
RowsType == [Devices -> {"absent", "here", "gone"}]
GroupType == [version: Nat, entries: EntriesType, rows: RowsType, moved: 0..MaxGroup,
              sealed: SUBSET Devices]
RoundType ==
    [pc: RoundPcs, g: 0..MaxGroup, version: Nat, remote: EntriesType, rows: RowsType,
     p: PendingType, st: FileType, merged: EntriesType, here: HashesType, write: BOOLEAN,
     incoming: SUBSET Keys, failed: SUBSET Keys, busy: SUBSET Keys, target: Devices \cup {0},
     next: 0..MaxGroup]
EditType ==
    [pc: {"idle", "wrote", "noting", "writing"}, typed: SUBSET Secrets, at: Nat, linked: BOOLEAN,
     snap: HashesType, st: FileType, data: PendingType]

Types ==
    /\ clock \in Nat /\ faults \in Nat /\ made \in 0..MaxGroup
    /\ groups \in [Groups -> GroupType]
    /\ keys \in [Devices -> 0..MaxGroup]
    /\ local \in [Devices -> [Keys -> Hashes]]
    /\ \A d \in Devices, k \in Keys : local[d][k] \in ValuesOf(k)
    /\ file \in [Devices -> FileType]
    /\ round \in [Devices -> RoundType]
    /\ pend \in [Devices -> PendingType] /\ pendFile \in [Devices -> PendingType]
    /\ fresh \in [Devices -> BOOLEAN]
    /\ edit \in [Devices -> EditType]
    /\ mine \in [Devices -> [Keys -> BOOLEAN]]
    /\ seen \in [Devices -> (0..MaxGroup) \X Nat]
    /\ kept \in [Devices -> SUBSET Keys]

\* Between rounds nothing of one is left but the device to remove; a round under way is one of the
\* group whose key the device has; only a website can be taken over without an entry of the
\* group's.
AtWork == {"read", "apply", "applied", "store", "save", "close"}
Fits(r, key) ==
    /\ r.pc = "idle" => r = [NoRound EXCEPT !.target = r.target]
    /\ r.pc \in AtWork => r.g = key
    /\ r.pc \in AtWork \cup {"remove"} => key # 0
    /\ r.pc \in {"read", "apply"} => r.failed = {}
    /\ r.pc \in {"apply", "applied", "store", "save"} =>
          \A k \in r.incoming \cup r.failed : r.merged[k] = NoEntry => k \in Sites
RoundFits == \A d \in Devices : Fits(round[d], keys[d])

TypeInv == Types /\ RoundFits

LEMMA NoneTypes ==
  /\ NoEntries \in EntriesType /\ NoPending \in PendingType /\ NoHashes \in HashesType
  /\ NewState \in FileType /\ NoFile \in FileType /\ NoEdit \in EditType
  /\ NoGroup \in GroupType /\ NoRound \in RoundType
<1>1. NoEntry \in EntryType /\ None \in Hashes
  BY DEF NoEntry, EntryType, Hashes
<1>2. NoEntries \in EntriesType
  BY <1>1 DEF NoEntries, EntriesType
<1>3. NoHashes \in HashesType
  BY <1>1 DEF NoHashes, HashesType
<1>4. NoPending \in PendingType
  BY <1>1 DEF NoPending, PendingType, NoNote
<1>5. NewState \in FileType /\ NoFile \in FileType
  BY <1>3 DEF NewState, NoFile, FileType
<1>6. NoEdit \in EditType
  BY <1>3, <1>4, <1>5 DEF NoEdit, EditType
<1>7. NoRows \in RowsType
  BY DEF NoRows, RowsType
<1>8. NoGroup \in GroupType
  BY <1>2, <1>7, SyncAssumption DEF NoGroup, GroupType
<1>9. NoRound \in RoundType
  BY <1>2, <1>3, <1>4, <1>5, <1>7, SyncAssumption DEF NoRound, RoundType, RoundPcs
<1> QED BY <1>2, <1>3, <1>4, <1>5, <1>6, <1>8, <1>9

LEMMA NoneIsNoValue == \A k \in Keys : None \notin ValuesOf(k)
  BY SyncAssumption DEF ValuesOf, OnOff, None

LEMMA ValuesAreHashes == \A k \in Keys : ValuesOf(k) \subseteq Hashes
  BY DEF ValuesOf, Hashes

\* What the operators of a round return.
LEMMA SnapshotType ==
  ASSUME TypeInv, NEW d \in Devices, NEW withSecrets \in BOOLEAN
  PROVE  /\ Snapshot(d, withSecrets) \in HashesType
         /\ \A k \in Keys : Snapshot(d, withSecrets)[k] \in ValuesOf(k) \cup {None}
<1>1. \A k \in Keys : Snapshot(d, withSecrets)[k] \in ValuesOf(k) \cup {None}
  BY DEF Snapshot, TypeInv, Types
<1>2. Snapshot(d, withSecrets) = [k \in Keys |-> Snapshot(d, withSecrets)[k]]
  BY DEF Snapshot
<1>3. \A k \in Keys : Snapshot(d, withSecrets)[k] \in Hashes
  BY <1>1, ValuesAreHashes DEF Hashes
<1> HIDE DEF Snapshot
<1> QED BY <1>1, <1>2, <1>3 DEF HashesType

LEMMA WhenType ==
  ASSUME TypeInv, NEW r \in RoundType, NEW k \in Keys, NEW v PROVE When(r, k, v) \in Nat
  BY DEF When, TypeInv, Types, RoundType, PendingType

LEMMA StampedType ==
  ASSUME TypeInv, NEW d \in Devices, NEW r \in RoundType, NEW k \in Keys, NEW v \in ValuesOf(k)
  PROVE  /\ Stamped(d, r, k, v) \in EntryType
         /\ Stamped(d, r, k, v) \in {Own(d, r, k, v), r.remote[k]}
         /\ Own(d, r, k, v) # NoEntry /\ Own(d, r, k, v).v = v
         /\ r.remote[k] # NoEntry => r.remote[k].v \in ValuesOf(k)
<1>1. When(r, k, v) \in Nat /\ v \in Hashes
  BY WhenType, ValuesAreHashes
<1>2. r.remote[k] \in EntryType
  BY DEF RoundType, EntriesType
<1>3. Own(d, r, k, v) \in EntryType /\ Own(d, r, k, v).v = v /\ Own(d, r, k, v).d = d
  BY <1>1, <1>2 DEF Own, EntryType
<1>4. Own(d, r, k, v) # NoEntry
  BY <1>3, SyncAssumption DEF NoEntry
<1>5. r.remote[k] # NoEntry => r.remote[k].v \in ValuesOf(k)
  BY DEF RoundType, EntriesType
<1> QED BY <1>2, <1>3, <1>4, <1>5 DEF Stamped

LEMMA MergedType ==
  ASSUME TypeInv, NEW d \in Devices, NEW r \in RoundType, NEW snap,
         \A k \in Keys : snap[k] \in ValuesOf(k) \cup {None}
  PROVE  /\ Merged(d, r, snap) \in EntriesType
         /\ \A k \in Keys : \/ Merged(d, r, snap)[k] = r.remote[k]
                            \/ /\ Merged(d, r, snap)[k] # NoEntry
                               /\ Merged(d, r, snap)[k].v =
                                     IF snap[k] = None THEN "false" ELSE snap[k]
                               /\ snap[k] = None => k \in Sites
<1> DEFINE M == Merged(d, r, snap)
           v(k) == IF snap[k] = None THEN "false" ELSE snap[k]
<1>1. M = [k \in Keys |-> IF Sends(d, r, snap, k) THEN Stamped(d, r, k, v(k)) ELSE r.remote[k]]
  BY DEF Merged
<1>2. ASSUME NEW k \in Keys
      PROVE  /\ M[k] \in EntryType /\ (M[k] # NoEntry => M[k].v \in ValuesOf(k))
             /\ \/ M[k] = r.remote[k]
                \/ M[k] # NoEntry /\ M[k].v = v(k) /\ (snap[k] = None => k \in Sites)
  <2>1. r.remote[k] \in EntryType /\ (r.remote[k] # NoEntry => r.remote[k].v \in ValuesOf(k))
    BY DEF RoundType, EntriesType
  <2>2. CASE Sends(d, r, snap, k)
    <3>1. snap[k] = None => k \in Sites
      BY <2>2 DEF Sends
    <3>2. v(k) \in ValuesOf(k)
      BY <3>1 DEF ValuesOf, OnOff
    <3>3. M[k] = Stamped(d, r, k, v(k))
      BY <1>1, <2>2
    <3> HIDE DEF M, v
    <3> QED BY <2>1, <3>1, <3>2, <3>3, StampedType
  <2>3. CASE ~Sends(d, r, snap, k)
    BY <1>1, <2>1, <2>3
  <2> QED BY <2>2, <2>3
<1> HIDE DEF M, v
<1>3. M = [k \in Keys |-> M[k]]
  BY <1>1
<1>4. M \in EntriesType
  BY <1>2, <1>3 DEF EntriesType
<1> QED BY <1>2, <1>4 DEF M, v

LEMMA HereType ==
  ASSUME NEW r \in RoundType, NEW snap \in HashesType, NEW withSecrets \in BOOLEAN
  PROVE  Here(r, snap, withSecrets) \in HashesType
  BY DEF Here, RoundType, FileType, HashesType, Hashes, OnOff

LEMMA IncomingType ==
  ASSUME NEW r \in RoundType, NEW snap, NEW merged, NEW here
  PROVE  LET I == Incoming(r, snap, merged, here)
         IN I \subseteq Keys /\ \A k \in I : merged[k] = NoEntry => k \in Sites
  BY DEF Incoming, RoundType, FileType

\* Steps and types.
LEMMA TypesInit == Init => TypeInv
<1> SUFFICES ASSUME Init PROVE TypeInv
  OBVIOUS
<1> USE DEF Init
<1>1. /\ groups \in [Groups -> GroupType] /\ file \in [Devices -> FileType]
      /\ round \in [Devices -> RoundType] /\ pend \in [Devices -> PendingType]
      /\ pendFile \in [Devices -> PendingType] /\ edit \in [Devices -> EditType]
  BY NoneTypes
<1>2. \A d \in Devices, k \in Keys : local[d][k] \in ValuesOf(k)
  BY SyncAssumption DEF ValuesOf, OnOff
<1>3. local \in [Devices -> [Keys -> Hashes]]
  <2>1. {Default} \cup OnOff \subseteq Hashes
    BY SyncAssumption DEF Hashes
  <2> QED BY <2>1
<1>4. Types
  BY <1>1, <1>2, <1>3, SyncAssumption DEF Types
<1>5. RoundFits
  BY <1>1 DEF RoundFits, Fits, AtWork, NoRound, RoundType
<1> QED BY <1>4, <1>5 DEF TypeInv

\* One device's round becomes r.
RoundBecomes(d, r) == round' = [round EXCEPT ![d] = r]

LEMMA RoundFitsStays ==
  ASSUME TypeInv, NEW d \in Devices, NEW r \in RoundType, RoundBecomes(d, r), Fits(r, keys'[d]),
         \A e \in Devices : e # d => keys'[e] = keys[e]
  PROVE  round' \in [Devices -> RoundType] /\ RoundFits'
  BY DEF TypeInv, Types, RoundBecomes, RoundFits

LEMMA RestFits ==
  /\ NoRound \in RoundType /\ \A key : Fits(NoRound, key)
  /\ \A d \in Devices : Ended(d) = [round EXCEPT ![d] = NoRound]
<1>1. \A key : Fits(NoRound, key)
  <2>1. [NoRound EXCEPT !.target = NoRound.target] = NoRound
    BY DEF NoRound
  <2>2. NoRound.pc = "idle" /\ NoRound.incoming = {} /\ NoRound.failed = {}
    BY DEF NoRound
  <2> QED BY <2>1, <2>2 DEF Fits, AtWork
<1> QED BY <1>1, NoneTypes DEF Ended

LEMMA AgainFits ==
  ASSUME TypeInv, NEW d \in Devices
  PROVE  LET r == [NoRound EXCEPT !.target = round[d].target]
         IN /\ r \in RoundType /\ \A key : Fits(r, key)
            /\ [r EXCEPT !.pc = "remove"] \in RoundType
            /\ \A key : key # 0 => Fits([r EXCEPT !.pc = "remove"], key)
            /\ Again(d) = [round EXCEPT ![d] = r]
            /\ [Again(d) EXCEPT ![d].pc = "remove"]
                  = [round EXCEPT ![d] = [r EXCEPT !.pc = "remove"]]
<1> DEFINE r == [NoRound EXCEPT !.target = round[d].target]
<1>1. round[d].target \in Devices \cup {0} /\ round \in [Devices -> RoundType]
  BY DEF TypeInv, Types, RoundType
<1>2. r \in RoundType /\ [r EXCEPT !.pc = "remove"] \in RoundType
  BY <1>1, NoneTypes DEF RoundType, RoundPcs
<1>3. \A key : Fits(r, key) /\ (key # 0 => Fits([r EXCEPT !.pc = "remove"], key))
  BY <1>1, NoneTypes DEF Fits, AtWork, NoRound, RoundType
<1>4. Again(d) = [round EXCEPT ![d] = r]
  BY DEF Again
<1>5. [Again(d) EXCEPT ![d].pc = "remove"] = [round EXCEPT ![d] = [r EXCEPT !.pc = "remove"]]
  BY <1>1, <1>4
<1> QED BY <1>2, <1>3, <1>4, <1>5

LEMMA ForgetTypes ==
  ASSUME TypeInv, NEW d \in Devices, Forget(d)
  PROVE  /\ keys' \in [Devices -> 0..MaxGroup] /\ file' \in [Devices -> FileType]
         /\ pend' \in [Devices -> PendingType] /\ pendFile' \in [Devices -> PendingType]
         /\ round' \in [Devices -> RoundType] /\ RoundFits'
<1>1. RoundBecomes(d, NoRound)
  BY RestFits DEF Forget, RoundBecomes
<1>2. round' \in [Devices -> RoundType] /\ RoundFits'
  <2>1. \A e \in Devices : e # d => keys'[e] = keys[e]
    BY DEF Forget, TypeInv, Types
  <2> QED BY <1>1, <2>1, RestFits, RoundFitsStays
<1>3. keys' \in [Devices -> 0..MaxGroup]
  BY SyncAssumption DEF Forget, TypeInv, Types
<1>4. /\ file' \in [Devices -> FileType] /\ pend' \in [Devices -> PendingType]
      /\ pendFile' \in [Devices -> PendingType]
  BY NoneTypes DEF Forget, TypeInv, Types
<1> QED BY <1>2, <1>3, <1>4

LEMMA ReadTypes ==
  ASSUME TypeInv, NEW d \in Devices, RoundReads(d) \/ Follows(d) \/ GroupGone(d) PROVE TypeInv'
<1> USE DEF TypeInv, noteVars, histVars
<1>1. CASE RoundReads(d)
  <2> DEFINE g == keys[d]
             r == [round[d] EXCEPT !.pc = "read", !.g = g, !.version = groups[g].version,
                      !.remote = groups[g].entries, !.rows = groups[g].rows, !.p = pend[d],
                      !.st = file[d]]
  <2>1. g \in Groups /\ g \in 0..MaxGroup /\ groups[g] \in GroupType
    BY <1>1, SyncAssumption DEF RoundReads, Types, Groups
  <2>2. round[d] \in RoundType /\ pend[d] \in PendingType /\ file[d] \in FileType
    BY DEF Types
  <2>3. r \in RoundType
    BY <2>1, <2>2 DEF RoundType, RoundPcs, GroupType
  <2>4. RoundBecomes(d, r)
    BY <1>1, <2>2 DEF RoundReads, RoundBecomes, RoundType, Types
  <2>5. r.failed = {} /\ r.pc = "read"
    <3>1. round[d] = [NoRound EXCEPT !.target = round[d].target]
      BY <1>1 DEF RoundReads, RoundFits, Fits
    <3>2. round[d].failed = {}
      BY <3>1, NoneTypes DEF NoRound, RoundType
    <3> QED BY <2>2, <3>2 DEF RoundType
  <2>6. r.g = keys'[d] /\ r.g # 0 /\ keys' = keys
    BY <1>1, <2>2 DEF RoundReads, RoundType
  <2> HIDE DEF r
  <2>7. round' \in [Devices -> RoundType] /\ RoundFits'
    BY <2>3, <2>4, <2>5, <2>6, RoundFitsStays DEF Fits
  <2> QED BY <1>1, <2>7 DEF RoundReads, Types
<1>2. CASE Follows(d) /\ d \in groups[keys[d]].sealed
  <2>1. groups[keys[d]].moved \in 0..MaxGroup
    BY <1>2, SyncAssumption DEF Follows, Types, GroupType, Groups
  <2>2. keys' \in [Devices -> 0..MaxGroup]
    BY <1>2, <2>1 DEF Follows, Types
  <2>3. RoundFits'
    BY <1>2, <2>2 DEF Follows, Types, RoundFits, Fits, AtWork
  <2> QED BY <1>2, <2>2, <2>3 DEF Follows, Types
<1>3. CASE (Follows(d) \/ GroupGone(d)) /\ Forget(d)
  <2>1. UNCHANGED <<clock, faults, made, groups, local, fresh, edit, mine, seen, kept>>
    BY <1>3 DEF Follows, GroupGone
  <2> QED BY <1>3, <2>1, ForgetTypes DEF Types
<1> QED BY <1>1, <1>2, <1>3 DEF Follows, GroupGone

LEMMA MergeTypes ==
  ASSUME TypeInv, NEW d \in Devices, RoundMerges(d) PROVE TypeInv'
<1> DEFINE r == round[d]
           withSecrets == r.p.secrets \/ r.version = 0
           snap == Snapshot(d, withSecrets)
           merged == Merged(d, r, snap)
           here == Here(r, snap, withSecrets)
           incoming == Incoming(r, snap, merged, here)
           next == [r EXCEPT !.merged = merged, !.here = here, !.incoming = incoming,
                             !.rows = [r.rows EXCEPT ![d] = "here"],
                             !.write = merged # r.remote \/ r.rows[d] # "here"]
           after == [next EXCEPT !.pc = IF incoming # {} THEN "apply" ELSE AfterApply(next)]
<1>1. r \in RoundType /\ withSecrets \in BOOLEAN
  BY DEF TypeInv, Types, RoundType, PendingType
<1>2. snap \in HashesType /\ \A k \in Keys : snap[k] \in ValuesOf(k) \cup {None}
  BY <1>1, SnapshotType
<1> HIDE DEF snap
<1>3. merged \in EntriesType
  BY <1>1, <1>2, MergedType
<1> HIDE DEF merged
<1>4. here \in HashesType
  BY <1>1, <1>2, HereType
<1> HIDE DEF here
<1>5. incoming \subseteq Keys /\ \A k \in incoming : merged[k] = NoEntry => k \in Sites
  BY <1>1, IncomingType
<1> HIDE DEF incoming
<1>6. [r.rows EXCEPT ![d] = "here"] \in RowsType
  BY <1>1 DEF RoundType, RowsType
<1>7. next \in RoundType
  BY <1>1, <1>3, <1>4, <1>5, <1>6 DEF RoundType
<1>8. /\ next.merged = merged /\ next.incoming = incoming /\ next.failed = r.failed
      /\ next.g = r.g
  BY <1>1 DEF RoundType
<1> HIDE DEF next
<1>9. after \in RoundType
  BY <1>7 DEF RoundType, RoundPcs, AfterApply
<1>10. /\ after.merged = merged /\ after.incoming = incoming /\ after.failed = r.failed
       /\ after.pc \in {"apply", "store", "save"} /\ after.g = r.g
  BY <1>7, <1>8 DEF RoundType, AfterApply
<1>11. RoundBecomes(d, after) /\ r.pc = "read" /\ keys' = keys
  BY DEF RoundMerges, RoundBecomes, next, incoming, here, merged, snap
<1> HIDE DEF after
<1>12. Fits(after, keys[d])
  BY <1>5, <1>10, <1>11 DEF Fits, AtWork, TypeInv, RoundFits
<1>13. round' \in [Devices -> RoundType] /\ RoundFits'
  BY <1>9, <1>11, <1>12, RoundFitsStays
<1> QED BY <1>13 DEF RoundMerges, noteVars, histVars, TypeInv, Types

\* What Apply leaves of the settings.
AppliedSettings(d, applied) ==
    [k \in Keys |->
        IF k \in Sites /\ applied \cap Sites # {}
        THEN IF round[d].merged[k].v = "true" THEN "true" ELSE "false"
        ELSE IF k \in applied THEN round[d].merged[k].v ELSE local[d][k]]

LEMMA ApplyTypes ==
  ASSUME TypeInv, NEW d \in Devices, RoundApplies(d) PROVE TypeInv'
<1> USE DEF TypeInv
<1> DEFINE r == round[d]
           busy == Busy(d, r)
<1>1. r \in RoundType /\ r.pc = "apply" /\ busy \subseteq r.incoming
  BY DEF RoundApplies, Types, Busy
<1>2. PICK refused \in Refusable(r.incoming \ busy) :
        LET applied == r.incoming \ (refused \cup busy) IN
        /\ local' = [local EXCEPT ![d] = AppliedSettings(d, applied)]
        /\ mine' = [mine EXCEPT ![d] =
                      [k \in Keys |-> @[k] /\ AppliedSettings(d, applied)[k] = local[d][k]]]
        /\ round' = [round EXCEPT ![d].pc = "applied", ![d].failed = refused \cup busy,
                                  ![d].busy = busy]
        /\ faults' = faults \/ faults' = faults + 1
  BY DEF RoundApplies, AppliedSettings, Fault
<1> DEFINE failed == refused \cup busy
           applied == r.incoming \ failed
           now == AppliedSettings(d, applied)
           after == [r EXCEPT !.pc = "applied", !.failed = failed, !.busy = busy]
<1>3. failed \subseteq r.incoming /\ r.incoming \subseteq Keys
  BY <1>1 DEF Refusable, RoundType
<1> HIDE DEF busy
<1>4. after \in RoundType
  BY <1>1, <1>3 DEF RoundType, RoundPcs
<1>5. RoundBecomes(d, after)
  BY <1>1, <1>2 DEF RoundBecomes, Types, RoundType
<1>6. /\ after.pc = "applied" /\ after.incoming = r.incoming /\ after.failed = failed
      /\ after.merged = r.merged /\ after.g = r.g
  BY <1>1 DEF RoundType
<1> HIDE DEF after, failed
<1>7. Fits(after, keys[d]) /\ keys' = keys
  BY <1>1, <1>3, <1>6 DEF Fits, AtWork, RoundFits, RoundApplies
<1>8. round' \in [Devices -> RoundType] /\ RoundFits'
  BY <1>4, <1>5, <1>7, RoundFitsStays
<1>9. \A k \in Keys : now[k] \in ValuesOf(k)
  <2> SUFFICES ASSUME NEW k \in Keys PROVE now[k] \in ValuesOf(k)
    OBVIOUS
  <2>1. CASE k \in Sites /\ applied \cap Sites # {}
    BY <2>1 DEF AppliedSettings, ValuesOf, OnOff
  <2>2. CASE k \in applied /\ ~(k \in Sites /\ applied \cap Sites # {})
    <3>1. r.merged[k] # NoEntry
      BY <1>1, <2>2 DEF RoundFits, Fits
    <3>2. r.merged[k].v \in ValuesOf(k)
      BY <1>1, <3>1 DEF RoundType, EntriesType
    <3> QED BY <2>2, <3>2 DEF AppliedSettings
  <2>3. CASE k \notin applied /\ ~(k \in Sites /\ applied \cap Sites # {})
    BY <2>3 DEF AppliedSettings, Types
  <2> QED BY <2>1, <2>2, <2>3
<1>10. now \in [Keys -> Hashes]
  BY <1>9, ValuesAreHashes DEF AppliedSettings
<1> HIDE DEF now, applied
<1>11. /\ local' = [local EXCEPT ![d] = now]
       /\ mine' = [mine EXCEPT ![d] = [k \in Keys |-> @[k] /\ now[k] = local[d][k]]]
       /\ faults' \in Nat
  BY <1>2 DEF now, applied, failed, Types
<1>12. /\ local' \in [Devices -> [Keys -> Hashes]] /\ mine' \in [Devices -> [Keys -> BOOLEAN]]
       /\ \A e \in Devices, k \in Keys : local'[e][k] \in ValuesOf(k)
  BY <1>9, <1>10, <1>11 DEF Types
<1> QED BY <1>8, <1>11, <1>12 DEF RoundApplies, noteVars, Types

LEMMA TakenOverType ==
  ASSUME NEW r \in RoundType, NEW listed PROVE TakenOver(r, listed) \in HashesType
  BY DEF TakenOver, RoundType, EntriesType, EntryType, FileType, HashesType

LEMMA KeepTypes ==
  ASSUME TypeInv, NEW d \in Devices, RoundKeeps(d) PROVE TypeInv'
<1> USE DEF TypeInv
<1> DEFINE r == round[d]
           applied == r.incoming \ r.failed
           listed == {k \in applied : r.merged[k] # NoEntry}
           st == [r.st EXCEPT !.hashes = TakenOver(r, listed), !.drop = @ \ listed,
                              !.adopt = @ /\ r.failed # {}]
           changes == [k \in Keys |->
                          IF k \in applied /\ pend[d].changes[k] = r.p.changes[k]
                          THEN NoNote ELSE pend[d].changes[k]]
           after == [r EXCEPT !.pc = AfterApply(r)]
<1>1. r \in RoundType /\ r.pc = "applied"
  BY DEF RoundKeeps, Types
<1>2. st \in FileType
  BY <1>1, TakenOverType DEF RoundType, FileType
<1>3. [pend[d] EXCEPT !.changes = changes] \in PendingType
  <2>1. NoNote \in [h: Hashes, t: Nat]
    BY DEF NoNote, Hashes
  <2>2. pend[d] \in PendingType
    BY DEF Types
  <2>3. changes \in [Keys -> [h: Hashes, t: Nat]]
    BY <2>1, <2>2 DEF PendingType
  <2> HIDE DEF changes
  <2> QED BY <2>2, <2>3 DEF PendingType
<1> HIDE DEF st, changes
<1>4. after \in RoundType /\ [after EXCEPT !.st = st] \in RoundType
  BY <1>1, <1>2 DEF RoundType, RoundPcs, AfterApply
<1>5. /\ Fits(after, keys[d]) /\ Fits([after EXCEPT !.st = st], keys[d])
      /\ keys' = keys
  BY <1>1 DEF Fits, AtWork, RoundFits, RoundType, AfterApply, RoundKeeps
<1>6. CASE applied = {}
  <2>1. RoundBecomes(d, after) /\ UNCHANGED <<file, pend, pendFile>>
    BY <1>6 DEF RoundKeeps, RoundBecomes
  <2>2. round' \in [Devices -> RoundType] /\ RoundFits'
    BY <1>4, <1>5, <2>1, RoundFitsStays
  <2> QED BY <2>1, <2>2 DEF RoundKeeps, histVars, Types
<1>7. CASE applied # {}
  <2>1. /\ RoundBecomes(d, [after EXCEPT !.st = st])
        /\ file' = [file EXCEPT ![d] = st]
        /\ pend' = [pend EXCEPT ![d].changes = changes]
        /\ pendFile' = pendFile \/ pendFile' = [pendFile EXCEPT ![d] = pend'[d]]
    BY <1>1, <1>7 DEF RoundKeeps, RoundBecomes, st, changes, Types, RoundType
  <2>2. round' \in [Devices -> RoundType] /\ RoundFits'
    BY <1>4, <1>5, <2>1, RoundFitsStays
  <2>3. pend' \in [Devices -> PendingType] /\ file' \in [Devices -> FileType]
    BY <1>2, <1>3, <2>1 DEF Types
  <2>4. pendFile' \in [Devices -> PendingType]
    BY <2>1, <2>3 DEF Types
  <2> QED BY <2>2, <2>3, <2>4 DEF RoundKeeps, histVars, Types
<1> QED BY <1>6, <1>7

LEMMA StoreTypes ==
  ASSUME TypeInv, NEW d \in Devices, RoundStores(d) PROVE TypeInv'
<1> USE DEF TypeInv
<1> DEFINE r == round[d]
           saved == [r EXCEPT !.pc = "save", !.version = r.version + 1]
<1>1. r \in RoundType /\ r.pc = "store"
  BY DEF RoundStores, Types
<1>2. saved \in RoundType
  <2>1. r.version + 1 \in Nat
    BY <1>1 DEF RoundType
  <2> DEFINE v == r.version + 1
  <2> HIDE DEF v
  <2>2. [r EXCEPT !.pc = "save", !.version = v] \in RoundType
    BY <1>1, <2>1 DEF RoundType, RoundPcs, v
  <2> QED BY <2>2 DEF v
<1>3. Fits(saved, keys[d]) /\ keys' = keys
  <2>1. /\ saved.pc = "save" /\ saved.incoming = r.incoming /\ saved.failed = r.failed
        /\ saved.merged = r.merged /\ saved.g = r.g
    BY <1>1 DEF RoundType
  <2> HIDE DEF saved
  <2> QED BY <1>1, <2>1 DEF Fits, AtWork, RoundFits, RoundStores
<1>4. groups' \in [Groups -> GroupType]
  <2>1. CASE Current(r)
    <3>1. groups' = [groups EXCEPT ![r.g] = [groups[r.g] EXCEPT !.version = @ + 1,
                                                !.entries = r.merged, !.rows = r.rows]]
      BY <2>1 DEF RoundStores, Types, GroupType
    <3>2. r.g \in Groups => [groups[r.g] EXCEPT !.version = @ + 1, !.entries = r.merged,
                                               !.rows = r.rows] \in GroupType
      <4> DEFINE v == groups[r.g].version + 1
      <4>1. r.g \in Groups => v \in Nat
        BY DEF Types, GroupType
      <4> HIDE DEF v
      <4>2. r.g \in Groups => [groups[r.g] EXCEPT !.version = v, !.entries = r.merged,
                                                !.rows = r.rows] \in GroupType
        <5>1. r.merged \in EntriesType /\ r.rows \in RowsType
          BY <1>1 DEF RoundType
        <5>2. r.g \in Groups => groups[r.g] \in GroupType
          BY DEF Types
        <5> QED BY <4>1, <5>1, <5>2 DEF GroupType
      <4> QED BY <4>2 DEF v
    <3> QED BY <3>1, <3>2 DEF Types
  <2>2. CASE ~Current(r)
    BY <2>2 DEF RoundStores, Types
  <2> QED BY <2>1, <2>2
<1>5. faults' \in Nat
  BY DEF RoundStores, Types, Fault
<1>6. RoundBecomes(d, saved) \/ round' = Ended(d) \/ round' = Again(d)
  BY <1>1 DEF RoundStores, RoundBecomes, Types, RoundType
<1> HIDE DEF saved
<1>7. round' \in [Devices -> RoundType] /\ RoundFits'
  BY <1>2, <1>3, <1>6, RestFits, AgainFits, RoundFitsStays DEF RoundBecomes
<1> QED BY <1>4, <1>5, <1>7 DEF RoundStores, noteVars, histVars, Types

LEMMA SavedHashType ==
  ASSUME TypeInv, NEW d \in Devices, NEW k \in Keys
  PROVE  SavedHash(d, round[d], k) \in Hashes
<1>1. round[d] \in RoundType
  BY DEF TypeInv, Types
<1> QED BY <1>1 DEF SavedHash, RoundType, EntriesType, EntryType, FileType, HashesType, Hashes

LEMMA SaveTypes ==
  ASSUME TypeInv, NEW d \in Devices, RoundSaves(d) PROVE TypeInv'
<1> USE DEF TypeInv
<1> DEFINE r == round[d]
           st == [version |-> r.version, adopt |-> FALSE, lost |-> FALSE,
                  hashes |-> [k \in Keys |-> SavedHash(d, r, k)],
                  drop |-> {k \in r.failed : r.merged[k] = NoEntry}]
<1>1. r \in RoundType /\ r.pc = "save"
  BY DEF RoundSaves, Types
<1>2. {k \in r.failed : r.merged[k] = NoEntry} \subseteq Sites
  BY <1>1 DEF RoundFits, Fits
<1>3. [k \in Keys |-> SavedHash(d, r, k)] \in HashesType
  BY SavedHashType DEF HashesType
<1>4. st \in FileType
  BY <1>1, <1>2, <1>3 DEF FileType, RoundType
<1>5. file' = [file EXCEPT ![d] = st]
  BY DEF RoundSaves
<1> HIDE DEF st
<1>6. file' \in [Devices -> FileType]
  BY <1>4, <1>5 DEF Types
<1>7. pend' \in [Devices -> PendingType] /\ pendFile' \in [Devices -> PendingType]
  BY NoneTypes DEF RoundSaves, DonePending, Types
<1>8. seen' \in [Devices -> (0..MaxGroup) \X Nat] /\ kept' \in [Devices -> SUBSET Keys]
  BY <1>1 DEF RoundSaves, Types, RoundType
<1>9. /\ round' = Ended(d) \/ round' = [Again(d) EXCEPT ![d].pc = "remove"]
      /\ keys' = keys /\ keys[d] # 0
  BY <1>1 DEF RoundSaves, RoundFits, Fits, AtWork
<1>10. round' \in [Devices -> RoundType] /\ RoundFits'
  <2>1. CASE round' = Ended(d)
    BY <1>9, <2>1, RestFits, RoundFitsStays DEF RoundBecomes
  <2>2. CASE round' = [Again(d) EXCEPT ![d].pc = "remove"]
    <3> DEFINE again == [[NoRound EXCEPT !.target = round[d].target] EXCEPT !.pc = "remove"]
    <3>1. again \in RoundType /\ \A key : key # 0 => Fits(again, key)
      BY AgainFits
    <3>2. RoundBecomes(d, again)
      BY <2>2, AgainFits DEF RoundBecomes
    <3> HIDE DEF again
    <3> QED BY <1>9, <3>1, <3>2, RoundFitsStays
  <2> QED BY <1>9, <2>1, <2>2
<1> QED BY <1>6, <1>7, <1>8, <1>10 DEF RoundSaves, Types

LEMMA FailTypes ==
  ASSUME TypeInv, NEW d \in Devices, RoundFails(d) \/ Restarts(d) \/ RemoveGivesUp(d) PROVE TypeInv'
<1> USE DEF TypeInv
<1>1. round' = Ended(d) /\ keys' = keys
  BY DEF RoundFails, Restarts, RemoveGivesUp
<1>2. round' \in [Devices -> RoundType] /\ RoundFits'
  BY <1>1, RestFits, RoundFitsStays DEF RoundBecomes
<1>3. faults' \in Nat
  BY DEF RoundFails, Restarts, RemoveGivesUp, Fault, Types
<1>4. /\ edit' \in [Devices -> EditType] /\ pend' \in [Devices -> PendingType]
      /\ fresh' \in [Devices -> BOOLEAN]
  <2>1. CASE Restarts(d)
    <3>1. /\ edit' = [edit EXCEPT ![d] = NoEdit] /\ pend' = [pend EXCEPT ![d] = pendFile[d]]
          /\ fresh' = [fresh EXCEPT ![d] = TRUE]
      BY <2>1 DEF Restarts
    <3>2. edit' \in [Devices -> EditType]
      BY <3>1, NoneTypes DEF Types
    <3> QED BY <3>1, <3>2 DEF Types
  <2>2. CASE RoundFails(d) \/ RemoveGivesUp(d)
    BY <2>2 DEF RoundFails, RemoveGivesUp, noteVars, Types
  <2> QED BY <2>1, <2>2
<1> QED
  BY <1>2, <1>3, <1>4 DEF RoundFails, Restarts, RemoveGivesUp, noteVars, histVars, Types

\* A device's key changes while its round rests, or while it is on its way to remove a device.
LEMMA KeyFits ==
  ASSUME TypeInv, NEW d \in Devices, NEW key \in 0..MaxGroup, keys' = [keys EXCEPT ![d] = key],
         round' = round, round[d].pc = "idle" \/ keys[d] = 0 \/ (round[d].pc = "remove" /\ key # 0)
  PROVE  keys' \in [Devices -> 0..MaxGroup] /\ RoundFits'
<1>1. keys' \in [Devices -> 0..MaxGroup] /\ keys'[d] = key
  BY DEF TypeInv, Types
<1>2. \A e \in Devices : e # d => keys'[e] = keys[e]
  BY DEF TypeInv, Types
<1>3. Fits(round[d], key)
  BY DEF TypeInv, RoundFits, Fits, AtWork
<1>4. ASSUME NEW e \in Devices PROVE Fits(round'[e], keys'[e])
  BY <1>1, <1>2, <1>3 DEF TypeInv, RoundFits
<1> QED BY <1>1, <1>4 DEF RoundFits

LEMMA MembersTypes ==
  ASSUME TypeInv, NEW d \in Devices,
         CreatesGroup(d) \/ (\E g \in Groups : Joins(d, g))
         \/ (\E x \in Devices : RemoveBegins(d, x))
  PROVE  TypeInv'
<1> USE DEF TypeInv, noteVars, histVars
<1>1. CASE CreatesGroup(d)
  <2>1. made' \in 0..MaxGroup
    BY <1>1, SyncAssumption DEF CreatesGroup, Types, Groups
  <2>2. file' \in [Devices -> FileType]
    BY <1>1, NoneTypes DEF CreatesGroup, Types
  <2>3. keys' \in [Devices -> 0..MaxGroup] /\ RoundFits'
    BY <1>1, <2>1, KeyFits DEF CreatesGroup
  <2> QED BY <1>1, <2>1, <2>2, <2>3 DEF CreatesGroup, Types
<1>2. ASSUME NEW g \in Groups, Joins(d, g) PROVE TypeInv'
  <2>1. [NewState EXCEPT !.adopt = TRUE] \in FileType
    BY NoneTypes DEF FileType
  <2>2. keys' \in [Devices -> 0..MaxGroup] /\ RoundFits'
    <3>1. g \in 0..MaxGroup
      BY SyncAssumption DEF Groups
    <3> QED BY <1>2, <3>1, KeyFits DEF Joins
  <2>3. file' \in [Devices -> FileType]
    BY <1>2, <2>1 DEF Joins, Types
  <2> QED BY <1>2, <2>2, <2>3 DEF Joins, Types
<1>3. ASSUME NEW x \in Devices, RemoveBegins(d, x) PROVE TypeInv'
  <2> DEFINE r == [NoRound EXCEPT !.target = x]
  <2>1. r \in RoundType
    BY NoneTypes DEF RoundType
  <2>2. \A key : Fits(r, key)
    BY NoneTypes DEF Fits, AtWork, NoRound, RoundType
  <2>3. RoundBecomes(d, r)
    BY <1>3 DEF RemoveBegins, RoundBecomes, Types
  <2> HIDE DEF r
  <2>4. round' \in [Devices -> RoundType] /\ RoundFits'
    BY <1>3, <2>1, <2>2, <2>3, RoundFitsStays DEF RemoveBegins
  <2> QED BY <1>3, <2>4 DEF RemoveBegins, Types
<1> QED BY <1>1, <1>2, <1>3

LEMMA RemoveFollowsTypes ==
  ASSUME TypeInv, NEW d \in Devices, RemoveFollows(d) PROVE TypeInv'
<1> USE DEF TypeInv, histVars
<1>0. keys[d] \in Groups
  BY SyncAssumption DEF RemoveFollows, Types, RoundFits, Fits, Groups
<1>1. CASE Forget(d)
  BY <1>1, ForgetTypes DEF RemoveFollows, Types
<1>2. CASE /\ keys' = [keys EXCEPT ![d] = groups[keys[d]].moved]
           /\ Closed(d) /\ UNCHANGED <<file, pend, pendFile, round>>
  <2>1. groups[keys[d]].moved \in 0..MaxGroup /\ groups[keys[d]].moved # 0
    BY <1>0, <1>2 DEF Types, GroupType, Closed
  <2>2. keys' \in [Devices -> 0..MaxGroup] /\ RoundFits'
    BY <1>2, <2>1, KeyFits DEF RemoveFollows
  <2> QED BY <1>2, <2>2 DEF RemoveFollows, Types
<1>3. CASE round' = Ended(d) /\ UNCHANGED <<keys, file, pend, pendFile>>
  <2>1. round' \in [Devices -> RoundType] /\ RoundFits'
    BY <1>3, RestFits, RoundFitsStays DEF RoundBecomes
  <2> QED BY <1>3, <2>1 DEF RemoveFollows, Types
<1> QED BY <1>1, <1>2, <1>3 DEF RemoveFollows

LEMMA MakesGroupTypes ==
  ASSUME TypeInv, NEW d \in Devices, RemoveMakesGroup(d) PROVE TypeInv'
<1> USE DEF TypeInv, noteVars, histVars
<1> DEFINE r == round[d]
           old == groups[keys[d]]
           next == made + 1
           fresh1 == [old EXCEPT !.version = 1, !.rows[r.target] = "gone"]
           after == [r EXCEPT !.pc = "close", !.g = keys[d], !.version = old.version,
                              !.rows = old.rows, !.next = next]
<1>1. /\ keys[d] \in Groups /\ keys[d] \in 0..MaxGroup /\ old \in GroupType
      /\ next \in Groups /\ next \in 0..MaxGroup
  BY SyncAssumption DEF RemoveMakesGroup, Types, RoundFits, Fits, Groups
<1>2. r \in RoundType /\ r.pc = "remove"
  BY DEF RemoveMakesGroup, Types
<1>3. fresh1 \in GroupType
  BY <1>1 DEF GroupType, RowsType
<1> HIDE DEF next, old, r
<1>4. groups' = [groups EXCEPT ![next] = fresh1]
  BY DEF RemoveMakesGroup, next, old, r
<1>5. after \in RoundType
  BY <1>1, <1>2 DEF RoundType, RoundPcs, GroupType
<1>6. RoundBecomes(d, after)
  BY <1>2 DEF RemoveMakesGroup, RoundBecomes, Types, RoundType, next, old, r
<1>7. after.pc = "close" /\ after.g = keys[d] /\ keys[d] # 0 /\ keys' = keys
  BY <1>2 DEF RoundType, RemoveMakesGroup, RoundFits, Fits, r
<1> HIDE DEF after, fresh1
<1>8. round' \in [Devices -> RoundType] /\ RoundFits'
  BY <1>5, <1>6, <1>7, RoundFitsStays DEF Fits, AtWork
<1>9. groups' \in [Groups -> GroupType]
  BY <1>3, <1>4 DEF Types
<1> QED BY <1>1, <1>8, <1>9 DEF RemoveMakesGroup, Types, next

LEMMA ClosesTypes ==
  ASSUME TypeInv, NEW d \in Devices, RemoveCloses(d) PROVE TypeInv'
<1> USE DEF TypeInv, histVars
<1> DEFINE r == round[d]
           sealed == {e \in Devices : r.rows[e] = "here"} \ {r.target}
<1>1. r \in RoundType /\ r.pc = "close" /\ r.g = keys[d] /\ keys[d] # 0
  BY DEF RemoveCloses, Types, RoundFits, Fits, AtWork
<1>2. keys[d] \in Groups
  BY <1>1, SyncAssumption DEF Types, Groups
<1>3. groups' \in [Groups -> GroupType]
  <2>1. [groups[r.g] EXCEPT !.version = @ + 1, !.moved = r.next, !.sealed = sealed] \in GroupType
    <3> DEFINE old == groups[r.g]
               v == old.version + 1
    <3>1. /\ old \in GroupType /\ v \in Nat
          /\ r.next \in 0..MaxGroup /\ sealed \in SUBSET Devices
      BY <1>1, <1>2 DEF Types, RoundType, GroupType
    <3> HIDE DEF sealed, old, v
    <3>2. [old EXCEPT !.version = v, !.moved = r.next, !.sealed = sealed] \in GroupType
      BY <3>1 DEF GroupType
    <3> QED BY <3>2 DEF old, v
  <2>2. \/ groups' = groups
        \/ groups' = [groups EXCEPT ![r.g] = [groups[r.g] EXCEPT !.version = @ + 1,
                                                 !.moved = r.next, !.sealed = sealed]]
    BY <1>1, <1>2 DEF RemoveCloses, Types
  <2> QED BY <2>1, <2>2, <1>1, <1>2 DEF Types
<1>4. faults' \in Nat
  BY DEF RemoveCloses, Fault, Types
<1>5. CASE Forget(d)
  BY <1>3, <1>4, <1>5, ForgetTypes DEF RemoveCloses, Types
<1>6. CASE /\ keys' = [keys EXCEPT ![d] = r.next] /\ file' = [file EXCEPT ![d].version = 0]
           /\ round' = Ended(d) /\ UNCHANGED <<pend, pendFile>>
  <2>1. keys' \in [Devices -> 0..MaxGroup]
    BY <1>1, <1>6 DEF Types, RoundType
  <2>2. file' \in [Devices -> FileType]
    <3>1. file[d] \in FileType
      BY DEF Types
    <3>2. [file[d] EXCEPT !.version = 0] \in FileType
      BY <3>1 DEF FileType
    <3> QED BY <1>6, <3>2 DEF Types
  <2>3. \A e \in Devices : e # d => keys'[e] = keys[e]
    BY <1>6 DEF Types
  <2>4. round' \in [Devices -> RoundType] /\ RoundFits'
    BY <1>6, <2>3, RestFits, RoundFitsStays DEF RoundBecomes
  <2> QED BY <1>3, <1>4, <1>6, <2>1, <2>2, <2>4 DEF RemoveCloses, Types
<1>7. CASE /\ UNCHANGED <<keys, file, pend, pendFile>>
           /\ round' = Ended(d) \/ round' = [Again(d) EXCEPT ![d].pc = "remove"]
  <2>1. ASSUME round' = Ended(d) PROVE round' \in [Devices -> RoundType] /\ RoundFits'
    BY <1>7, <2>1, RestFits, RoundFitsStays DEF RoundBecomes
  <2>2. ASSUME round' = [Again(d) EXCEPT ![d].pc = "remove"]
        PROVE  round' \in [Devices -> RoundType] /\ RoundFits'
    <3> DEFINE again == [[NoRound EXCEPT !.target = round[d].target] EXCEPT !.pc = "remove"]
    <3>1. again \in RoundType /\ \A key : key # 0 => Fits(again, key)
      BY AgainFits
    <3>2. RoundBecomes(d, again)
      BY <2>2, AgainFits DEF RoundBecomes
    <3> HIDE DEF again
    <3> QED BY <1>1, <1>7, <3>1, <3>2, RoundFitsStays
  <2>3. round' \in [Devices -> RoundType] /\ RoundFits'
    BY <1>7, <2>1, <2>2
  <2> QED BY <1>3, <1>4, <1>7, <2>3 DEF RemoveCloses, Types
<1> QED BY <1>5, <1>6, <1>7 DEF RemoveCloses, Removed

LEMMA EditTypes ==
  ASSUME TypeInv, NEW d \in Devices, NEW k \in Keys, NEW v \in ValuesOf(k), Edit(d, k, v)
  PROVE  TypeInv'
<1> USE DEF TypeInv, histVars
<1>1. clock' \in Nat
  BY DEF Edit, Types
<1>2. local' \in [Devices -> [Keys -> Hashes]]
  BY ValuesAreHashes DEF Edit, Types
<1>3. \A e \in Devices, j \in Keys : local'[e][j] \in ValuesOf(j)
  BY DEF Edit, Types
<1>4. mine' \in [Devices -> [Keys -> BOOLEAN]]
  BY DEF Edit, Types
<1>5. edit' \in [Devices -> EditType]
  <2>1. edit[d] \in EditType /\ {k} \cap Secrets \in SUBSET Secrets
    BY DEF Types
  <2>2. [edit[d] EXCEPT !.pc = "wrote", !.typed = {k} \cap Secrets] \in EditType
    BY <2>1 DEF EditType
  <2> QED BY <2>2 DEF Edit, Types
<1>6. RoundFits'
  BY DEF Edit, RoundFits
<1> QED BY <1>1, <1>2, <1>3, <1>4, <1>5, <1>6 DEF Edit, Types

LEMMA NotedType ==
  ASSUME TypeInv, NEW e \in EditType, NEW p \in PendingType, NEW k \in Keys
  PROVE  Noted(e, p, k) \in [h: Hashes, t: Nat]
<1>1. Typed \in Hashes /\ "false" \in Hashes
  BY DEF Hashes, OnOff
<1>2. e.at \in Nat /\ e.snap[k] \in Hashes /\ p.changes[k] \in [h: Hashes, t: Nat]
  BY DEF EditType, HashesType, PendingType
<1> QED BY <1>1, <1>2 DEF Noted

LEMMA NotifyTypes ==
  ASSUME TypeInv, NEW d \in Devices, NotifySteps(d) PROVE TypeInv'
<1> USE DEF TypeInv, histVars
<1> DEFINE e == edit[d]
<1>0. e \in EditType /\ pend[d] \in PendingType /\ file[d] \in FileType
  BY DEF Types
<1>1. CASE NotifyReads(d)
  <2> DEFINE snap == IF keys[d] # 0 THEN Snapshot(d, FALSE) ELSE NoHashes
             st == IF keys[d] # 0 THEN file[d] ELSE NewState
             after == [e EXCEPT !.pc = "noting", !.at = clock, !.linked = keys[d] # 0,
                                !.snap = snap, !.st = st]
  <2>1. snap \in HashesType /\ st \in FileType /\ clock \in Nat
    BY <1>0, SnapshotType, NoneTypes DEF Types
  <2>2. edit' = [edit EXCEPT ![d] = IF round[d].pc = "apply" /\ e.typed = {} THEN NoEdit ELSE after]
    BY <1>1 DEF NotifyReads
  <2> HIDE DEF snap, st
  <2>3. after \in EditType
    BY <1>0, <2>1 DEF EditType
  <2> HIDE DEF after
  <2>4. edit' \in [Devices -> EditType]
    BY <2>2, <2>3, NoneTypes DEF Types
  <2> QED BY <1>1, <2>4 DEF NotifyReads, Types, RoundFits
<1>2. CASE NotifyNotes(d)
  <2> DEFINE p == pend[d]
             noted == [at |-> e.at, secrets |-> p.secrets \/ e.typed # {},
                       changes |-> [k \in Keys |-> Noted(e, p, k)]]
  <2>1. [k \in Keys |-> Noted(e, p, k)] \in [Keys -> [h: Hashes, t: Nat]]
    BY <1>0, NotedType
  <2>2. noted \in PendingType
    BY <1>0, <2>1 DEF PendingType, EditType
  <2>3. /\ pend' = [pend EXCEPT ![d] = noted] /\ fresh' = [fresh EXCEPT ![d] = FALSE]
        /\ edit' = [edit EXCEPT ![d] = [NoEdit EXCEPT !.pc = "writing", !.data = noted]]
    BY <1>2 DEF NotifyNotes
  <2> HIDE DEF noted
  <2>4. [NoEdit EXCEPT !.pc = "writing", !.data = noted] \in EditType
    BY <2>2, NoneTypes DEF EditType
  <2>5. /\ pend' \in [Devices -> PendingType] /\ fresh' \in [Devices -> BOOLEAN]
        /\ edit' \in [Devices -> EditType]
    BY <2>2, <2>3, <2>4 DEF Types
  <2> QED BY <1>2, <2>5 DEF NotifyNotes, Types, RoundFits
<1>3. CASE NotifyWrites(d)
  <2>1. edit' \in [Devices -> EditType] /\ pendFile' \in [Devices -> PendingType]
    BY <1>0, <1>3, NoneTypes DEF NotifyWrites, Types, EditType
  <2> QED BY <1>3, <2>1 DEF NotifyWrites, Types, RoundFits
<1> QED BY <1>1, <1>2, <1>3 DEF NotifySteps

LEMMA ExpireTypes ==
  ASSUME TypeInv, NEW g \in Groups, GroupExpires(g) PROVE TypeInv'
<1>1. groups' \in [Groups -> GroupType] /\ faults' \in Nat
  BY NoneTypes DEF GroupExpires, TypeInv, Types, Fault
<1> QED BY <1>1 DEF GroupExpires, TypeInv, Types, RoundFits, noteVars, histVars

LEMMA TypesStep ==
  ASSUME TypeInv, [Next]_vars PROVE TypeInv'
<1>1. CASE UNCHANGED vars
  BY <1>1 DEF vars, noteVars, histVars, TypeInv, Types, RoundFits
<1>2. ASSUME NEW d \in Devices, RoundSteps(d) PROVE TypeInv'
  BY <1>2, ReadTypes, MergeTypes, ApplyTypes, KeepTypes, StoreTypes, SaveTypes, FailTypes,
     RemoveFollowsTypes, MakesGroupTypes, ClosesTypes DEF RoundSteps
<1>3. ASSUME NEW d \in Devices, RoundFails(d) \/ Restarts(d) PROVE TypeInv'
  BY <1>3, FailTypes
<1>4. ASSUME NEW d \in Devices, NotifySteps(d) PROVE TypeInv'
  BY <1>4, NotifyTypes
<1>5. ASSUME NEW d \in Devices,
             CreatesGroup(d) \/ (\E g \in Groups : Joins(d, g))
             \/ (\E x \in Devices : RemoveBegins(d, x))
      PROVE  TypeInv'
  BY <1>5, MembersTypes
<1>6. ASSUME NEW d \in Devices, NEW k \in Keys, NEW v \in ValuesOf(k), Edit(d, k, v) PROVE TypeInv'
  BY <1>6, EditTypes
<1>7. ASSUME NEW g \in Groups, GroupExpires(g) PROVE TypeInv'
  BY <1>7, ExpireTypes
<1> QED BY <1>1, <1>2, <1>3, <1>4, <1>5, <1>6, <1>7 DEF Next

-----------------------------------------------------------------------------
\* Groups.

\* Either devices are removed, or groups are dropped: a device still on its way to a dropped group
\* writes it again, from nothing, without the row of the device that was removed.
NoRevival == ~({"remove", "expire"} \subseteq Events)

NoRemoval ==
    "remove" \notin Events =>
        /\ \A g \in Groups : groups[g].moved = 0
        /\ \A d \in Devices : round[d].target = 0 /\ round[d].pc \notin {"remove", "close"}

Targets == \A d \in Devices : round[d].pc \in {"remove", "close"} => round[d].target # 0

\* A group that was not made yet, or dropped, has nothing.
Empty ==
    /\ \A g \in Groups : groups[g].version = 0 \/ g > made => groups[g] = NoGroup
    /\ \A d \in Devices : keys[d] <= made /\ seen[d][1] <= made

\* The group a removal has made is nobody's until the old one is closed.
MadeBy(d) ==
    LET r == round[d]
        g == r.next
    IN /\ g > r.g /\ g <= made /\ groups[g].moved = 0
       /\ groups[g].rows = [r.rows EXCEPT ![r.target] = "gone"]
       /\ \A e \in Devices : keys[e] # g /\ (round[e].pc = "close" /\ e # d => round[e].next # g)
       /\ \A old \in Groups : groups[old].moved # g
MadeByRemoval == \A d \in Devices : round[d].pc = "close" => MadeBy(d)

MovesUp == \A g \in Groups : groups[g].moved # 0 => groups[g].moved > g /\ groups[g].moved <= made

\* The groups devices are in form a chain, and only its end is open.
Chain(all, end) ==
    /\ end \in all /\ end <= made /\ groups[end].moved = 0
    /\ \A g \in all : g <= end /\ (g # end => groups[g].moved \in all)
    /\ \A d \in Devices : keys[d] \in all \cup {0} /\ seen[d][1] <= end
OneChain ==
    (\A d \in Devices : keys[d] = 0)
    \/ \E all \in SUBSET Groups : \E end \in Groups : Chain(all, end)

SeenBefore == \A d \in Devices : keys[d] # 0 => seen[d][1] <= keys[d]

GroupInv ==
    NoRemoval /\ Targets /\ Empty /\ MadeByRemoval /\ MovesUp /\ OneChain /\ SeenBefore

\* A device that was removed has no key of a group that says so, and the note that closes a group
\* leaves out the device the next group has removed.
NotGone == \A d \in Devices : keys[d] # 0 => groups[keys[d]].rows[d] # "gone"
SealedRows ==
    \A g \in Groups, d \in Devices :
        LET next == groups[g].moved IN
        next # 0 => /\ d \in groups[g].sealed => groups[next].rows[d] # "gone"
                    /\ groups[g].rows[d] = "here" /\ d \notin groups[g].sealed
                          => groups[next].rows[d] = "gone"
RowsInv == NotGone /\ SealedRows

\* A round's copy.  At the version it read, the group is still as it read it; what comes in is
\* the group's.
Copy(d) ==
    LET r == round[d]
        now == groups[r.g]
    IN
    /\ r.version <= now.version /\ (seen[d][1] = r.g => seen[d][2] <= r.version)
    /\ r.pc = "read" /\ r.version = 0 => r.rows[d] # "here"
    /\ r.pc # "close" => r.st = file[d]
    /\ r.pc \notin {"save", "close"} /\ r.version = now.version => r.remote = now.entries
    /\ r.pc \in {"read", "close"} /\ r.version = now.version => r.rows = now.rows
    /\ r.pc \in {"apply", "applied", "store"} /\ r.version = now.version =>
          r.rows = [now.rows EXCEPT ![d] = "here"]
    /\ r.pc \in {"apply", "applied"} =>
          \A k \in r.incoming : r.merged[k] # NoEntry => r.merged[k] = r.remote[k]
    /\ r.pc \in {"apply", "applied"} /\ ~r.write => r.merged = r.remote /\ r.version > 0
    /\ r.pc = "save" => r.version > 0 /\ (r.version = now.version => r.merged = now.entries)
ReadInv == \A d \in Devices : round[d].pc \in AtWork => Copy(d)

\* What a device noted as in step with a version of its group is what the group has at that
\* version.
Dropped(g) ==
    /\ "expire" \in Events /\ groups[g].version = 0
    /\ \A d \in Devices : keys[d] = g => file[d].version > 0 /\ round[d].pc = "idle"
SeenInv ==
    \A d \in Devices :
        LET g == seen[d][1] IN
        g # 0 => seen[d][2] > 0 /\ (seen[d][2] <= groups[g].version \/ Dropped(g))
HashAt(d) ==
    LET g == keys[d] IN
    g # 0 /\ seen[d] = <<g, groups[g].version>> =>
        \A k \in Keys \ kept[d] : file[d].hashes[k] \in {None, groups[g].entries[k].v}
HashInv == \A d \in Devices : HashAt(d)

SyncInv == GroupInv /\ RowsInv /\ ReadInv /\ SeenInv /\ HashInv

\* A step in which no removal makes its group leaves the other rounds alone.
CalmRound(d) ==
    \/ round' = round
    \/ /\ \A e \in Devices \ {d} : round'[e] = round[e]
       /\ round'[d].pc # "close" /\ (round'[d].pc = "remove" => round'[d].target # 0)
       /\ "remove" \notin Events => round'[d].target = 0 /\ round'[d].pc # "remove"

LEMMA CalmTo ==
  ASSUME TypeInv, NEW d \in Devices, NEW r, RoundBecomes(d, r), r.pc # "close",
         r.pc = "remove" => r.target # 0,
         "remove" \notin Events => r.target = 0 /\ r.pc # "remove"
  PROVE  CalmRound(d)
  BY DEF CalmRound, RoundBecomes, TypeInv, Types

LEMMA CalmRest ==
  ASSUME TypeInv, NoRemoval, NEW d \in Devices
  PROVE  /\ round' = Ended(d) => CalmRound(d)
         /\ round' = Again(d) => CalmRound(d)
         /\ round' = [Again(d) EXCEPT ![d].pc = "remove"] /\ round[d].target # 0 => CalmRound(d)
<1> DEFINE again == [NoRound EXCEPT !.target = round[d].target]
<1>1. NoRound.pc = "idle" /\ NoRound.target = 0
  BY DEF NoRound
<1>2. ASSUME round' = Ended(d) PROVE CalmRound(d)
  BY <1>1, <1>2, RestFits, CalmTo DEF RoundBecomes
<1>3. /\ again \in RoundType /\ Again(d) = [round EXCEPT ![d] = again]
      /\ [Again(d) EXCEPT ![d].pc = "remove"] = [round EXCEPT ![d] = [again EXCEPT !.pc = "remove"]]
  BY AgainFits
<1>4. again.pc = "idle" /\ again.target = round[d].target
  BY <1>1, NoneTypes DEF RoundType
<1>5. [again EXCEPT !.pc = "remove"].pc = "remove"
    /\ [again EXCEPT !.pc = "remove"].target = again.target
  BY <1>3 DEF RoundType
<1> HIDE DEF again
<1>6. ASSUME round' = Again(d) PROVE CalmRound(d)
  BY <1>3, <1>4, <1>6, CalmTo DEF RoundBecomes, NoRemoval
<1>7. ASSUME round' = [Again(d) EXCEPT ![d].pc = "remove"], round[d].target # 0 PROVE CalmRound(d)
  BY <1>3, <1>4, <1>5, <1>7, CalmTo DEF RoundBecomes, NoRemoval
<1> QED BY <1>2, <1>6, <1>7

LEMMA CalmWork ==
  ASSUME TypeInv, NoRemoval, NEW d \in Devices,
         RoundReads(d) \/ RoundMerges(d) \/ RoundApplies(d) \/ RoundKeeps(d)
  PROVE  CalmRound(d)
<1> DEFINE r == round[d]
<1>1. r \in RoundType /\ (r.write \in BOOLEAN) /\ round \in [Devices -> RoundType]
  BY DEF TypeInv, Types, RoundType
<1>2. /\ \A e \in Devices \ {d} : round'[e] = round[e]
      /\ round'[d].target = r.target
      /\ round'[d].pc \in {"read", "apply", "store", "save", "applied"}
  <2>1. CASE RoundReads(d)
    BY <1>1, <2>1 DEF RoundReads, RoundType
  <2>2. CASE RoundMerges(d)
    BY <1>1, <2>2 DEF RoundMerges, AfterApply, RoundType
  <2>3. CASE RoundApplies(d)
    <3>1. \E failed : round' = [round EXCEPT ![d].pc = "applied", ![d].failed = failed,
                                              ![d].busy = Busy(d, r)]
      BY <2>3 DEF RoundApplies
    <3> QED BY <1>1, <3>1 DEF RoundType
  <2>4. CASE RoundKeeps(d)
    <3>1. AfterApply(r) \in {"store", "save"}
      BY DEF AfterApply
    <3> QED BY <1>1, <2>4, <3>1 DEF RoundKeeps, RoundType
  <2> QED BY <2>1, <2>2, <2>3, <2>4
<1> QED BY <1>2 DEF CalmRound, NoRemoval

LEMMA CalmAll ==
  ASSUME TypeInv, NoRemoval, Targets, NEW d \in Devices,
         \/ RoundSteps(d) /\ ~RemoveMakesGroup(d)
         \/ RoundFails(d) \/ NotifySteps(d) \/ Restarts(d) \/ CreatesGroup(d)
         \/ \E g \in Groups : Joins(d, g)
         \/ \E k \in Keys : \E v \in ValuesOf(k) : Edit(d, k, v)
         \/ \E x \in Devices : RemoveBegins(d, x)
  PROVE  CalmRound(d)
<1>1. CASE RoundReads(d) \/ RoundMerges(d) \/ RoundApplies(d) \/ RoundKeeps(d)
  BY <1>1, CalmWork
<1>2. CASE Follows(d) \/ GroupGone(d) \/ RemoveFollows(d) \/ RemoveGivesUp(d) \/ RoundFails(d)
           \/ Restarts(d)
  BY <1>2, CalmRest
     DEF Follows, GroupGone, RemoveFollows, RemoveGivesUp, RoundFails, Restarts, Forget, CalmRound
<1>3. CASE RoundStores(d)
  <2>1. CASE round' = [round EXCEPT ![d].pc = "save", ![d].version = round[d].version + 1]
    BY <1>3, <2>1 DEF CalmRound, TypeInv, Types, RoundType, NoRemoval
  <2> QED BY <1>3, <2>1, CalmRest DEF RoundStores
<1>4. CASE RoundSaves(d)
  BY <1>4, CalmRest DEF RoundSaves
<1>5. CASE RemoveCloses(d)
  BY <1>5, CalmRest DEF RemoveCloses, Removed, Forget, Targets
<1>6. ASSUME NEW x \in Devices, RemoveBegins(d, x) PROVE CalmRound(d)
  <2> DEFINE r == [NoRound EXCEPT !.target = x]
  <2>1. r.pc = "idle" /\ "remove" \in Events
    BY <1>6, NoneTypes DEF RemoveBegins, RoundType, NoRound
  <2>2. RoundBecomes(d, r)
    BY <1>6 DEF RemoveBegins, RoundBecomes, TypeInv, Types
  <2> HIDE DEF r
  <2> QED BY <2>1, <2>2, CalmTo
<1>7. CASE \/ NotifySteps(d) \/ CreatesGroup(d) \/ (\E g \in Groups : Joins(d, g))
           \/ (\E k \in Keys : \E v \in ValuesOf(k) : Edit(d, k, v))
  BY <1>7 DEF NotifySteps, NotifyReads, NotifyNotes, NotifyWrites, CreatesGroup, Joins, Edit,
              CalmRound
<1> QED BY <1>1, <1>2, <1>3, <1>4, <1>5, <1>6, <1>7 DEF RoundSteps

\* What a step does to the groups and to the keys of the devices.
Others(g) == \A h \in Groups \ {g} : groups'[h] = groups[h]
Same == UNCHANGED <<made, groups, keys, seen>>
StoredBy(d) ==
    LET r == round[d]
        g == r.g
    IN /\ r.pc = "store" /\ g \in Groups /\ keys[d] = g /\ Current(r) /\ Others(g)
       /\ groups'[g].version = r.version + 1 /\ groups'[g].entries = r.merged
       /\ groups'[g].rows = r.rows /\ groups'[g].moved = 0
       /\ UNCHANGED <<made, keys, seen>>
SavedBy(d) ==
    /\ round[d].pc = "save" /\ keys[d] \in Groups
    /\ seen' = [seen EXCEPT ![d] = <<keys[d], round[d].version>>]
    /\ UNCHANGED <<made, groups, keys>>
FollowedBy(d) ==
    /\ keys[d] \in Groups /\ Closed(d) /\ d \in groups[keys[d]].sealed
    /\ keys' = [keys EXCEPT ![d] = groups[keys[d]].moved]
    /\ UNCHANGED <<made, groups, seen, file>>
LeftBy(d) ==
    /\ keys[d] \in Groups /\ keys' = [keys EXCEPT ![d] = 0]
    /\ groups[keys[d]].version = 0 \/ (Closed(d) /\ d \notin groups[keys[d]].sealed)
    /\ UNCHANGED <<made, groups, seen>>
ClosedBy(d) ==
    LET r == round[d]
        g == r.g
    IN /\ r.pc = "close" /\ g \in Groups /\ keys[d] = g /\ Current(r) /\ Others(g)
       /\ groups'[g].version = r.version + 1 /\ groups'[g].moved = r.next
       /\ groups'[g].rows = groups[g].rows
       /\ groups'[g].sealed = {e \in Devices : r.rows[e] = "here"} \ {r.target}
       /\ \/ keys' = keys
          \/ r.target = d /\ keys' = [keys EXCEPT ![d] = 0]
          \/ r.target # d /\ keys' = [keys EXCEPT ![d] = r.next]
       /\ UNCHANGED <<made, seen>> /\ round' = Ended(d)
MadeGroup(d) ==
    LET r == round[d]
        g == keys[d]
        next == made + 1
    IN /\ r.pc = "remove" /\ g \in Groups /\ next \in Groups /\ groups[g].moved = 0
       /\ made' = next /\ Others(next)
       /\ groups'[next].moved = 0 /\ groups'[next].version = 1
       /\ groups'[next].rows = [groups[g].rows EXCEPT ![r.target] = "gone"]
       /\ \A e \in Devices \ {d} : round'[e] = round[e]
       /\ round'[d].pc = "close" /\ round'[d].g = g /\ round'[d].next = next
       /\ round'[d].target = r.target /\ round'[d].rows = groups[g].rows
       /\ round'[d].version = groups[g].version
       /\ UNCHANGED <<keys, seen, file>>

LEMMA StoredEffect ==
  ASSUME TypeInv, NEW d \in Devices, RoundStores(d)
  PROVE  \/ Same /\ (round' = Ended(d) \/ round' = Again(d))
         \/ /\ StoredBy(d)
            /\ \/ round' = [round EXCEPT ![d].pc = "save", ![d].version = round[d].version + 1]
               \/ round' = Ended(d)
<1> DEFINE r == round[d]
           old == groups[r.g]
<1>1. r.pc = "store" /\ r.g = keys[d] /\ r.g \in Groups /\ old \in GroupType
  BY SyncAssumption DEF RoundStores, TypeInv, Types, RoundFits, Fits, AtWork, Groups
<1>2. CASE ~Current(r)
  BY <1>2 DEF RoundStores, Same, histVars
<1>3. CASE Current(r)
  <2>1. groups' = [groups EXCEPT ![r.g] = [old EXCEPT !.version = @ + 1, !.entries = r.merged,
                                                     !.rows = r.rows]]
    BY <1>1, <1>3 DEF RoundStores, TypeInv, Types
  <2>2. Others(r.g) /\ groups'[r.g] = [old EXCEPT !.version = @ + 1, !.entries = r.merged,
                                                 !.rows = r.rows]
    BY <1>1, <2>1 DEF Others, TypeInv, Types
  <2>3. /\ groups'[r.g].version = r.version + 1 /\ groups'[r.g].entries = r.merged
        /\ groups'[r.g].rows = r.rows /\ groups'[r.g].moved = 0
    BY <1>1, <1>3, <2>2 DEF GroupType, Current
  <2> QED BY <1>1, <1>3, <2>2, <2>3 DEF RoundStores, StoredBy, histVars
<1> QED BY <1>2, <1>3

LEMMA SavedEffect ==
  ASSUME TypeInv, NEW d \in Devices, RoundSaves(d) PROVE SavedBy(d)
<1>1. keys[d] \in Groups /\ round[d].g = keys[d]
  BY SyncAssumption DEF RoundSaves, TypeInv, Types, RoundFits, Fits, AtWork, Groups
<1> QED BY <1>1 DEF RoundSaves, SavedBy

LEMMA MovedEffect ==
  ASSUME TypeInv, NEW d \in Devices, Follows(d) \/ GroupGone(d) \/ RemoveFollows(d)
  PROVE  FollowedBy(d) \/ (LeftBy(d) /\ Forget(d)) \/ (Same /\ UNCHANGED file)
<1>1. keys[d] \in Groups
  BY SyncAssumption
     DEF Follows, GroupGone, RemoveFollows, TypeInv, Types, RoundFits, Fits, AtWork, Groups
<1> QED
  BY <1>1 DEF Follows, GroupGone, RemoveFollows, FollowedBy, LeftBy, Same, Forget, Gone, histVars

LEMMA ClosedEffect ==
  ASSUME TypeInv, NEW d \in Devices, RemoveCloses(d) PROVE Same \/ ClosedBy(d)
<1> DEFINE r == round[d]
           old == groups[r.g]
           sealed == {e \in Devices : r.rows[e] = "here"} \ {r.target}
<1>1. r.pc = "close" /\ r.g = keys[d] /\ r.g \in Groups /\ old \in GroupType
  BY SyncAssumption DEF RemoveCloses, TypeInv, Types, RoundFits, Fits, AtWork, Groups
<1>2. CASE ~Current(r)
  BY <1>2 DEF RemoveCloses, Same, histVars
<1>3. CASE Current(r)
  <2>1. groups' = [groups EXCEPT ![r.g] = [old EXCEPT !.version = @ + 1, !.moved = r.next,
                                                     !.sealed = sealed]]
    BY <1>1, <1>3 DEF RemoveCloses, TypeInv, Types
  <2> HIDE DEF sealed
  <2>2. Others(r.g) /\ groups'[r.g] = [old EXCEPT !.version = @ + 1, !.moved = r.next,
                                                 !.sealed = sealed]
    BY <1>1, <2>1 DEF Others, TypeInv, Types
  <2>3. /\ groups'[r.g].version = r.version + 1 /\ groups'[r.g].moved = r.next
        /\ groups'[r.g].rows = groups[r.g].rows /\ groups'[r.g].sealed = sealed
    BY <1>1, <1>3, <2>2 DEF GroupType, Current
  <2>4. /\ \/ keys' = keys
           \/ r.target = d /\ keys' = [keys EXCEPT ![d] = 0]
           \/ r.target # d /\ keys' = [keys EXCEPT ![d] = r.next]
        /\ UNCHANGED <<made, seen>> /\ round' = Ended(d)
    BY <1>3 DEF RemoveCloses, Removed, Forget, histVars
  <2> QED BY <1>1, <1>3, <2>2, <2>3, <2>4 DEF ClosedBy, sealed
<1> QED BY <1>2, <1>3

LEMMA MadeEffect ==
  ASSUME TypeInv, NEW d \in Devices, RemoveMakesGroup(d) PROVE MadeGroup(d)
<1> DEFINE r == round[d]
           old == groups[keys[d]]
           next == made + 1
<1>1. keys[d] \in Groups /\ next \in Groups /\ old \in GroupType /\ r \in RoundType
  BY SyncAssumption DEF RemoveMakesGroup, TypeInv, Types, RoundFits, Fits, Groups
<1>2. /\ r.pc = "remove" /\ old.moved = 0 /\ made' = next
      /\ groups' = [groups EXCEPT ![next] = [old EXCEPT !.version = 1, !.rows[r.target] = "gone"]]
      /\ round' = [round EXCEPT ![d].pc = "close", ![d].g = keys[d], ![d].version = old.version,
                                ![d].rows = old.rows, ![d].next = next]
      /\ UNCHANGED <<keys, seen, file>>
  BY DEF RemoveMakesGroup, Closed, histVars
<1> HIDE DEF next
<1>3. Others(next) /\ groups'[next] = [old EXCEPT !.version = 1, !.rows[r.target] = "gone"]
  BY <1>1, <1>2 DEF Others, TypeInv, Types
<1>4. /\ groups'[next].moved = 0 /\ groups'[next].version = 1
      /\ groups'[next].rows = [old.rows EXCEPT ![r.target] = "gone"]
  <2> DEFINE x == r.target
  <2> HIDE DEF old, r, x
  <2>1. /\ [old EXCEPT !.version = 1, !.rows[x] = "gone"].moved = old.moved
        /\ [old EXCEPT !.version = 1, !.rows[x] = "gone"].version = 1
        /\ [old EXCEPT !.version = 1, !.rows[x] = "gone"].rows = [old.rows EXCEPT ![x] = "gone"]
    BY <1>1 DEF GroupType
  <2> QED BY <1>2, <1>3, <2>1 DEF x
<1>5. /\ \A e \in Devices \ {d} : round'[e] = round[e]
      /\ round'[d] = [r EXCEPT !.pc = "close", !.g = keys[d], !.version = old.version,
                               !.rows = old.rows, !.next = next]
  BY <1>2 DEF TypeInv, Types
<1>6. /\ round'[d].pc = "close" /\ round'[d].g = keys[d] /\ round'[d].next = next
      /\ round'[d].target = r.target /\ round'[d].rows = old.rows
      /\ round'[d].version = old.version
  BY <1>1, <1>5 DEF RoundType
<1> QED BY <1>1, <1>2, <1>3, <1>4, <1>5, <1>6 DEF MadeGroup, next

LEMMA TypeFacts ==
  ASSUME TypeInv
  PROVE  /\ made \in Nat /\ MaxGroup \in Nat /\ Groups \subseteq Nat /\ 0 \notin Groups
         /\ \A n \in Nat : n # 0 /\ n <= MaxGroup => n \in Groups
         /\ made <= MaxGroup /\ \A g \in Groups : g <= MaxGroup
         /\ keys \in [Devices -> 0..MaxGroup] /\ seen \in [Devices -> (0..MaxGroup) \X Nat]
         /\ \A d \in Devices : /\ keys[d] \in Nat /\ (keys[d] # 0 => keys[d] \in Groups)
                               /\ seen[d][1] \in Nat /\ seen[d][2] \in Nat
                               /\ seen[d][1] <= MaxGroup
         /\ \A d \in Devices : round[d].next \in Nat
                               /\ round[d].next <= MaxGroup /\ round[d].g \in Nat
         /\ \A g \in Groups : groups[g].moved \in Nat /\ groups[g].moved <= MaxGroup
         /\ \A g \in Groups : groups[g].version \in Nat
<1>1. \A d \in Devices : round[d] \in RoundType
  BY DEF TypeInv, Types
<1>2. \A d \in Devices : round[d].next \in 0..MaxGroup /\ round[d].g \in 0..MaxGroup
  BY <1>1 DEF RoundType
<1>3. \A g \in Groups : groups[g].moved \in 0..MaxGroup /\ groups[g].version \in Nat
  BY DEF TypeInv, Types, GroupType
<1>4. MaxGroup \in Nat /\ made \in 0..MaxGroup
  BY SyncAssumption DEF TypeInv, Types
<1>5. \A d \in Devices : keys[d] \in 0..MaxGroup /\ seen[d][1] \in 0..MaxGroup /\ seen[d][2] \in Nat
  BY DEF TypeInv, Types
<1>6. keys \in [Devices -> 0..MaxGroup] /\ seen \in [Devices -> (0..MaxGroup) \X Nat]
  BY DEF TypeInv, Types
<1> QED BY <1>2, <1>3, <1>4, <1>5, <1>6 DEF Groups

LEMMA MakingStays ==
  ASSUME TypeInv, MadeByRemoval, NEW d \in Devices, CalmRound(d), made' \in Nat, made <= made',
         \A e \in Devices : round[e].pc = "close" /\ round'[e] = round[e] =>
            LET x == round[e].next
            IN /\ groups'[x].moved = 0 /\ groups'[x].rows = groups[x].rows
               /\ \A f \in Devices : keys'[f] # x
               /\ \A old \in Groups : groups'[old].moved # x
  PROVE  MadeByRemoval'
<1> SUFFICES ASSUME NEW e \in Devices, round'[e].pc = "close" PROVE MadeBy(e)'
  BY DEF MadeByRemoval
<1>1. \A f \in Devices : round'[f].pc = "close" => round'[f] = round[f]
  BY DEF CalmRound
<1>2. MadeBy(e) /\ round[e].pc = "close" /\ round'[e] = round[e]
  BY <1>1 DEF MadeByRemoval
<1>3. round[e].next \in Nat /\ made \in Nat
  BY TypeFacts
<1> QED BY <1>1, <1>2, <1>3 DEF MadeBy

\* A removal goes on in a group that devices are in.
LEMMA MakingApart ==
  ASSUME TypeInv, MadeByRemoval, NEW e \in Devices, round[e].pc = "close"
  PROVE  /\ MadeBy(e) /\ round[e].next \in Groups /\ keys[e] = round[e].g /\ keys[e] \in Groups
         /\ \A f \in Devices : keys[f] # round[e].next
<1>1. MadeBy(e)
  BY DEF MadeByRemoval
<1>2. keys[e] = round[e].g /\ keys[e] # 0
  BY DEF TypeInv, RoundFits, Fits, AtWork
<1>3. round[e].next \in Groups
  BY <1>1, TypeFacts DEF MadeBy
<1>4. \A f \in Devices : keys[f] # round[e].next
  BY <1>1 DEF MadeBy
<1> QED BY <1>1, <1>2, <1>3, <1>4, TypeFacts

LEMMA RemovalStays ==
  ASSUME TypeInv, NoRemoval, Targets, NEW d \in Devices, CalmRound(d),
         "remove" \notin Events => \A g \in Groups : groups'[g].moved = 0
  PROVE  NoRemoval' /\ Targets'
  BY DEF NoRemoval, Targets, CalmRound

LEMMA ChainStays ==
  ASSUME TypeInv, OneChain, made' \in Nat, made <= made',
         \A g \in Groups : groups'[g].moved = groups[g].moved,
         \A d \in Devices : /\ keys'[d] \in {keys[d], 0} \/ (keys[d] \in Groups /\ Closed(d)
                                                            /\ keys'[d] = groups[keys[d]].moved)
                            /\ seen'[d][1] \in {seen[d][1], keys[d]}
  PROVE  OneChain'
<1>1. CASE \A d \in Devices : keys[d] = 0
  BY <1>1, TypeFacts DEF OneChain
<1>2. CASE \E d \in Devices : keys[d] # 0
  <2>1. PICK all \in SUBSET Groups, end \in Groups : Chain(all, end)
    BY <1>2 DEF OneChain
  <2>2. end <= made'
    BY <2>1, TypeFacts DEF Chain
  <2>3. end \in all /\ groups'[end].moved = 0
    BY <2>1 DEF Chain
  <2>4. \A g \in all : g <= end /\ (g # end => groups'[g].moved \in all)
    BY <2>1 DEF Chain
  <2>5. ASSUME NEW d \in Devices PROVE keys'[d] \in all \cup {0} /\ seen'[d][1] <= end
    <3>1. keys[d] \in all \cup {0} /\ seen[d][1] <= end
      BY <2>1 DEF Chain
    <3>2. keys[d] <= end
      BY <2>4, <3>1, TypeFacts
    <3>3. CASE keys[d] \in Groups /\ Closed(d) /\ keys'[d] = groups[keys[d]].moved
      <4>1. keys[d] # end
        BY <2>1, <3>3 DEF Chain, Closed
      <4>2. keys[d] \in all
        BY <3>1, <3>3, TypeFacts
      <4> QED BY <2>1, <3>1, <3>2, <3>3, <4>1, <4>2 DEF Chain
    <3> QED BY <3>1, <3>2, <3>3
  <2>6. Chain(all, end)'
    BY <2>2, <2>3, <2>4, <2>5 DEF Chain
  <2> QED BY <2>6 DEF OneChain
<1> QED BY <1>1, <1>2

LEMMA GroupSame ==
  ASSUME TypeInv, GroupInv, NEW d \in Devices, CalmRound(d), Same PROVE GroupInv'
<1> USE DEF GroupInv, Same
<1>1. NoRemoval' /\ Targets'
  BY RemovalStays DEF NoRemoval
<1>2. MadeByRemoval'
  <2>1. made' \in Nat /\ made <= made'
    BY TypeFacts
  <2> QED BY <2>1, MakingStays DEF MadeByRemoval, MadeBy
<1>3. OneChain'
  BY DEF OneChain, Chain
<1> QED BY <1>1, <1>2, <1>3 DEF Empty, MovesUp, SeenBefore

LEMMA GroupSaved ==
  ASSUME TypeInv, GroupInv, NEW d \in Devices, CalmRound(d), SavedBy(d) PROVE GroupInv'
<1> USE DEF GroupInv, SavedBy
<1>1. NoRemoval' /\ Targets'
  BY RemovalStays DEF NoRemoval
<1>0. /\ made' \in Nat /\ made <= made'
      /\ \A e \in Devices : seen'[e][1] = IF e = d THEN keys[d] ELSE seen[e][1]
  BY TypeFacts
<1>2. MadeByRemoval'
  BY <1>0, MakingStays DEF MadeByRemoval, MadeBy
<1>3. OneChain'
  BY <1>0, ChainStays
<1>4. Empty' /\ SeenBefore' /\ MovesUp'
  BY <1>0, TypeFacts DEF Empty, SeenBefore, MovesUp
<1> QED BY <1>1, <1>2, <1>3, <1>4

LEMMA GroupFollowed ==
  ASSUME TypeInv, GroupInv, NEW d \in Devices, CalmRound(d), FollowedBy(d) \/ LeftBy(d)
  PROVE  GroupInv'
<1> USE DEF GroupInv
<1> DEFINE g == keys[d]
<1>1. UNCHANGED <<made, groups, seen>> /\ g \in Groups
  BY DEF FollowedBy, LeftBy
<1>2. /\ \A e \in Devices : e # d => keys'[e] = keys[e]
      /\ keys'[d] = 0 \/ (Closed(d) /\ keys'[d] = groups[g].moved)
  BY TypeFacts DEF FollowedBy, LeftBy
<1>3. NoRemoval' /\ Targets'
  BY <1>1, RemovalStays DEF NoRemoval
<1>4. made' \in Nat /\ made <= made'
  BY <1>1, TypeFacts
<1>5. MadeByRemoval'
  <2>1. ASSUME NEW e \in Devices, round[e].pc = "close", NEW f \in Devices
        PROVE  keys'[f] # round[e].next
    <3>1. MadeBy(e) /\ round[e].next \in Groups /\ keys[f] # round[e].next
      BY <2>1, MakingApart
    <3>2. groups[g].moved # round[e].next /\ round[e].next # 0
      BY <1>1, <3>1, TypeFacts DEF MadeBy
    <3> QED BY <1>2, <3>1, <3>2
  <2> QED BY <1>1, <1>4, <2>1, MakingStays, MakingApart DEF MadeBy
<1>6. OneChain'
  BY <1>1, <1>2, <1>4, ChainStays
<1>7. Empty' /\ SeenBefore' /\ MovesUp'
  BY <1>1, <1>2, TypeFacts DEF Empty, SeenBefore, MovesUp, Closed
<1> QED BY <1>3, <1>5, <1>6, <1>7

LEMMA GroupStored ==
  ASSUME TypeInv, GroupInv, NEW d \in Devices, CalmRound(d), StoredBy(d) PROVE GroupInv'
<1> USE DEF GroupInv
<1> DEFINE g == round[d].g
<1>1. /\ UNCHANGED <<made, keys, seen>> /\ g \in Groups /\ keys[d] = g
      /\ groups[g].moved = 0 /\ groups'[g].moved = 0
      /\ groups'[g].version = groups[g].version + 1 /\ Others(g)
  BY DEF StoredBy, Current
<1> HIDE DEF g
<1>2. \A h \in Groups : groups'[h].moved = groups[h].moved
  BY <1>1 DEF Others
<1>3. NoRemoval' /\ Targets'
  BY <1>2, RemovalStays DEF NoRemoval
<1>4. made' \in Nat /\ made <= made'
  BY <1>1, TypeFacts
<1>5. MadeByRemoval'
  <2>1. ASSUME NEW e \in Devices, round[e].pc = "close"
        PROVE  LET x == round[e].next
               IN /\ groups'[x] = groups[x] /\ groups[x].moved = 0
                  /\ \A f \in Devices : keys'[f] # x
                  /\ \A old \in Groups : groups'[old].moved # x
    <3>1. MadeBy(e) /\ round[e].next \in Groups /\ \A f \in Devices : keys[f] # round[e].next
      BY <2>1, MakingApart
    <3>2. groups'[round[e].next] = groups[round[e].next]
      BY <1>1, <3>1 DEF Others
    <3> QED BY <1>1, <1>2, <3>1, <3>2 DEF MadeBy
  <2> QED BY <1>4, <2>1, MakingStays
<1>6. OneChain'
  BY <1>1, <1>2, <1>4, ChainStays
<1>7. Empty'
  BY <1>1, TypeFacts DEF Empty, Others
<1>8. SeenBefore' /\ MovesUp'
  BY <1>1, <1>2 DEF SeenBefore, MovesUp
<1> QED BY <1>3, <1>5, <1>6, <1>7, <1>8

LEMMA GroupCreated ==
  ASSUME TypeInv, GroupInv, NEW d \in Devices, CalmRound(d), CreatesGroup(d) PROVE GroupInv'
<1> USE DEF GroupInv
<1>0. PICK n \in Groups : n = made + 1
  BY DEF CreatesGroup
<1>1. /\ \A e \in Devices : keys[e] = 0
      /\ made' = n /\ keys' = [keys EXCEPT ![d] = n]
      /\ UNCHANGED <<groups, seen, round>>
  BY <1>0 DEF CreatesGroup, histVars
<1>2. keys'[d] = n /\ \A e \in Devices : keys'[e] \in {0, n}
  BY <1>1, TypeFacts
<1>3. NoRemoval' /\ Targets'
  BY <1>1 DEF NoRemoval, Targets
<1>4. MadeByRemoval'
  BY <1>1, MakingApart, TypeFacts DEF MadeByRemoval
<1>5. groups[n].moved = 0
  BY <1>0, TypeFacts DEF Empty, NoGroup
<1>6. \A e \in Devices : seen[e][1] <= made
  BY DEF Empty
<1>7. Chain({n}, n)'
  BY <1>0, <1>1, <1>2, <1>5, <1>6, TypeFacts DEF Chain
<1>8. OneChain'
  BY <1>7 DEF OneChain
<1>9. Empty' /\ SeenBefore' /\ MovesUp'
  BY <1>0, <1>1, <1>2, <1>6, TypeFacts DEF Empty, SeenBefore, MovesUp
<1> QED BY <1>3, <1>4, <1>8, <1>9

\* An open group that a device is in is the end of the chain.
LEMMA OpenIsEnd ==
  ASSUME TypeInv, NEW e \in Devices, keys[e] # 0, groups[keys[e]].moved = 0,
         NEW all \in SUBSET Groups, NEW end, Chain(all, end)
  PROVE  keys[e] = end
  BY TypeFacts DEF Chain

LEMMA GroupJoined ==
  ASSUME TypeInv, GroupInv, NEW d \in Devices, CalmRound(d), NEW g \in Groups, Joins(d, g)
  PROVE  GroupInv'
<1> USE DEF GroupInv
<1>1. /\ keys[d] = 0 /\ groups[g].moved = 0 /\ keys' = [keys EXCEPT ![d] = g]
      /\ UNCHANGED <<made, groups, seen, round>>
  BY DEF Joins, histVars
<1>2. PICK e \in Devices : keys[e] = g
  BY DEF Joins
<1>3. g # 0 /\ keys'[d] = g /\ \A f \in Devices : f # d => keys'[f] = keys[f]
  BY <1>1, TypeFacts
<1>4. PICK all \in SUBSET Groups, end \in Groups : Chain(all, end)
  BY <1>2, <1>3 DEF OneChain
<1>5. g = end
  BY <1>1, <1>2, <1>3, <1>4, OpenIsEnd
<1>6. Chain(all, end)'
  BY <1>1, <1>3, <1>4, <1>5 DEF Chain
<1>7. MadeByRemoval'
  <2>1. ASSUME NEW f \in Devices, round[f].pc = "close" PROVE round[f].next # g
    BY <1>2, <2>1, MakingApart
  <2> QED BY <1>1, <1>3, <2>1 DEF MadeByRemoval, MadeBy
<1>8. Empty' /\ SeenBefore' /\ MovesUp'
  BY <1>1, <1>2, <1>3, <1>4, <1>5 DEF Empty, SeenBefore, MovesUp, Chain
<1>9. NoRemoval' /\ Targets'
  BY <1>1 DEF NoRemoval, Targets
<1> QED BY <1>6, <1>7, <1>8, <1>9 DEF OneChain

LEMMA GroupMade ==
  ASSUME TypeInv, GroupInv, NEW d \in Devices, MadeGroup(d) PROVE GroupInv'
<1> USE DEF GroupInv
<1> DEFINE r == round[d]
           g == keys[d]
           next == made + 1
<1>1. /\ r.pc = "remove" /\ g \in Groups /\ next \in Groups /\ groups[g].moved = 0
      /\ made' = next /\ Others(next) /\ groups'[next].moved = 0 /\ groups'[next].version = 1
      /\ groups'[next].rows = [groups[g].rows EXCEPT ![r.target] = "gone"]
      /\ \A e \in Devices \ {d} : round'[e] = round[e]
      /\ round'[d].pc = "close" /\ round'[d].g = g /\ round'[d].next = next
      /\ round'[d].target = r.target /\ round'[d].rows = groups[g].rows
      /\ UNCHANGED <<keys, seen>>
  BY DEF MadeGroup
<1>2. g <= made /\ made \in Nat /\ next > made /\ next \in Nat
  BY TypeFacts DEF Empty
<1> HIDE DEF next
<1>3. groups[next].moved = 0
  BY <1>1, <1>2 DEF Empty, NoGroup
<1>4. \A h \in Groups : groups'[h].moved = groups[h].moved
  BY <1>1, <1>3 DEF Others
<1>5. r.target # 0 /\ "remove" \in Events
  BY <1>1 DEF Targets, NoRemoval
<1>6. NoRemoval' /\ Targets'
  BY <1>1, <1>5 DEF NoRemoval, Targets
<1>7. OneChain'
  BY <1>1, <1>2, <1>4, ChainStays
<1>8. \A h \in Groups : groups[h].moved # next
  BY <1>2, TypeFacts, <1>1 DEF MovesUp
<1>9. \A e \in Devices : keys[e] # next /\ (round[e].pc = "close" => round[e].next # next)
  <2>1. ASSUME NEW e \in Devices PROVE keys[e] # next
    <3>1. keys[e] <= made /\ keys[e] \in Nat
      BY TypeFacts DEF Empty
    <3> QED BY <1>2, <3>1
  <2>2. ASSUME NEW e \in Devices, round[e].pc = "close" PROVE round[e].next # next
    <3>1. round[e].next <= made /\ round[e].next \in Nat
      BY <2>2, MakingApart, TypeFacts DEF MadeBy
    <3> QED BY <1>2, <3>1
  <2> QED BY <2>1, <2>2
<1>10. MadeBy(d)'
  BY <1>1, <1>2, <1>4, <1>8, <1>9, TypeFacts DEF MadeBy
<1>11. ASSUME NEW e \in Devices, e # d, round[e].pc = "close" PROVE MadeBy(e)'
  <2>1. MadeBy(e) /\ round[e].next \in Groups /\ round'[e] = round[e] /\ round[e].next # next
    BY <1>1, <1>9, <1>11, MakingApart
  <2>2. groups'[round[e].next] = groups[round[e].next]
    BY <1>1, <2>1 DEF Others
  <2> QED BY <1>1, <1>2, <1>4, <2>1, <2>2, TypeFacts DEF MadeBy
<1>12. MadeByRemoval'
  BY <1>1, <1>10, <1>11 DEF MadeByRemoval
<1>13. Empty' /\ SeenBefore'
  BY <1>1, <1>2, TypeFacts DEF Empty, SeenBefore, Others
<1>14. MovesUp'
  <2> SUFFICES ASSUME NEW h \in Groups, groups'[h].moved # 0
               PROVE  groups'[h].moved > h /\ groups'[h].moved <= made'
    BY DEF MovesUp
  <2>1. groups[h].moved > h /\ groups[h].moved <= made /\ groups[h].moved \in Nat
    BY <1>4, TypeFacts DEF MovesUp
  <2> QED BY <1>1, <1>2, <1>4, <2>1
<1> QED BY <1>6, <1>7, <1>12, <1>13, <1>14

LEMMA GroupClosed ==
  ASSUME TypeInv, GroupInv, NEW d \in Devices, CalmRound(d), ClosedBy(d) PROVE GroupInv'
<1> USE DEF GroupInv
<1> DEFINE r == round[d]
           g == r.g
           next == r.next
<1>1. /\ r.pc = "close" /\ g \in Groups /\ keys[d] = g /\ groups[g].moved = 0 /\ Others(g)
      /\ groups'[g].version = groups[g].version + 1 /\ groups'[g].moved = next
      /\ groups'[g].rows = groups[g].rows /\ UNCHANGED <<made, seen>>
      /\ keys' = keys \/ keys' = [keys EXCEPT ![d] = 0] \/ keys' = [keys EXCEPT ![d] = next]
  BY DEF ClosedBy, Current
<1>2. MadeBy(d) /\ next \in Groups /\ \A f \in Devices : keys[f] # next
  BY <1>1, MakingApart
<1>3. next > g /\ next <= made /\ groups[next].moved = 0 /\ groups'[next] = groups[next] /\ next # g
  BY <1>1, <1>2, TypeFacts DEF MadeBy, Others
<1>4. keys'[d] \in {g, 0, next} /\ \A f \in Devices : f # d => keys'[f] = keys[f]
  BY <1>1, TypeFacts
<1>5. "remove" \in Events
  BY <1>1 DEF NoRemoval
<1>6. NoRemoval' /\ Targets'
  BY <1>5, RemovalStays
<1>7. made' \in Nat /\ made <= made'
  BY <1>1, TypeFacts
<1>8. ASSUME NEW e \in Devices, round[e].pc = "close", e # d
      PROVE  LET x == round[e].next
             IN /\ groups'[x] = groups[x] /\ groups[x].moved = 0
                /\ \A f \in Devices : keys'[f] # x
                /\ \A old \in Groups : groups'[old].moved # x
  <2>1. /\ MadeBy(e) /\ round[e].next \in Groups /\ \A f \in Devices : keys[f] # round[e].next
        /\ round[e].next # 0
    BY <1>8, MakingApart, TypeFacts
  <2>2. round[e].next # next /\ round[e].next # g
    BY <1>1, <1>8, <2>1 DEF MadeBy
  <2>3. groups'[round[e].next] = groups[round[e].next]
    BY <1>1, <2>1, <2>2 DEF Others
  <2>4. \A f \in Devices : keys'[f] # round[e].next
    BY <1>1, <1>4, <2>1, <2>2
  <2>5. \A old \in Groups : groups'[old].moved # round[e].next
    BY <1>1, <2>1, <2>2 DEF MadeBy, Others
  <2> QED BY <2>1, <2>3, <2>4, <2>5 DEF MadeBy
<1>9. MadeByRemoval'
  <2>1. round'[d].pc # "close"
    BY RestFits DEF ClosedBy, NoRound, TypeInv, Types
  <2>2. \A e \in Devices : round'[e] = round[e] /\ round[e].pc = "close" => e # d
    BY <2>1
  <2> QED BY <1>7, <1>8, <2>2, MakingStays
<1>10. OneChain'
  <2>1. PICK all \in SUBSET Groups, end \in Groups : Chain(all, end)
    BY <1>1, TypeFacts DEF OneChain
  <2>2. g = end
    BY <1>1, <2>1, OpenIsEnd, TypeFacts
  <2>3. \A h \in Groups : h # g => groups'[h].moved = groups[h].moved
    BY <1>1 DEF Others
  <2>4. \A h \in all : h <= next /\ (h # next => groups'[h].moved \in all \cup {next})
    BY <1>1, <1>3, <2>1, <2>2, <2>3, TypeFacts DEF Chain
  <2>5. ASSUME NEW e \in Devices
        PROVE  keys'[e] \in all \cup {next, 0} /\ seen'[e][1] <= next
    BY <1>1, <1>3, <1>4, <2>1, <2>2, TypeFacts DEF Chain
  <2>6. next \in all \cup {next} /\ next <= made' /\ groups'[next].moved = 0 /\ next <= next
    BY <1>1, <1>3, TypeFacts
  <2> HIDE DEF next, g
  <2>7. PICK n \in Groups : n = next
    BY <1>2
  <2>8. Chain(all \cup {n}, n)'
    BY <2>4, <2>5, <2>6, <2>7 DEF Chain
  <2>9. all \cup {n} \in SUBSET Groups
    BY <2>7
  <2> QED BY <2>8, <2>9 DEF OneChain
<1>11. Empty'
  BY <1>1, <1>2, <1>3, <1>4, TypeFacts DEF Empty, Others
<1>12. SeenBefore'
  BY <1>1, <1>3, <1>4, TypeFacts DEF SeenBefore
<1>13. MovesUp'
  BY <1>1, <1>3, TypeFacts DEF MovesUp, Others
<1> QED BY <1>6, <1>9, <1>10, <1>11, <1>12, <1>13

LEMMA GroupExpired ==
  ASSUME TypeInv, GroupInv, NoRevival, NEW g \in Groups, GroupExpires(g) PROVE GroupInv'
<1> USE DEF GroupInv
<1>1. "remove" \notin Events /\ UNCHANGED <<made, keys, seen, round>>
  BY DEF NoRevival, GroupExpires, Fault, histVars
<1>2. groups'[g] = NoGroup /\ Others(g)
  BY DEF GroupExpires, Others, TypeInv, Types
<1>3. NoGroup.moved = 0
  BY DEF NoGroup
<1>4. \A h \in Groups : groups[h].moved = 0 /\ groups'[h].moved = groups[h].moved
  BY <1>1, <1>2, <1>3 DEF NoRemoval, Others
<1>5. NoRemoval' /\ Targets' /\ MadeByRemoval'
  BY <1>1, <1>4 DEF NoRemoval, Targets, MadeByRemoval
<1>6. OneChain'
  BY <1>1, <1>4, TypeFacts, ChainStays
<1>7. Empty' /\ SeenBefore' /\ MovesUp'
  BY <1>1, <1>2, <1>4 DEF Empty, SeenBefore, MovesUp, Others
<1> QED BY <1>5, <1>6, <1>7

\* What every step is for the groups.
LEMMA StepKinds ==
  ASSUME TypeInv, GroupInv, Next
  PROVE  \/ \E g \in Groups : GroupExpires(g)
         \/ \E d \in Devices : RemoveMakesGroup(d) /\ MadeGroup(d)
         \/ \E d \in Devices :
               /\ CalmRound(d)
               /\ \/ Same
                  \/ RoundStores(d) /\ StoredBy(d)
                  \/ RoundSaves(d) /\ SavedBy(d)
                  \/ (Follows(d) \/ GroupGone(d) \/ RemoveFollows(d))
                     /\ (FollowedBy(d) \/ LeftBy(d))
                  \/ RemoveCloses(d) /\ ClosedBy(d)
                  \/ CreatesGroup(d) \/ \E g \in Groups : Joins(d, g)
<1> USE DEF GroupInv
<1>1. ASSUME NEW d \in Devices, RoundSteps(d), ~RemoveMakesGroup(d)
      PROVE  /\ CalmRound(d)
             /\ \/ Same
                \/ RoundStores(d) /\ StoredBy(d)
                \/ RoundSaves(d) /\ SavedBy(d)
                \/ (Follows(d) \/ GroupGone(d) \/ RemoveFollows(d)) /\ (FollowedBy(d) \/ LeftBy(d))
                \/ RemoveCloses(d) /\ ClosedBy(d)
  <2>1. CalmRound(d)
    BY <1>1, CalmAll
  <2>2. CASE RoundReads(d) \/ RoundMerges(d) \/ RoundApplies(d) \/ RoundKeeps(d) \/ RemoveGivesUp(d)
    BY <2>1, <2>2
       DEF RoundReads, RoundMerges, RoundApplies, RoundKeeps, RemoveGivesUp, Same, histVars
  <2> QED
    BY <1>1, <2>1, <2>2, StoredEffect, SavedEffect, MovedEffect, ClosedEffect DEF RoundSteps
<1>2. ASSUME NEW d \in Devices, RoundFails(d) \/ NotifySteps(d) \/ Restarts(d)
      PROVE  CalmRound(d) /\ Same
  BY <1>2, CalmAll DEF RoundFails, NotifySteps, NotifyReads, NotifyNotes, NotifyWrites, Restarts,
                       Same, histVars
<1>3. ASSUME NEW d \in Devices, NEW k \in Keys, NEW v \in ValuesOf(k), Edit(d, k, v)
      PROVE  CalmRound(d) /\ Same
  BY <1>3, CalmAll DEF Edit, Same
<1>4. ASSUME NEW d \in Devices, NEW x \in Devices, RemoveBegins(d, x) PROVE CalmRound(d) /\ Same
  BY <1>4, CalmAll DEF RemoveBegins, Same, histVars
<1>5. ASSUME NEW d \in Devices, CreatesGroup(d) \/ \E g \in Groups : Joins(d, g) PROVE CalmRound(d)
  BY <1>5, CalmAll
<1>6. ASSUME NEW d \in Devices, RemoveMakesGroup(d) PROVE MadeGroup(d)
  BY <1>6, MadeEffect
<1> QED BY <1>1, <1>2, <1>3, <1>4, <1>5, <1>6 DEF Next

LEMMA GroupStep ==
  ASSUME TypeInv, GroupInv, NoRevival, Next PROVE GroupInv'
  BY StepKinds, GroupExpired, GroupMade, GroupSame, GroupStored, GroupSaved, GroupFollowed,
     GroupClosed, GroupCreated, GroupJoined

LEMMA GroupInit == Init => GroupInv
<1> SUFFICES ASSUME Init PROVE GroupInv
  OBVIOUS
<1> USE DEF Init
<1>1. NoRemoval /\ Targets /\ MadeByRemoval
  BY DEF NoRemoval, Targets, MadeByRemoval, NoGroup, NoRound
<1>2. Empty
  BY SyncAssumption DEF Empty
<1>3. MovesUp /\ OneChain /\ SeenBefore
  BY DEF MovesUp, OneChain, SeenBefore, NoGroup
<1> QED BY <1>1, <1>2, <1>3 DEF GroupInv

-----------------------------------------------------------------------------
\* Rows.
LEMMA RowsStep ==
  ASSUME TypeInv, GroupInv, RowsInv, ReadInv, NoRevival, Next PROVE RowsInv'
<1> USE DEF GroupInv, RowsInv
<1>1. ASSUME Same PROVE RowsInv'
  BY <1>1 DEF Same, NotGone, SealedRows
<1>2. ASSUME NEW d \in Devices, SavedBy(d) PROVE RowsInv'
  BY <1>2 DEF SavedBy, NotGone, SealedRows
<1>3. ASSUME NEW d \in Devices, FollowedBy(d) \/ LeftBy(d) PROVE RowsInv'
  <2>1. groups' = groups /\ \A e \in Devices : e # d => keys'[e] = keys[e]
    BY <1>3, TypeFacts DEF FollowedBy, LeftBy
  <2>2. keys'[d] # 0 => groups[keys'[d]].rows[d] # "gone"
    BY <1>3, TypeFacts DEF FollowedBy, LeftBy, SealedRows, Closed
  <2> QED BY <2>1, <2>2 DEF NotGone, SealedRows
<1>4. ASSUME NEW d \in Devices, StoredBy(d) PROVE RowsInv'
  <2> DEFINE r == round[d]
             g == r.g
  <2>1. /\ g \in Groups /\ keys[d] = g /\ Others(g) /\ keys' = keys /\ groups[g].moved = 0
        /\ groups'[g].moved = 0 /\ groups'[g].rows = r.rows
    BY <1>4 DEF StoredBy, Current
  <2>2. r.rows = [groups[g].rows EXCEPT ![d] = "here"]
    BY <1>4 DEF StoredBy, Current, ReadInv, Copy, AtWork
  <2> HIDE DEF g, r
  <2>3. /\ groups'[g].rows[d] = "here"
        /\ \A e \in Devices : e # d => groups'[g].rows[e] = groups[g].rows[e]
    <3>1. groups[g].rows \in RowsType
      BY <2>1 DEF TypeInv, Types, GroupType
    <3> QED BY <2>1, <2>2, <3>1 DEF RowsType
  <2>4. groups[g].rows[d] # "gone"
    BY <2>1, TypeFacts DEF NotGone
  <2>5. NotGone'
    BY <2>1, <2>3, TypeFacts DEF NotGone, Others
  <2>6. SealedRows'
    <3> SUFFICES ASSUME NEW h \in Groups, NEW e \in Devices, groups'[h].moved # 0
                 PROVE  LET n == groups'[h].moved IN
                        /\ e \in groups'[h].sealed => groups'[n].rows[e] # "gone"
                        /\ groups'[h].rows[e] = "here" /\ e \notin groups'[h].sealed
                              => groups'[n].rows[e] = "gone"
      BY DEF SealedRows
    <3>1. h # g /\ groups'[h] = groups[h] /\ groups[h].moved \in Groups
      BY <2>1, TypeFacts DEF Others
    <3>2. /\ e \in groups[h].sealed => groups[groups[h].moved].rows[e] # "gone"
          /\ groups[h].rows[e] = "here" /\ e \notin groups[h].sealed
                => groups[groups[h].moved].rows[e] = "gone"
      BY <3>1 DEF SealedRows
    <3>3. CASE groups[h].moved = g
      BY <2>3, <2>4, <3>1, <3>2, <3>3
    <3>4. CASE groups[h].moved # g
      BY <2>1, <3>1, <3>2, <3>4 DEF Others
    <3> QED BY <3>3, <3>4
  <2> QED BY <2>5, <2>6
<1>5. ASSUME NEW d \in Devices, ClosedBy(d) PROVE RowsInv'
  <2> DEFINE r == round[d]
             g == r.g
             next == r.next
  <2>1. /\ r.pc = "close" /\ g \in Groups /\ keys[d] = g /\ Others(g) /\ groups'[g].moved = next
        /\ groups'[g].rows = groups[g].rows
        /\ groups'[g].sealed = {e \in Devices : r.rows[e] = "here"} \ {r.target}
        /\ \/ keys' = keys \/ keys' = [keys EXCEPT ![d] = 0]
           \/ r.target # d /\ keys' = [keys EXCEPT ![d] = next]
    BY <1>5 DEF ClosedBy
  <2>2. r.rows = groups[g].rows /\ r.rows \in RowsType
    <3>1. r.rows = groups[g].rows
      BY <1>5 DEF ClosedBy, Current, ReadInv, Copy, AtWork
    <3> QED BY <2>1, <3>1 DEF TypeInv, Types, GroupType
  <2>3. /\ next \in Groups /\ next # g /\ groups'[next] = groups[next]
        /\ groups[next].rows = [r.rows EXCEPT ![r.target] = "gone"]
    <3>1. MadeBy(d) /\ next \in Groups /\ next # g
      BY <2>1, MakingApart
    <3> QED BY <2>1, <3>1 DEF MadeBy, Others
  <2>4. \A e \in Devices : e # d => keys'[e] = keys[e]
    BY <2>1, TypeFacts
  <2>5. keys'[d] \in {0, g} \/ (keys'[d] = next /\ r.target # d)
    BY <2>1, TypeFacts
  <2> HIDE DEF g, next, r
  <2>6. \A e \in Devices : IF e = r.target THEN groups[next].rows[e] = "gone"
                           ELSE groups[next].rows[e] = groups[g].rows[e]
    BY <2>2, <2>3 DEF RowsType
  <2>7. \A h \in Groups : groups'[h].rows = groups[h].rows
    BY <2>1 DEF Others
  <2>8. NotGone'
    <3> SUFFICES ASSUME NEW e \in Devices, keys'[e] # 0
                 PROVE  groups'[keys'[e]].rows[e] # "gone"
      BY DEF NotGone
    <3>1. CASE e # d
      BY <2>4, <2>7, <3>1, TypeFacts DEF NotGone
    <3>2. groups[g].rows[d] # "gone"
      BY <2>1, TypeFacts DEF NotGone
    <3>3. CASE e = d /\ keys'[d] = g
      BY <2>1, <2>7, <3>2, <3>3
    <3>4. CASE e = d /\ keys'[d] = next /\ r.target # d
      BY <2>3, <2>6, <3>2, <3>4
    <3> QED BY <2>5, <3>1, <3>3, <3>4
  <2>9. SealedRows'
    <3> SUFFICES ASSUME NEW h \in Groups, NEW e \in Devices, groups'[h].moved # 0
                 PROVE  LET n == groups'[h].moved IN
                        /\ e \in groups'[h].sealed => groups'[n].rows[e] # "gone"
                        /\ groups'[h].rows[e] = "here" /\ e \notin groups'[h].sealed
                              => groups'[n].rows[e] = "gone"
      BY DEF SealedRows
    <3>1. CASE h = g
      <4>1. e \in groups'[g].sealed <=> (groups[g].rows[e] = "here" /\ e # r.target)
        BY <2>1, <2>2
      <4>2. groups'[g].rows[e] = groups[g].rows[e] /\ groups'[g].moved = next
        BY <2>1
      <4>3. e = r.target => groups[next].rows[e] = "gone"
        BY <2>6
      <4>4. e # r.target => groups[next].rows[e] = groups[g].rows[e]
        BY <2>6
      <4> QED BY <2>3, <3>1, <4>1, <4>2, <4>3, <4>4
    <3>2. CASE h # g
      <4>1. groups'[h] = groups[h] /\ groups[h].moved \in Groups
        BY <2>1, <3>2, TypeFacts DEF Others
      <4> QED BY <2>7, <4>1 DEF SealedRows
    <3> QED BY <3>1, <3>2
  <2> QED BY <2>8, <2>9
<1>6. ASSUME NEW d \in Devices, MadeGroup(d) PROVE RowsInv'
  <2> DEFINE next == made + 1
  <2>1. /\ next \in Groups /\ Others(next) /\ groups'[next].moved = 0 /\ keys' = keys
    BY <1>6 DEF MadeGroup
  <2>2. /\ \A e \in Devices : keys[e] # next /\ \A h \in Groups : groups[h].moved # next
    BY TypeFacts DEF Empty, MovesUp
  <2> HIDE DEF next
  <2>3. NotGone'
    BY <2>1, <2>2, TypeFacts DEF NotGone, Others
  <2>4. SealedRows'
    BY <2>1, <2>2, TypeFacts DEF SealedRows, Others
  <2> QED BY <2>3, <2>4
<1>7. ASSUME NEW d \in Devices, CreatesGroup(d) PROVE RowsInv'
  <2>1. groups' = groups /\ made + 1 \in Groups /\ keys' = [keys EXCEPT ![d] = made + 1]
    BY <1>7 DEF CreatesGroup
  <2>2. groups[made + 1].rows[d] = "absent"
    BY <2>1, TypeFacts DEF Empty, NoGroup, NoRows
  <2>3. \A e \in Devices : keys'[e] = IF e = d THEN made + 1 ELSE keys[e]
    BY <2>1, TypeFacts
  <2> QED BY <2>1, <2>2, <2>3 DEF NotGone, SealedRows
<1>8. ASSUME NEW d \in Devices, NEW g \in Groups, Joins(d, g) PROVE RowsInv'
  <2>1. groups' = groups /\ keys' = [keys EXCEPT ![d] = g] /\ groups[g].rows[d] = "absent"
    BY <1>8 DEF Joins
  <2>2. \A e \in Devices : keys'[e] = IF e = d THEN g ELSE keys[e]
    BY <2>1, TypeFacts
  <2> QED BY <2>1, <2>2 DEF NotGone, SealedRows
<1>9. ASSUME NEW g \in Groups, GroupExpires(g) PROVE RowsInv'
  <2>1. "remove" \notin Events /\ keys' = keys
    BY <1>9 DEF NoRevival, GroupExpires, Fault
  <2>2. groups'[g] = NoGroup /\ Others(g)
    BY <1>9 DEF GroupExpires, Others, TypeInv, Types
  <2>3. \A h \in Groups : groups'[h].moved = 0
    BY <2>1, <2>2 DEF NoRemoval, Others, NoGroup
  <2>4. NotGone'
    BY <2>1, <2>2, TypeFacts DEF NotGone, Others, NoGroup, NoRows
  <2> QED BY <2>3, <2>4 DEF SealedRows
<1> QED BY <1>1, <1>2, <1>3, <1>4, <1>5, <1>6, <1>7, <1>8, <1>9, StepKinds

-----------------------------------------------------------------------------
\* What a round has read.
Alone(d) ==
    \A e \in Devices \ {d} : /\ round'[e] = round[e] /\ file'[e] = file[e] /\ keys'[e] = keys[e]
                             /\ seen'[e] = seen[e] /\ kept'[e] = kept[e]

DeviceStep(d) ==
    \/ RoundSteps(d) \/ RoundFails(d) \/ NotifySteps(d) \/ Restarts(d) \/ CreatesGroup(d)
    \/ \E g \in Groups : Joins(d, g)
    \/ \E k \in Keys : \E v \in ValuesOf(k) : Edit(d, k, v)
    \/ \E x \in Devices : RemoveBegins(d, x)

\* The steps that begin, continue or end what a round holds.
WorkStep(d) ==
    \/ RoundReads(d) \/ RoundMerges(d) \/ RoundApplies(d) \/ RoundKeeps(d) \/ RoundStores(d)
    \/ RemoveMakesGroup(d)

LEMMA OneDevice ==
  ASSUME TypeInv, NEW d \in Devices, DeviceStep(d) PROVE Alone(d)
<1> DEFINE Rounds == \A e \in Devices \ {d} : round'[e] = round[e]
<1>1. round \in [Devices -> RoundType] /\ Ended(d) = [round EXCEPT ![d] = NoRound]
  BY DEF TypeInv, Types, Ended
<1>2. CASE RoundReads(d) \/ RoundMerges(d)
  BY <1>1, <1>2 DEF RoundReads, RoundMerges, Alone, histVars
<1>3. CASE RoundApplies(d)
  <2>1. \E f : round' = [round EXCEPT ![d].pc = "applied", ![d].failed = f,
                                      ![d].busy = Busy(d, round[d])]
    BY <1>3 DEF RoundApplies
  <2> QED BY <1>1, <1>3, <2>1 DEF RoundApplies, Alone
<1>4. CASE RoundKeeps(d)
  <2>1. \E st : file' = file \/ file' = [file EXCEPT ![d] = st]
    BY <1>4 DEF RoundKeeps
  <2>2. \E pc, st : \/ round' = [round EXCEPT ![d].pc = pc]
                    \/ round' = [round EXCEPT ![d].pc = pc, ![d].st = st]
    BY <1>4 DEF RoundKeeps
  <2>3. Rounds /\ \A e \in Devices \ {d} : file'[e] = file[e]
    BY <1>1, <2>1, <2>2 DEF TypeInv, Types
  <2> QED BY <1>4, <2>3 DEF RoundKeeps, Alone, histVars
<1>5. CASE RoundStores(d)
  BY <1>1, <1>5 DEF RoundStores, Alone, Again, histVars
<1>6. CASE RoundSaves(d)
  <2>1. Rounds
    BY <1>1, <1>6 DEF RoundSaves, Again
  <2> QED BY <1>6, <2>1 DEF RoundSaves, Alone, TypeInv, Types
<1>7. CASE Follows(d) \/ GroupGone(d) \/ RemoveFollows(d)
  <2>1. Rounds
    BY <1>1, <1>7 DEF Follows, GroupGone, RemoveFollows, Forget
  <2> QED BY <1>7, <2>1
          DEF Follows, GroupGone, RemoveFollows, Forget, Alone, TypeInv, Types, histVars
<1>8. CASE RoundFails(d) \/ Restarts(d) \/ RemoveGivesUp(d)
  BY <1>1, <1>8 DEF RoundFails, Restarts, RemoveGivesUp, Alone, histVars
<1>9. CASE RemoveMakesGroup(d)
  BY <1>1, <1>9 DEF RemoveMakesGroup, Alone, histVars
<1>10. CASE RemoveCloses(d)
  <2>1. Rounds
    BY <1>1, <1>10 DEF RemoveCloses, Removed, Forget, Again
  <2>2. \A e \in Devices \ {d} : file'[e] = file[e] /\ keys'[e] = keys[e]
    BY <1>10 DEF RemoveCloses, Removed, Forget, TypeInv, Types
  <2> QED BY <1>10, <2>1, <2>2 DEF RemoveCloses, Alone, histVars
<1>11. CASE CreatesGroup(d) \/ \E g \in Groups : Joins(d, g)
  BY <1>11 DEF CreatesGroup, Joins, Alone, TypeInv, Types, histVars
<1>12. CASE NotifySteps(d) \/ \E k \in Keys : \E v \in ValuesOf(k) : Edit(d, k, v)
  BY <1>12 DEF NotifySteps, NotifyReads, NotifyNotes, NotifyWrites, Edit, Alone, histVars
<1>13. CASE \E x \in Devices : RemoveBegins(d, x)
  BY <1>1, <1>13 DEF RemoveBegins, Alone, histVars
<1> QED
  BY <1>2, <1>3, <1>4, <1>5, <1>6, <1>7, <1>8, <1>9, <1>10, <1>11, <1>12, <1>13
     DEF DeviceStep, RoundSteps

\* Every other step ends the round of the device or leaves what it holds alone.
LEMMA RoundRests ==
  ASSUME TypeInv, NEW d \in Devices, DeviceStep(d), ~WorkStep(d), round'[d].pc \in AtWork
  PROVE  round'[d] = round[d] /\ file'[d] = file[d] /\ seen'[d] = seen[d]
<1>1. /\ Ended(d) = [round EXCEPT ![d] = NoRound] /\ round \in [Devices -> RoundType]
      /\ NoRound.pc = "idle" /\ NoRound \in RoundType
  BY NoneTypes DEF TypeInv, Types, Ended, NoRound
<1>2. round' # Ended(d)
  BY <1>1 DEF AtWork
<1>3. round' # Again(d) /\ round' # [Again(d) EXCEPT ![d].pc = "remove"]
  <2> DEFINE again == [NoRound EXCEPT !.target = round[d].target]
  <2>1. /\ again \in RoundType /\ Again(d) = [round EXCEPT ![d] = again]
        /\ [Again(d) EXCEPT ![d].pc = "remove"] = [round EXCEPT ![d] = [again EXCEPT !.pc = "remove"]]
    BY AgainFits
  <2>2. again.pc = "idle"
    BY <1>1 DEF RoundType
  <2> HIDE DEF again
  <2>3. [again EXCEPT !.pc = "remove"].pc = "remove"
    BY <2>1 DEF RoundType
  <2> QED BY <1>1, <2>1, <2>2, <2>3 DEF AtWork
<1>4. ~RoundSaves(d) /\ ~RoundFails(d) /\ ~Restarts(d) /\ ~RemoveGivesUp(d) /\ ~RemoveCloses(d)
  BY <1>2, <1>3
     DEF RoundSaves, RoundFails, Restarts, RemoveGivesUp, RemoveCloses, Removed, Forget
<1>5. ~Follows(d) /\ ~GroupGone(d) /\ ~RemoveFollows(d)
  BY <1>2 DEF Follows, GroupGone, RemoveFollows, Forget, AtWork
<1>6. ~CreatesGroup(d) /\ ~\E g \in Groups : Joins(d, g)
  BY DEF CreatesGroup, Joins, TypeInv, RoundFits, Fits
<1>7. ~\E x \in Devices : RemoveBegins(d, x)
  BY <1>1 DEF RemoveBegins, AtWork, RoundType
<1>8. NotifySteps(d) \/ \E k \in Keys : \E v \in ValuesOf(k) : Edit(d, k, v)
  BY <1>4, <1>5, <1>6, <1>7 DEF DeviceStep, WorkStep, RoundSteps
<1> QED BY <1>8 DEF NotifySteps, NotifyReads, NotifyNotes, NotifyWrites, Edit, histVars

\* The version of a group a round works on only rises, and with it everything else changes.
LEMMA VersionRises ==
  ASSUME TypeInv, GroupInv, Next, NEW e \in Devices, round[e].pc \in AtWork
  PROVE  LET g == round[e].g
         IN g \in Groups /\ (groups'[g] = groups[g] \/ groups'[g].version > groups[g].version)
<1> USE DEF GroupInv
<1> DEFINE g == round[e].g
<1>1. g \in Groups /\ keys[e] = g
  BY TypeFacts DEF TypeInv, RoundFits, Fits
<1>2. ASSUME NEW h \in Groups, GroupExpires(h) PROVE groups'[g] = groups[g]
  BY <1>1, <1>2 DEF GroupExpires, TypeInv, Types
<1>3. ASSUME NEW d \in Devices, MadeGroup(d) PROVE groups'[g] = groups[g]
  BY <1>1, <1>3, TypeFacts DEF MadeGroup, Others, Empty
<1>4. ASSUME NEW d \in Devices, StoredBy(d) \/ ClosedBy(d)
      PROVE  groups'[g] = groups[g] \/ groups'[g].version > groups[g].version
  BY <1>1, <1>4, TypeFacts DEF StoredBy, ClosedBy, Others, Current
<1>5. ASSUME NEW d \in Devices,
             \/ Same \/ SavedBy(d) \/ FollowedBy(d) \/ LeftBy(d) \/ CreatesGroup(d)
             \/ \E h \in Groups : Joins(d, h)
      PROVE  groups'[g] = groups[g]
  BY <1>5 DEF Same, SavedBy, FollowedBy, LeftBy, CreatesGroup, Joins
<1> QED BY <1>1, <1>2, <1>3, <1>4, <1>5, StepKinds

LEMMA CopyStays ==
  ASSUME TypeInv, GroupInv, ReadInv, Next, NEW e \in Devices, round[e].pc \in AtWork,
         round'[e] = round[e], file'[e] = file[e], seen'[e] = seen[e]
  PROVE  Copy(e)'
<1> DEFINE r == round[e]
<1>1. /\ r.g \in Groups
      /\ groups'[r.g] = groups[r.g] \/ groups'[r.g].version > groups[r.g].version
  BY VersionRises
<1>2. Copy(e) /\ groups[r.g].version \in Nat /\ r.version \in Nat
  BY <1>1, TypeFacts DEF ReadInv, TypeInv, Types, RoundType
<1>3. CASE groups'[r.g] = groups[r.g]
  BY <1>2, <1>3 DEF Copy
<1>4. CASE groups'[r.g].version > groups[r.g].version /\ groups'[r.g].version \in Nat
  <2>1. r.version < groups'[r.g].version
    BY <1>2, <1>4 DEF Copy
  <2>2. r.version <= groups'[r.g].version /\ r.version # groups'[r.g].version
    BY <1>2, <1>4, <2>1
  <2> QED BY <1>2, <2>2 DEF Copy
<1>5. groups'[r.g].version \in Nat
  BY <1>1, TypesStep, TypeFacts DEF TypeInv, Types, GroupType
<1> QED BY <1>1, <1>3, <1>4, <1>5

LEMMA ReadsCopy ==
  ASSUME TypeInv, GroupInv, SeenInv, NEW d \in Devices, RoundReads(d) PROVE Copy(d)'
<1> DEFINE g == keys[d]
           r == round[d]
           after == [r EXCEPT !.pc = "read", !.g = g, !.version = groups[g].version,
                        !.remote = groups[g].entries, !.rows = groups[g].rows, !.p = pend[d],
                        !.st = file[d]]
<1>1. g \in Groups /\ r \in RoundType /\ ~Gone(d) /\ UNCHANGED <<groups, keys, file, seen>>
  BY TypeFacts DEF RoundReads, TypeInv, Types, histVars
<1>2. round'[d] = after
  BY DEF RoundReads, TypeInv, Types
<1>3. /\ after.pc = "read" /\ after.g = g /\ after.version = groups[g].version
      /\ after.remote = groups[g].entries /\ after.rows = groups[g].rows /\ after.st = file[d]
  BY <1>1 DEF RoundType
<1> HIDE DEF after
<1>4. groups[g].version = 0 => groups[g].rows[d] # "here"
  BY <1>1 DEF GroupInv, Empty, NoGroup, NoRows
<1>5. seen[d][1] = g => seen[d][2] <= groups[g].version
  BY <1>1, TypeFacts DEF SeenInv, Dropped, Gone
<1>6. groups[g].version <= groups[g].version
  BY <1>1, TypeFacts
<1> QED BY <1>1, <1>2, <1>3, <1>4, <1>5, <1>6 DEF Copy

LEMMA MergesCopy ==
  ASSUME TypeInv, ReadInv, NEW d \in Devices, RoundMerges(d) PROVE Copy(d)'
<1> DEFINE r == round[d]
           withSecrets == r.p.secrets \/ r.version = 0
           snap == Snapshot(d, withSecrets)
           merged == Merged(d, r, snap)
           here == Here(r, snap, withSecrets)
           incoming == Incoming(r, snap, merged, here)
           write == merged # r.remote \/ r.rows[d] # "here"
           next == [r EXCEPT !.merged = merged, !.here = here, !.incoming = incoming,
                             !.rows = [r.rows EXCEPT ![d] = "here"], !.write = write]
           after == [next EXCEPT !.pc = IF incoming # {} THEN "apply" ELSE AfterApply(next)]
<1>1. /\ r \in RoundType /\ withSecrets \in BOOLEAN /\ r.pc = "read"
      /\ UNCHANGED <<groups, keys, file, seen>>
  BY DEF RoundMerges, TypeInv, Types, RoundType, PendingType, histVars
<1>2. Copy(d)
  BY <1>1 DEF ReadInv, AtWork
<1>3. \A k \in Keys : snap[k] \in ValuesOf(k) \cup {None}
  BY <1>1, SnapshotType
<1>4. \A k \in incoming : merged[k] # NoEntry => merged[k] = r.remote[k]
  <2> SUFFICES ASSUME NEW k \in incoming, merged[k] # NoEntry, merged[k] # r.remote[k] PROVE FALSE
    OBVIOUS
  <2>1. k \in Keys /\ here[k] # merged[k].v
    BY DEF Incoming
  <2>2. /\ merged[k].v = IF snap[k] = None THEN "false" ELSE snap[k]
        /\ snap[k] = None => k \in Sites
    BY <1>1, <1>3, <2>1, MergedType
  <2>3. here[k] = IF snap[k] = None THEN "false" ELSE snap[k]
    BY <2>1, <2>2, SyncAssumption DEF Here
  <2> QED BY <2>1, <2>2, <2>3
<1>5. round'[d] = after
  BY DEF RoundMerges, TypeInv, Types
<1>6. snap \in HashesType
  BY <1>1, SnapshotType
<1>7. merged \in EntriesType
  BY <1>1, <1>3, MergedType
<1>8. here \in HashesType
  BY <1>1, <1>6, HereType
<1>9. incoming \subseteq Keys
  BY DEF Incoming
<1>10. [r.rows EXCEPT ![d] = "here"] \in RowsType
  BY <1>1 DEF RoundType, RowsType
<1> HIDE DEF withSecrets, snap, merged, here, incoming
<1>11. /\ next.g = r.g /\ next.version = r.version /\ next.remote = r.remote /\ next.st = r.st
      /\ next.merged = merged /\ next.incoming = incoming /\ next.write = write
      /\ next.rows = [r.rows EXCEPT ![d] = "here"]
  BY <1>1 DEF RoundType
<1>12. next \in RoundType
  BY <1>1, <1>7, <1>8, <1>9, <1>10 DEF RoundType
<1> HIDE DEF next
<1>13. /\ after.g = r.g /\ after.version = r.version /\ after.remote = r.remote
      /\ after.st = r.st /\ after.merged = merged /\ after.incoming = incoming
      /\ after.write = write /\ after.rows = [r.rows EXCEPT ![d] = "here"]
      /\ after.pc = IF incoming # {} THEN "apply" ELSE IF write THEN "store" ELSE "save"
  BY <1>1, <1>11, <1>12 DEF AfterApply, RoundType
<1> HIDE DEF after
<1>14. ~write => merged = r.remote /\ r.version > 0
  <2>1. r.version \in Nat
    BY <1>1 DEF RoundType
  <2> QED BY <1>1, <1>2, <2>1 DEF Copy
<1> HIDE DEF write
<1> QED BY <1>1, <1>2, <1>4, <1>5, <1>13, <1>14 DEF Copy

LEMMA AppliesCopy ==
  ASSUME TypeInv, ReadInv, NEW d \in Devices, RoundApplies(d) PROVE Copy(d)'
<1> DEFINE r == round[d]
<1>1. r \in RoundType /\ r.pc = "apply" /\ UNCHANGED <<groups, file, seen>>
  BY DEF RoundApplies, TypeInv, Types
<1>2. Copy(d)
  BY <1>1 DEF ReadInv, AtWork
<1>3. PICK f : round' = [round EXCEPT ![d].pc = "applied", ![d].failed = f, ![d].busy = Busy(d, r)]
  BY DEF RoundApplies
<1>4. round'[d] = [r EXCEPT !.pc = "applied", !.failed = f, !.busy = Busy(d, r)]
  BY <1>3 DEF TypeInv, Types
<1>5. /\ round'[d].pc = "applied" /\ round'[d].g = r.g /\ round'[d].version = r.version
      /\ round'[d].remote = r.remote /\ round'[d].st = r.st /\ round'[d].merged = r.merged
      /\ round'[d].incoming = r.incoming /\ round'[d].write = r.write /\ round'[d].rows = r.rows
  BY <1>1, <1>4 DEF RoundType
<1> QED BY <1>1, <1>2, <1>5 DEF Copy

LEMMA KeepsCopy ==
  ASSUME TypeInv, ReadInv, NEW d \in Devices, RoundKeeps(d) PROVE Copy(d)'
<1> DEFINE r == round[d]
<1>1. r \in RoundType /\ r.pc = "applied" /\ UNCHANGED <<groups, seen>>
  BY DEF RoundKeeps, TypeInv, Types, histVars
<1>2. Copy(d) /\ r.st = file[d]
  BY <1>1 DEF ReadInv, AtWork, Copy
<1>3. PICK st : \/ /\ round' = [round EXCEPT ![d].pc = AfterApply(r)] /\ file' = file
                \/ /\ round' = [round EXCEPT ![d].pc = AfterApply(r), ![d].st = st]
                   /\ file' = [file EXCEPT ![d] = st]
  BY DEF RoundKeeps
<1>4. /\ round'[d].pc = AfterApply(r) /\ round'[d].g = r.g /\ round'[d].version = r.version
      /\ round'[d].remote = r.remote /\ round'[d].st = file'[d] /\ round'[d].merged = r.merged
      /\ round'[d].incoming = r.incoming /\ round'[d].write = r.write /\ round'[d].rows = r.rows
  <2>1. round[d] = r /\ round \in [Devices -> RoundType] /\ file \in [Devices -> FileType]
    BY DEF TypeInv, Types
  <2>2. CASE round' = [round EXCEPT ![d].pc = AfterApply(r)] /\ file' = file
    BY <1>1, <1>2, <2>1, <2>2 DEF RoundType
  <2>3. CASE /\ round' = [round EXCEPT ![d].pc = AfterApply(r), ![d].st = st]
             /\ file' = [file EXCEPT ![d] = st]
    BY <1>1, <1>2, <2>1, <2>3 DEF RoundType
  <2> QED BY <1>3, <2>2, <2>3
<1> QED BY <1>1, <1>2, <1>4 DEF Copy, AfterApply

LEMMA StoresCopy ==
  ASSUME TypeInv, ReadInv, NEW d \in Devices, RoundStores(d), round'[d].pc \in AtWork
  PROVE  Copy(d)'
<1> DEFINE r == round[d]
<1>1. Ended(d) = [round EXCEPT ![d] = NoRound] /\ round \in [Devices -> RoundType]
  BY RestFits DEF TypeInv, Types
<1>2. round' # Ended(d)
  BY <1>1 DEF AtWork, NoRound
<1>3. round' # Again(d)
  <2> DEFINE again == [NoRound EXCEPT !.target = round[d].target]
  <2>1. Again(d) = [round EXCEPT ![d] = again]
    BY AgainFits
  <2>2. again.pc = "idle"
    BY NoneTypes DEF RoundType, NoRound
  <2> HIDE DEF again
  <2> QED BY <1>1, <2>1, <2>2 DEF AtWork
<1>4. StoredBy(d) /\ round' = [round EXCEPT ![d].pc = "save", ![d].version = r.version + 1]
  BY <1>2, <1>3, StoredEffect
<1>5. r \in RoundType /\ r.pc = "store" /\ r.g \in Groups /\ Copy(d) /\ r.version \in Nat
  BY <1>4 DEF StoredBy, ReadInv, AtWork, TypeInv, Types, RoundType
<1> DEFINE v == r.version + 1
<1>6. v \in Nat /\ v > r.version /\ v > 0 /\ v <= v
  BY <1>5
<1>7. round'[d] = [r EXCEPT !.pc = "save", !.version = v]
  BY <1>1, <1>4
<1>8. groups'[r.g].version = v /\ groups'[r.g].entries = r.merged /\ UNCHANGED <<seen, file>>
  BY <1>4 DEF StoredBy, RoundStores
<1> HIDE DEF v
<1>9. /\ round'[d].pc = "save" /\ round'[d].g = r.g /\ round'[d].version = v
      /\ round'[d].st = r.st /\ round'[d].merged = r.merged
  BY <1>5, <1>7 DEF RoundType
<1>10. seen[d][1] = r.g => seen[d][2] <= v
  <2>1. seen[d][2] \in Nat
    BY TypeFacts
  <2> QED BY <1>5, <1>6, <2>1 DEF Copy
<1> QED BY <1>5, <1>6, <1>8, <1>9, <1>10 DEF Copy

LEMMA MakesCopy ==
  ASSUME TypeInv, GroupInv, SeenInv, NEW d \in Devices, RemoveMakesGroup(d) PROVE Copy(d)'
<1> DEFINE g == keys[d]
<1>1. /\ g \in Groups /\ Others(made + 1) /\ UNCHANGED <<seen, file>> /\ groups[g].version > 0
      /\ round'[d].pc = "close" /\ round'[d].g = g /\ round'[d].version = groups[g].version
      /\ round'[d].rows = groups[g].rows
  BY MadeEffect DEF MadeGroup, RemoveMakesGroup
<1>2. g # made + 1
  BY TypeFacts DEF GroupInv, Empty
<1>3. groups'[g] = groups[g] /\ groups[g].version \in Nat
  BY <1>1, <1>2, TypeFacts DEF Others
<1>4. seen[d][1] = g => seen[d][2] <= groups[g].version
  BY <1>1, <1>3, TypeFacts DEF SeenInv, Dropped
<1> QED BY <1>1, <1>3, <1>4 DEF Copy

LEMMA ReadStep ==
  ASSUME TypeInv, GroupInv, ReadInv, SeenInv, Next PROVE ReadInv'
<1> SUFFICES ASSUME NEW e \in Devices, round'[e].pc \in AtWork PROVE Copy(e)'
  BY DEF ReadInv
<1>1. ASSUME NEW g \in Groups, GroupExpires(g) PROVE Copy(e)'
  <2>1. UNCHANGED <<round, file, seen>>
    BY <1>1 DEF GroupExpires, histVars
  <2> QED BY <2>1, CopyStays
<1>2. ASSUME NEW d \in Devices, DeviceStep(d) PROVE Copy(e)'
  <2>1. CASE e # d
    <3>1. round'[e] = round[e] /\ file'[e] = file[e] /\ seen'[e] = seen[e]
      BY <1>2, <2>1, OneDevice DEF Alone
    <3> QED BY <3>1, CopyStays
  <2>2. CASE e = d /\ WorkStep(d)
    BY <2>2, ReadsCopy, MergesCopy, AppliesCopy, KeepsCopy, StoresCopy, MakesCopy DEF WorkStep
  <2>3. CASE e = d /\ ~WorkStep(d)
    <3>1. round'[d] = round[d] /\ file'[d] = file[d] /\ seen'[d] = seen[d]
      BY <1>2, <2>3, RoundRests
    <3> QED BY <2>3, <3>1, CopyStays
  <2> QED BY <2>1, <2>2, <2>3
<1> QED BY <1>1, <1>2 DEF Next, DeviceStep

-----------------------------------------------------------------------------
\* What was in step.

\* Nobody comes to a group the relay dropped, and those who have its key do not work on it.
LEMMA DroppedStays ==
  ASSUME TypeInv, GroupInv, NoRevival, Next, NEW g \in Groups, g <= made, Dropped(g)
  PROVE  Dropped(g)'
<1> USE DEF GroupInv
<1>1. /\ "expire" \in Events /\ "remove" \notin Events /\ groups[g].version = 0
      /\ \A d \in Devices : keys[d] = g => file[d].version > 0 /\ round[d].pc = "idle"
      /\ \A h \in Groups : groups[h].moved = 0
  BY DEF Dropped, NoRevival, NoRemoval
<1>2. groups'[g].version = 0
  <2>1. ASSUME NEW h \in Groups, GroupExpires(h) PROVE groups'[g].version = 0
    BY <1>1, <2>1 DEF GroupExpires, NoGroup, TypeInv, Types
  <2>2. ASSUME NEW d \in Devices, StoredBy(d) \/ ClosedBy(d) PROVE groups'[g].version = 0
    BY <1>1, <2>2 DEF StoredBy, ClosedBy, Others
  <2>3. ~\E d \in Devices : MadeGroup(d)
    BY <1>1 DEF MadeGroup, NoRemoval
  <2>4. ASSUME NEW d \in Devices,
               \/ Same \/ SavedBy(d) \/ FollowedBy(d) \/ LeftBy(d) \/ CreatesGroup(d)
               \/ \E h \in Groups : Joins(d, h)
        PROVE  groups'[g].version = 0
    BY <1>1, <2>4 DEF Same, SavedBy, FollowedBy, LeftBy, CreatesGroup, Joins
  <2> QED BY <2>1, <2>2, <2>3, <2>4, StepKinds
<1>3. ASSUME NEW e \in Devices, keys'[e] = g
      PROVE  file'[e].version > 0 /\ round'[e].pc = "idle"
  <2>1. ASSUME NEW h \in Groups, GroupExpires(h) PROVE UNCHANGED <<keys, file, round>>
    BY <2>1 DEF GroupExpires
  <2>2. ASSUME NEW d \in Devices, DeviceStep(d), d # e
        PROVE  keys'[e] = keys[e] /\ file'[e] = file[e] /\ round'[e] = round[e]
    BY <2>2, OneDevice DEF Alone
  <2>3. ASSUME DeviceStep(e)
        PROVE  file'[e].version > 0 /\ round'[e].pc = "idle"
    <3>1. CASE keys[e] = g
      <4>1. round[e].pc = "idle" /\ file[e].version > 0 /\ Gone(e) /\ ~Closed(e) /\ keys'[e] = g
        BY <1>1, <1>3, <3>1 DEF Gone, Closed
      <4>2. keys[e] # 0
        BY <3>1, TypeFacts
      <4>3. ~GroupGone(e)
        BY <1>3, <3>1, <4>2 DEF GroupGone, Forget, TypeInv, Types
      <4>4. ~RoundSteps(e) /\ ~RoundFails(e) /\ ~CreatesGroup(e) /\ ~\E h \in Groups : Joins(e, h)
        BY <4>1, <4>2, <4>3
           DEF RoundSteps, RoundReads, Follows, RoundMerges, RoundApplies, RoundKeeps, RoundStores,
               RoundSaves, RemoveFollows, RemoveGivesUp, RemoveMakesGroup, RemoveCloses, RoundFails,
               CreatesGroup, Joins
      <4>5. ~\E x \in Devices : RemoveBegins(e, x)
        BY <1>1 DEF RemoveBegins
      <4>6. CASE Restarts(e)
        BY <4>1, <4>6 DEF Restarts, Ended, NoRound, TypeInv, Types
      <4>7. CASE NotifySteps(e) \/ \E k \in Keys : \E v \in ValuesOf(k) : Edit(e, k, v)
        BY <4>1, <4>7 DEF NotifySteps, NotifyReads, NotifyNotes, NotifyWrites, Edit
      <4> QED BY <2>3, <4>4, <4>5, <4>6, <4>7 DEF DeviceStep
    <3>2. CASE keys[e] # g
      <4>1. keys'[e] # keys[e] /\ g # 0
        BY <1>3, <3>2, TypeFacts
      <4>2. ~\E h \in Groups : Joins(e, h)
        <5> SUFFICES ASSUME NEW h \in Groups, Joins(e, h) PROVE FALSE
          OBVIOUS
        <5>1. keys'[e] = h /\ groups[h].version > 0
          BY DEF Joins, TypeInv, Types
        <5> QED BY <1>1, <1>3, <5>1
      <4>3. ~CreatesGroup(e)
        <5> SUFFICES ASSUME CreatesGroup(e) PROVE FALSE
          OBVIOUS
        <5>1. keys'[e] = made + 1
          BY DEF CreatesGroup, TypeInv, Types
        <5> QED BY <1>3, <5>1, TypeFacts
      <4>4. ~FollowedBy(e)
        BY <1>1 DEF FollowedBy, Closed
      <4>5. ~LeftBy(e)
        BY <1>3, <4>1 DEF LeftBy, TypeInv, Types
      <4>6. ~ClosedBy(e)
        BY <1>1 DEF ClosedBy, NoRemoval
      <4>7. keys' = keys
        BY <2>3, <4>2, <4>3, <4>4, <4>5, <4>6, StoredEffect, SavedEffect, MovedEffect, ClosedEffect
           DEF DeviceStep, RoundSteps, Same, StoredBy, SavedBy, RoundReads, RoundMerges,
               RoundApplies, RoundKeeps, RemoveGivesUp, RemoveMakesGroup, RoundFails, NotifySteps,
               NotifyReads, NotifyNotes, NotifyWrites, Restarts, Edit, RemoveBegins
      <4> QED BY <4>1, <4>7
    <3> QED BY <3>1, <3>2
  <2> QED BY <1>1, <1>3, <2>1, <2>2, <2>3 DEF Next, DeviceStep
<1> QED BY <1>1, <1>2, <1>3 DEF Dropped

LEMMA SeenStep ==
  ASSUME TypeInv, GroupInv, ReadInv, SeenInv, NoRevival, Next PROVE SeenInv'
<1> USE DEF GroupInv
<1> SUFFICES ASSUME NEW d \in Devices, NEW g, g = seen'[d][1], g # 0
             PROVE  seen'[d][2] > 0 /\ (seen'[d][2] <= groups'[g].version \/ Dropped(g)')
  BY DEF SeenInv, Dropped
<1>1. CASE seen'[d] = seen[d]
  <2>1. g = seen[d][1] /\ g \in Groups /\ g <= made /\ seen[d][2] > 0 /\ seen[d][2] \in Nat
    BY <1>1, TypeFacts DEF SeenInv, Empty
  <2>2. CASE Dropped(g)
    BY <1>1, <2>1, <2>2, DroppedStays
  <2>3. CASE seen[d][2] <= groups[g].version
    <3>1. ASSUME NEW e \in Devices, MadeGroup(e) PROVE groups'[g] = groups[g]
      BY <2>1, <3>1, TypeFacts DEF MadeGroup, Others
    <3>2. ASSUME NEW e \in Devices, StoredBy(e) \/ ClosedBy(e)
          PROVE  groups'[g] = groups[g] \/ groups'[g].version = groups[g].version + 1
      BY <2>1, <3>2 DEF StoredBy, ClosedBy, Others, Current
    <3>3. ASSUME NEW e \in Devices,
                 \/ Same \/ SavedBy(e) \/ FollowedBy(e) \/ LeftBy(e) \/ CreatesGroup(e)
                 \/ \E h \in Groups : Joins(e, h)
          PROVE  groups' = groups
      BY <3>3 DEF Same, SavedBy, FollowedBy, LeftBy, CreatesGroup, Joins
    <3>4. ASSUME NEW h \in Groups, GroupExpires(h)
          PROVE  groups'[g] = groups[g] \/ Dropped(g)'
      <4>1. /\ "expire" \in Events /\ groups' = [groups EXCEPT ![h] = NoGroup]
            /\ \A e \in Devices : h # round[e].g /\ (keys[e] = h => file[e].version > 0)
            /\ UNCHANGED <<keys, file, round>>
        BY <3>4 DEF GroupExpires, Fault
      <4>2. CASE h # g
        BY <2>1, <4>1, <4>2 DEF TypeInv, Types
      <4>3. CASE h = g
        <5>1. groups'[g].version = 0
          BY <4>1, <4>3 DEF TypeInv, Types, NoGroup
        <5>2. ASSUME NEW e \in Devices, keys[e] = g PROVE round[e].pc = "idle"
          <6>1. round[e].pc \notin AtWork
            BY <4>1, <4>3, <5>2 DEF TypeInv, RoundFits, Fits
          <6>2. round[e].pc # "remove"
            BY <4>1 DEF NoRevival, NoRemoval
          <6>3. round[e].pc \in RoundPcs
            BY DEF TypeInv, Types, RoundType
          <6> QED BY <6>1, <6>2, <6>3 DEF AtWork, RoundPcs
        <5> QED BY <4>1, <4>3, <5>1, <5>2 DEF Dropped
      <4> QED BY <4>2, <4>3
    <3>5. \/ groups'[g] = groups[g] \/ groups'[g].version = groups[g].version + 1
          \/ Dropped(g)'
      BY <3>1, <3>2, <3>3, <3>4, StepKinds
    <3> QED BY <1>1, <2>1, <2>3, <3>5, TypeFacts
  <2>4. Dropped(g) \/ seen[d][2] <= groups[g].version
    BY <2>1 DEF SeenInv
  <2> QED BY <2>2, <2>3, <2>4
<1>2. CASE seen'[d] # seen[d]
  <2>1. PICK e \in Devices : SavedBy(e)
    BY <1>2, StepKinds
       DEF Same, StoredBy, FollowedBy, LeftBy, ClosedBy, MadeGroup, CreatesGroup, Joins,
           GroupExpires, histVars
  <2>2. e = d /\ seen'[d] = <<keys[d], round[d].version>> /\ groups' = groups
    BY <1>2, <2>1 DEF SavedBy, TypeInv, Types
  <2>3. round[d].pc = "save" /\ keys[d] = round[d].g
    BY <2>1, <2>2 DEF SavedBy, TypeInv, RoundFits, Fits, AtWork
  <2>4. round[d].version > 0 /\ round[d].version <= groups[keys[d]].version
    BY <2>3 DEF ReadInv, AtWork, Copy
  <2> QED BY <2>2, <2>4
<1> QED BY <1>1, <1>2

LEMMA HashStays ==
  ASSUME TypeInv, GroupInv, SeenInv, HashInv, Next, NEW d \in Devices,
         keys'[d] = keys[d], seen'[d] = seen[d], kept'[d] = kept[d], file'[d] = file[d]
  PROVE  HashAt(d)'
<1> USE DEF GroupInv
<1> SUFFICES ASSUME NEW g, g = keys[d], g # 0, seen[d] = <<g, groups'[g].version>>
             PROVE  \A k \in Keys \ kept[d] : file[d].hashes[k] \in {None, groups'[g].entries[k].v}
  BY DEF HashAt
<1>1. /\ g \in Groups /\ g <= made /\ seen[d][1] = g /\ seen[d][2] = groups'[g].version
      /\ seen[d][2] \in Nat /\ groups[g].version \in Nat
  BY TypeFacts DEF Empty
<1>2. seen[d][2] > 0 /\ (seen[d][2] <= groups[g].version \/ Dropped(g))
  BY <1>1 DEF SeenInv
<1>3. groups'[g] = groups[g]
  <2>1. ASSUME NEW h \in Groups, GroupExpires(h) PROVE groups'[g] = groups[g]
    <3>1. groups' = [groups EXCEPT ![h] = NoGroup]
      BY <2>1 DEF GroupExpires
    <3>2. h # g
      BY <1>1, <1>2, <3>1 DEF NoGroup, TypeInv, Types
    <3> QED BY <1>1, <3>1, <3>2 DEF TypeInv, Types
  <2>2. ASSUME NEW e \in Devices, MadeGroup(e) PROVE groups'[g] = groups[g]
    BY <1>1, <2>2, TypeFacts DEF MadeGroup, Others
  <2>3. ASSUME NEW e \in Devices, StoredBy(e) \/ ClosedBy(e) PROVE groups'[g] = groups[g]
    <3>1. /\ round[e].pc \in {"store", "close"} /\ keys[e] = round[e].g /\ Others(round[e].g)
          /\ groups'[round[e].g].version = groups[round[e].g].version + 1
      BY <2>3 DEF StoredBy, ClosedBy, Current
    <3>2. keys[e] # g
      <4> SUFFICES ASSUME keys[e] = g PROVE FALSE
        OBVIOUS
      <4>1. groups'[g].version = groups[g].version + 1
        BY <3>1
      <4>2. ~Dropped(g)
        BY <3>1 DEF Dropped
      <4> QED BY <1>1, <1>2, <4>1, <4>2
    <3> QED BY <1>1, <3>1, <3>2 DEF Others
  <2>4. ASSUME NEW e \in Devices,
               \/ Same \/ SavedBy(e) \/ FollowedBy(e) \/ LeftBy(e) \/ CreatesGroup(e)
               \/ \E h \in Groups : Joins(e, h)
        PROVE  groups'[g] = groups[g]
    BY <2>4 DEF Same, SavedBy, FollowedBy, LeftBy, CreatesGroup, Joins
  <2> QED BY <2>1, <2>2, <2>3, <2>4, StepKinds
<1> QED BY <1>3 DEF HashInv, HashAt

\* A device of another group than the one it last saw has noted nothing of it.
LEMMA HashElsewhere ==
  ASSUME NEW d \in Devices, keys'[d] = 0 \/ seen'[d][1] # keys'[d] PROVE HashAt(d)'
  BY DEF HashAt

LEMMA HashKept ==
  ASSUME TypeInv, ReadInv, HashInv, NEW d \in Devices, RoundKeeps(d) PROVE HashAt(d)'
<1> DEFINE r == round[d]
           listed == {k \in r.incoming \ r.failed : r.merged[k] # NoEntry}
           st == [r.st EXCEPT !.hashes = TakenOver(r, listed), !.drop = @ \ listed,
                              !.adopt = @ /\ r.failed # {}]
<1>1. /\ r \in RoundType /\ r.pc = "applied" /\ r.st \in FileType
      /\ UNCHANGED <<groups, keys, seen, kept>>
  BY DEF RoundKeeps, TypeInv, Types, RoundType, histVars
<1>2. Copy(d) /\ r.g = keys[d]
  BY <1>1 DEF ReadInv, AtWork, TypeInv, RoundFits, Fits
<1>3. file' = file \/ file' = [file EXCEPT ![d] = st]
  BY DEF RoundKeeps
<1>4. file'[d].hashes \in {file[d].hashes, TakenOver(r, listed)}
  <2>1. st.hashes = TakenOver(r, listed)
    BY <1>1 DEF FileType
  <2> HIDE DEF st
  <2> QED BY <1>3, <2>1 DEF TypeInv, Types
<1> SUFFICES ASSUME NEW g, g = keys[d], g # 0, seen[d] = <<g, groups[g].version>>,
                    NEW k \in Keys \ kept[d]
             PROVE  file'[d].hashes[k] \in {None, groups[g].entries[k].v}
  BY <1>1 DEF HashAt
<1>5. file[d].hashes[k] \in {None, groups[g].entries[k].v} /\ r.st = file[d]
  BY <1>1, <1>2 DEF HashInv, HashAt, Copy
<1>6. r.remote = groups[g].entries
  <2>1. groups[g].version \in Nat /\ r.version \in Nat /\ seen[d][2] = groups[g].version
    BY <1>1, TypeFacts DEF RoundType
  <2>2. r.version = groups[g].version
    BY <1>2, <2>1 DEF Copy
  <2> QED BY <1>1, <1>2, <2>2 DEF Copy
<1>7. k \in listed => r.merged[k].v = groups[g].entries[k].v
  BY <1>1, <1>2, <1>6 DEF Copy
<1>8. TakenOver(r, listed)[k] \in {None, groups[g].entries[k].v}
  BY <1>5, <1>6, <1>7 DEF TakenOver
<1> QED BY <1>4, <1>5, <1>8

LEMMA HashSaved ==
  ASSUME TypeInv, ReadInv, NEW d \in Devices, RoundSaves(d) PROVE HashAt(d)'
<1> DEFINE r == round[d]
<1>1. /\ r \in RoundType /\ r.pc = "save" /\ UNCHANGED <<groups, keys>>
      /\ file'[d].hashes = [k \in Keys |-> SavedHash(d, r, k)]
      /\ kept'[d] = r.failed /\ seen'[d] = <<r.g, r.version>>
  BY DEF RoundSaves, TypeInv, Types
<1>2. Copy(d) /\ r.g = keys[d]
  BY <1>1 DEF ReadInv, AtWork, TypeInv, RoundFits, Fits
<1> SUFFICES ASSUME NEW g, g = keys[d], r.version = groups[g].version, NEW k \in Keys \ r.failed
             PROVE  SavedHash(d, r, k) \in {None, groups[g].entries[k].v}
  BY <1>1 DEF HashAt
<1>3. r.merged = groups[g].entries
  BY <1>1, <1>2 DEF Copy
<1> QED BY <1>3 DEF SavedHash

LEMMA HashNew ==
  ASSUME TypeInv, NEW d \in Devices, CreatesGroup(d) \/ \E g \in Groups : Joins(d, g)
  PROVE  HashAt(d)'
<1>1. file'[d] \in {NewState, [NewState EXCEPT !.adopt = TRUE]}
  BY DEF CreatesGroup, Joins, TypeInv, Types
<1>2. file'[d].hashes = NoHashes
  BY <1>1 DEF NewState
<1>3. \A k \in Keys : file'[d].hashes[k] = None
  BY <1>2 DEF NoHashes
<1> QED BY <1>3 DEF HashAt

LEMMA HashStep ==
  ASSUME TypeInv, GroupInv, ReadInv, SeenInv, HashInv, Next PROVE HashInv'
<1> SUFFICES ASSUME NEW d \in Devices PROVE HashAt(d)'
  BY DEF HashInv
<1>1. ASSUME NEW g \in Groups, GroupExpires(g) PROVE HashAt(d)'
  <2>1. UNCHANGED <<keys, file, seen, kept>>
    BY <1>1 DEF GroupExpires, histVars
  <2> QED BY <2>1, HashStays
<1>2. ASSUME NEW e \in Devices, DeviceStep(e), e # d PROVE HashAt(d)'
  BY <1>2, OneDevice, HashStays DEF Alone
<1>3. ASSUME FollowedBy(d) PROVE HashAt(d)'
  <2>1. /\ keys'[d] = groups[keys[d]].moved /\ seen'[d] = seen[d] /\ keys[d] \in Groups
        /\ groups[keys[d]].moved # 0
    BY <1>3 DEF FollowedBy, Closed, TypeInv, Types
  <2>2. seen[d][1] <= keys[d] /\ keys'[d] > keys[d]
    BY <2>1, TypeFacts DEF GroupInv, SeenBefore, MovesUp
  <2> QED BY <2>1, <2>2, TypeFacts, HashElsewhere
<1>4. ASSUME RemoveCloses(d) PROVE HashAt(d)'
  <2>1. /\ UNCHANGED <<seen, kept>> /\ round[d].pc = "close"
        /\ UNCHANGED <<keys, file>> \/ keys'[d] = 0 \/ keys'[d] = round[d].next
    BY <1>4 DEF RemoveCloses, Removed, Forget, TypeInv, Types, histVars
  <2>2. seen[d][1] <= keys[d] /\ round[d].next > keys[d]
    BY <2>1, MakingApart, TypeFacts DEF GroupInv, SeenBefore, MadeBy
  <2>3. CASE keys'[d] = 0 \/ keys'[d] = round[d].next
    BY <2>1, <2>2, <2>3, TypeFacts, HashElsewhere
  <2> QED BY <2>1, <2>3, HashStays
<1>5. ASSUME Follows(d) \/ GroupGone(d) \/ RemoveFollows(d) PROVE HashAt(d)'
  <2>1. CASE FollowedBy(d)
    BY <1>3, <2>1
  <2>2. CASE LeftBy(d)
    BY <2>2, HashElsewhere DEF LeftBy, TypeInv, Types
  <2>3. CASE Same /\ UNCHANGED file
    BY <1>5, <2>3, HashStays DEF Same, Follows, GroupGone, RemoveFollows, histVars
  <2> QED BY <1>5, <2>1, <2>2, <2>3, MovedEffect
<1>6. ASSUME RoundSteps(d) PROVE HashAt(d)'
  <2>1. CASE RoundReads(d) \/ RoundMerges(d) \/ RoundApplies(d) \/ RoundStores(d)
             \/ RemoveGivesUp(d) \/ RemoveMakesGroup(d)
    BY <2>1, HashStays
       DEF RoundReads, RoundMerges, RoundApplies, RoundStores, RemoveGivesUp, RemoveMakesGroup,
           histVars
  <2> QED BY <1>4, <1>5, <1>6, <2>1, HashKept, HashSaved DEF RoundSteps
<1>7. ASSUME \/ RoundFails(d) \/ NotifySteps(d) \/ Restarts(d)
             \/ \E k \in Keys : \E v \in ValuesOf(k) : Edit(d, k, v)
             \/ \E x \in Devices : RemoveBegins(d, x)
      PROVE  HashAt(d)'
  BY <1>7, HashStays DEF RoundFails, NotifySteps, NotifyReads, NotifyNotes, NotifyWrites, Restarts,
                         Edit, RemoveBegins, histVars
<1> QED BY <1>1, <1>2, <1>6, <1>7, HashNew DEF Next, DeviceStep

LEMMA SyncInit == Init => SyncInv
<1> SUFFICES ASSUME Init PROVE SyncInv
  OBVIOUS
<1>1. \A d \in Devices : round[d] = NoRound /\ keys[d] = 0 /\ seen[d] = <<0, 0>>
  BY DEF Init
<1>2. \A g \in Groups : groups[g].moved = 0
  BY DEF Init, NoGroup
<1>3. RowsInv /\ ReadInv /\ SeenInv /\ HashInv
  BY <1>1, <1>2 DEF RowsInv, NotGone, SealedRows, ReadInv, AtWork, NoRound, SeenInv, HashInv, HashAt
<1> QED BY <1>3, GroupInit DEF SyncInv

LEMMA SyncStep ==
  ASSUME TypeInv, SyncInv, NoRevival, [Next]_vars PROVE SyncInv'
<1>1. CASE Next
  BY <1>1, GroupStep, RowsStep, ReadStep, SeenStep, HashStep DEF SyncInv
<1>2. CASE UNCHANGED vars
  <2>1. UNCHANGED <<made, groups, keys, file, round, seen, kept>>
    BY <1>2 DEF vars, histVars
  <2>2. GroupInv'
    BY <2>1 DEF SyncInv, GroupInv, NoRemoval, Targets, Empty, MadeByRemoval, MadeBy, MovesUp,
                OneChain, Chain, SeenBefore
  <2>3. RowsInv' /\ HashInv'
    BY <2>1 DEF SyncInv, RowsInv, NotGone, SealedRows, HashInv, HashAt
  <2>4. ReadInv' /\ SeenInv'
    BY <2>1 DEF SyncInv, ReadInv, Copy, SeenInv, Dropped
  <2> QED BY <2>2, <2>3, <2>4 DEF SyncInv
<1> QED BY <1>1, <1>2

-----------------------------------------------------------------------------
\* Every value of a setting, a record of a change, a copy of a group and a file is one the code
\* can have written there, and a round that waits is not half-way in a group (syncLocked, step).
THEOREM TypesAlways == Spec => []TypeInv
<1>1. Init => TypeInv
  BY TypesInit
<1>2. TypeInv /\ [Next]_vars => TypeInv'
  BY TypesStep
<1> QED BY <1>1, <1>2, PTL DEF Spec

\* The inductive invariant: the chain of the groups, who is in their lists, what a round has read
\* and what sync.json says of the version last seen (syncLocked, step, Remove, the relay's writes).
THEOREM SyncInvAlways == NoRevival => (Spec => []SyncInv)
<1> SUFFICES ASSUME NoRevival PROVE Spec => []SyncInv
  OBVIOUS
<1>1. Init => SyncInv
  BY SyncInit
<1>2. TypeInv /\ SyncInv /\ [Next]_vars => SyncInv'
  BY SyncStep
<1> QED BY <1>1, <1>2, TypesAlways, PTL DEF Spec

\* What a device and its group agree on according to sync.json is the same on both after a round
\* that saw the group's last version (saveState at the end of step, engine.go).
THEOREM InStepAlways == NoRevival => (Spec => []InStep)
<1> SUFFICES ASSUME NoRevival PROVE Spec => []InStep
  OBVIOUS
<1>1. TypeInv /\ SyncInv => InStep
  <2> SUFFICES ASSUME TypeInv, SyncInv, NEW d \in Devices,
                      keys[d] # 0, seen[d] = <<keys[d], groups[keys[d]].version>>,
                      NEW k \in Keys \ kept[d], local[d][k] = file[d].hashes[k]
               PROVE  groups[keys[d]].entries[k].v = local[d][k]
    BY DEF InStep
  <2>1. local[d][k] # None
    BY NoneIsNoValue DEF TypeInv, Types
  <2>2. file[d].hashes[k] \in {None, groups[keys[d]].entries[k].v}
    BY DEF SyncInv, HashInv, HashAt
  <2> QED BY <2>1, <2>2
<1> QED BY <1>1, TypesAlways, SyncInvAlways, PTL

\* A device in a group's list is turned off only when it was removed from it or the relay dropped
\* the group (forget, called where the group moved on without the device, is gone, or the device
\* removed itself).
THEOREM KeepsItsPlaceAlways == NoRevival => (Spec => KeepsItsPlace)
<1> SUFFICES ASSUME NoRevival PROVE Spec => KeepsItsPlace
  OBVIOUS
<1> DEFINE Keeps(d) ==
              LET g == keys[d] IN
              g # 0 /\ keys'[d] = 0 =>
                 \/ groups[g].rows[d] # "here" \/ groups'[g].version = 0
                 \/ LET next == groups[groups'[g].moved]
                    IN groups'[g].moved # 0 /\ (next.rows[d] = "gone" \/ next.version = 0)
<1>1. TypeInv /\ SyncInv /\ [Next]_vars => [\A d \in Devices : Keeps(d)]_vars
  <2> SUFFICES ASSUME TypeInv, SyncInv, Next, NEW d \in Devices, keys[d] # 0, keys'[d] = 0
               PROVE  Keeps(d)
    OBVIOUS
  <2>1. LeftBy(d) \/ (ClosedBy(d) /\ round[d].target = d)
    <3>1. keys'[d] # keys[d]
      OBVIOUS
    <3>2. PICK e \in Devices : FollowedBy(e) \/ LeftBy(e) \/ ClosedBy(e) \/ CreatesGroup(e)
                              \/ \E g \in Groups : Joins(e, g)
      BY <3>1, StepKinds DEF SyncInv, Same, StoredBy, SavedBy, MadeGroup, GroupExpires
    <3>3. e = d
      BY <3>1, <3>2
         DEF FollowedBy, LeftBy, ClosedBy, CreatesGroup, Joins, TypeInv, Types
    <3>4. ~CreatesGroup(d) /\ ~\E g \in Groups : Joins(d, g)
      BY DEF CreatesGroup, Joins
    <3>5. ~FollowedBy(d)
      BY DEF FollowedBy, Closed, TypeInv, Types
    <3>6. ClosedBy(d) => round[d].target = d
      <4> SUFFICES ASSUME ClosedBy(d), round[d].target # d PROVE FALSE
        OBVIOUS
      <4>1. round[d].next # 0
        BY MakingApart, TypeFacts DEF ClosedBy, SyncInv, GroupInv
      <4> QED BY <4>1 DEF ClosedBy, TypeInv, Types
    <3> QED BY <3>2, <3>3, <3>4, <3>5, <3>6
  <2>2. CASE LeftBy(d)
    <3>1. groups' = groups /\ keys[d] \in Groups
      BY <2>2 DEF LeftBy
    <3> QED BY <2>2, <3>1 DEF LeftBy, Closed, SyncInv, RowsInv, SealedRows
  <2>3. CASE ClosedBy(d) /\ round[d].target = d
    <3> DEFINE r == round[d]
    <3>1. r.pc = "close" /\ keys[d] = r.g /\ groups'[r.g].moved = r.next
      BY <2>3 DEF ClosedBy
    <3>2. r.next # 0 /\ groups[r.next].rows = [r.rows EXCEPT ![d] = "gone"]
      BY <2>3, <3>1, MakingApart, TypeFacts DEF SyncInv, GroupInv, MadeBy
    <3>3. r.rows \in RowsType
      BY DEF TypeInv, Types, RoundType
    <3> QED BY <3>1, <3>2, <3>3 DEF RowsType
  <2> QED BY <2>1, <2>2, <2>3
<1>2. Spec => [][\A d \in Devices : Keeps(d)]_vars
  BY <1>1, TypesAlways, SyncInvAlways, PTL DEF Spec
<1> QED BY <1>2 DEF KeepsItsPlace

=============================================================================
