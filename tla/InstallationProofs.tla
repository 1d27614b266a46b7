------------------------- MODULE InstallationProofs -------------------------
(***************************************************************************)
(* Safety of Installation, for every set of files, number of releases and  *)
(* of faults: what the updater put there is listed, a finished update is   *)
(* one whole release, and a removal brings no file back.  The inductive    *)
(* invariant InstallInv says what the list, the folder and the disk are at *)
(* each place of install, and that the removal and install exclude each    *)
(* other.                                                                  *)
(***************************************************************************)
EXTENDS InstallationProperties, TLAPS

-----------------------------------------------------------------------------
\* Where the core and the removal are.

\* What is on the disk is of a release that came out, and so is the running program.
KnownReleases ==
    /\ core.built \in 1..release /\ upd.r <= release
    /\ \A f \in Files : disk[f] <= release /\ \A i \in 1..Olds : aside[f][i] <= release

\* From the download to the commit the folder has the pending release, unless the removal
\* swept it: then nothing is installed from it.
Holding == {"stage", "got", "idle", "apply", "place", "swap", "drop", "commit"}
FolderIsRelease == core.pc \in Holding => upd.r > 0 /\ (removing \/ folder = Ships(upd.r))

\* The removal and an installation exclude each other, and a daemon that stops to start the
\* new program is not removed any more.
RemovalPcs == {"disconnect", "unregister", "delete", "sweep", "stop"}
RemovalAlone ==
    /\ removing => ~Applying
    /\ watch.pc \in RemovalPcs => removing /\ ~restart
    /\ restart => core.pc = "over" /\ stop
GoneForGood ==
    /\ watch.pc = "watch" => watch.missing < 2
    /\ watch.pc = "gone" => pkg = "gone"
    /\ watch.pc \in {"delete", "sweep"} => ~unit

\* Once the files are gone no core starts again.
Absent(f) == disk[f] = 0 /\ \A i \in 1..Olds : aside[f][i] = 0
AllGone == commit = 0 => (\A f \in Files : Absent(f)) /\ ~unit /\ ~restart /\ (Running => removing)

\* What the updater put there is listed, and in the end in the folder's list alone.
MineListed == commit # 0 => mine \ Own \subseteq list
ListHasBoth ==
    core.pc \in {"place", "swap"} => list = upd.prev \cup folder /\ upd.todo \subseteq folder
MovedAside == core.pc = "swap" => upd.file \in upd.todo /\ upd.file \notin Own /\ upd.at \in 1..Olds
RestIsObsolete ==
    core.pc = "drop" =>
        upd.todo \cap (folder \cup Own) = {} /\ mine \ Own \subseteq folder \cup upd.todo
ListIsFolder == core.pc = "commit" => list = folder /\ mine \ Own \subseteq folder

\* What is placed is of the pending release.
PlacedIsNew ==
    core.pc \in {"place", "swap", "drop", "commit"} =>
        \A f \in folder :
            disk[f] = Content(f, upd.r) \/ (core.pc \in {"place", "swap"} /\ f \in upd.todo)

ReleaseInv == KnownReleases /\ FolderIsRelease
RemovalInv == RemovalAlone /\ GoneForGood /\ AllGone
ListInv == MineListed /\ ListHasBoth /\ MovedAside /\ RestIsObsolete /\ ListIsFolder
InstalledInv == PlacedIsNew /\ WholeRelease
InstallInv == ReleaseInv /\ RemovalInv /\ ListInv /\ InstalledInv

-----------------------------------------------------------------------------
(* Types. *)

USE InstallationAssumption DEF InstallationAssumption, Programs, Nowhere, Versions

CorePcs == {"off", "over", "wait", "check", "stage", "got", "idle", "apply", "place", "swap",
            "drop", "commit"}
WatchPcs == {"off", "watch", "gone", "disconnect", "unregister", "delete", "sweep", "stop"}

\* Every file a release ships is one of Files, and its content is a release's.
LEMMA ReleaseTypes ==
  /\ "exe" \in Files /\ "app" \in Files
  /\ \A r : Ships(r) \subseteq Files
  /\ \A f, r : r \in Versions => Content(f, r) \in Versions /\ (r > 0 => Content(f, r) > 0)
  /\ \A f, r, n : r \in Nat /\ n \in Nat \ {0} /\ r <= n => Content(f, r) <= n
  /\ \A p : FileOf(p) \in Files
BY DEF Files, Ships, Content, FileOf

Updates ==
    [r: Versions, todo: SUBSET Files, prev: SUBSET Files, file: Files, at: 0..Olds]

\* The variables of the updater, of the installed files, and of the rest.
CoreType ==
    /\ core \in [pc: CorePcs, built: Versions]
    /\ upd \in Updates
    /\ folder \subseteq Files
FileType ==
    /\ disk \in [Files -> Versions] /\ aside \in [Files -> [1..Olds -> Versions]]
    /\ list \subseteq Files /\ commit \in Versions
    /\ mine \subseteq Files /\ stuck \subseteq Files
SlotType == slot \in [Programs -> 0..Nowhere]
FlagType ==
    /\ stop \in BOOLEAN /\ restart \in BOOLEAN /\ removing \in BOOLEAN
    /\ auto \in BOOLEAN /\ used \in BOOLEAN /\ unit \in BOOLEAN
RestType ==
    /\ windows \in BOOLEAN /\ release \in 1..MaxRelease
    /\ FlagType
    /\ watch \in [pc: WatchPcs, missing: 0..2]
    /\ pkg \in {"there", "away", "gone"} /\ faults \in 0..MaxFaults /\ ends \in 0..MaxEnds

TypeInv == CoreType /\ FileType /\ SlotType /\ RestType

LEMMA IdleType == Idle \in Updates
BY ReleaseTypes DEF Idle, Updates

\* A pending release just unpacked, with other files to do, after a file is done, and with a
\* file moved aside.
LEMMA UpdTypes ==
  ASSUME upd \in Updates
  PROVE  /\ upd.r \in Versions /\ upd.todo \subseteq Files /\ upd.prev \subseteq Files
         /\ upd.file \in Files /\ upd.at \in 0..Olds
         /\ \A r \in Versions : [Idle EXCEPT !.r = r] \in Updates
         /\ \A T, P \in SUBSET Files :
               /\ [upd EXCEPT !.todo = T] \in Updates
               /\ [upd EXCEPT !.todo = T, !.prev = P] \in Updates
<1>1. ASSUME NEW r \in Versions PROVE [Idle EXCEPT !.r = r] \in Updates
  BY <1>1, ReleaseTypes DEF Idle, Updates
<1>2. ASSUME NEW T \in SUBSET Files, NEW P \in SUBSET Files
      PROVE  /\ [upd EXCEPT !.todo = T] \in Updates
             /\ [upd EXCEPT !.todo = T, !.prev = P] \in Updates
  BY <1>2 DEF Updates
<1> QED
  BY <1>1, <1>2 DEF Updates

LEMMA PlacedTypes ==
  ASSUME upd \in Updates, NEW f \in Files
  PROVE  /\ Placed(f) => upd' \in Updates
         /\ \A i \in 1..Olds : upd' = [upd EXCEPT !.file = f, !.at = i] => upd' \in Updates
<1>1. ASSUME Placed(f) PROVE upd' \in Updates
  <2>1. upd' = [r |-> upd.r, todo |-> upd.todo \ {f}, prev |-> upd.prev,
                 file |-> upd.file, at |-> 0]
    BY <1>1 DEF Placed, Updates
  <2> QED
    BY <2>1 DEF Updates
<1>2. ASSUME NEW i \in 1..Olds, upd' = [upd EXCEPT !.file = f, !.at = i] PROVE upd' \in Updates
  <2>1. upd' = [r |-> upd.r, todo |-> upd.todo, prev |-> upd.prev, file |-> f, at |-> i]
    BY <1>2 DEF Updates
  <2> QED
    BY <2>1 DEF Updates
<1> QED
  BY <1>1, <1>2

USE DEF TypeInv, CoreType, FileType, SlotType

LEMMA InitType == Init => TypeInv
<1> SUFFICES ASSUME Init PROVE TypeInv
  OBVIOUS
<1>1. CoreType
  BY IdleType DEF Init, CoreType, CorePcs
<1>2. FileType
  <2>1. disk \in [Files -> Versions]
    BY ReleaseTypes DEF Init
  <2>2. aside \in [Files -> [1..Olds -> Versions]]
    BY DEF Init
  <2> QED
    BY <2>1, <2>2, ReleaseTypes DEF Init, FileType
<1>3. SlotType
  BY DEF Init, SlotType
<1>4. FlagType
  BY Zenon DEF Init, FlagType
<1>5. RestType
  BY <1>4 DEF Init, RestType, WatchPcs
<1> QED
  BY <1>1, <1>2, <1>3, <1>4, <1>5

\* A step of the core or the updater that sets only the place.
LEMMA RestTypeCore ==
  ASSUME CoreType, NEW q \in CorePcs, Rest(q), UNCHANGED <<folder, upd>>
  PROVE  CoreType'
BY DEF CoreType, Rest

LEMMA StartsType ==
  ASSUME TypeInv, NEW s \in [Programs -> 0..Nowhere], Starts(s)
  PROVE  /\ CoreType' /\ SlotType' /\ aside' \in [Files -> [1..Olds -> Versions]]
         /\ stop' = FALSE /\ restart' = FALSE /\ removing' = FALSE
         /\ watch' \in [pc: WatchPcs, missing: 0..2]
<1>1. CoreType'
  <2>1. disk["exe"] \in Versions
    BY ReleaseTypes, UpdTypes
  <2> QED
    BY <2>1, IdleType DEF Starts, CoreType, CorePcs
<1>2. SlotType'
  BY DEF Starts, SlotType
<1>3. aside' \in [Files -> [1..Olds -> Versions]]
  BY DEF Starts
<1>4. watch' \in [pc: WatchPcs, missing: 0..2]
  BY DEF Starts, WatchPcs
<1> QED
  BY <1>1, <1>2, <1>3, <1>4 DEF Starts

LEMMA EnvironmentType ==
  ASSUME TypeInv,
         Publish \/ Switch \/ Use \/ Window \/ Stop
           \/ \E p \in {"there", "away", "gone"} : Package(p)
  PROVE  TypeInv'
<1>1. CASE Publish
  BY <1>1 DEF Publish, CoreType, FileType, SlotType, RestType, FlagType, files, flags, conn, past
<1>2. CASE Switch \/ Use
  BY <1>2 DEF Switch, Use, RestType, FlagType, env, files, flags, conn, past
<1>3. CASE Window
  BY <1>3 DEF Window, RestType, FlagType, env, files, flags, conn, past
<1>4. CASE Stop
  BY <1>4 DEF Stop, CoreType, FileType, SlotType, RestType, FlagType, files, conn, past
<1>5. CASE \E p \in {"there", "away", "gone"} : Package(p)
  BY <1>5 DEF Package, CoreType, FileType, SlotType, RestType, FlagType, files, flags, conn, past
<1> QED
  BY <1>1, <1>2, <1>3, <1>4, <1>5

LEMMA LifeType ==
  ASSUME TypeInv, Start \/ Restart \/ End \/ Crash
  PROVE  TypeInv'
<1>1. CASE Start
  <2>1. slot \in [Programs -> 0..Nowhere]
    OBVIOUS
  <2>2. Starts(slot)
    BY <1>1 DEF Start
  <2> QED
    BY <1>1, <2>1, <2>2, StartsType
    DEF Start, FileType, RestType, FlagType, env, conn, past
<1>2. CASE Restart
  <2> DEFINE s == IF slot["supervisor"] = Nowhere
                  THEN [slot EXCEPT !["supervisor"] = slot["core"]] ELSE slot
  <2>1. s \in [Programs -> 0..Nowhere]
    OBVIOUS
  <2>2. Starts(s)
    BY <1>2 DEF Restart
  <2> HIDE DEF s
  <2> QED
    BY <1>2, <2>1, <2>2, StartsType
    DEF Restart, FileType, RestType, FlagType, env, past
<1>3. CASE End \/ Crash
  <2>1. Ended /\ ends' \in 0..MaxEnds
    BY <1>3 DEF End, Crash, RestType
  <2>2. CoreType'
    BY <2>1, IdleType DEF Ended, files, CoreType, CorePcs
  <2>3. SlotType'
    BY <2>1 DEF Ended, SlotType
  <2>4. FileType'
    BY <2>1 DEF Ended, files, past
  <2>5. FlagType'
    BY <2>1, Zenon DEF Ended, RestType, FlagType
  <2>6. RestType'
    BY <2>1, <2>5 DEF Ended, RestType, WatchPcs
  <2> QED
    BY <2>2, <2>3, <2>4, <2>6
<1> QED
  BY <1>1, <1>2, <1>3

\* The steps of autoUpdate and Check.
CheckStep ==
    \/ Wake \/ Leave \/ NoUpdate \/ Offline \/ Download \/ Staged \/ Damaged \/ Discard \/ Got
    \/ InstallWhenIdle

LEMMA CheckType ==
  ASSUME TypeInv, CheckStep
  PROVE  TypeInv'
<1>1. UNCHANGED updates
  BY DEF CheckStep, Wake, Leave, NoUpdate, Offline, Download, Staged, Damaged, Discard, Got,
     InstallWhenIdle
<1>2. FileType' /\ SlotType' /\ RestType'
  BY <1>1
  DEF FileType, SlotType, RestType, FlagType, updates, env, files, flags, conn, past
<1>3. CoreType'
  <2>1. CASE Wake \/ Leave \/ NoUpdate \/ Offline \/ Staged \/ Got \/ InstallWhenIdle
    BY <2>1 DEF Wake, Leave, NoUpdate, Offline, Staged, Got, InstallWhenIdle, Rest, CorePcs
  <2>2. CASE Download
    <3>1. upd' \in Updates
      <4>1. release \in Versions /\ upd' = [Idle EXCEPT !.r = release]
        BY <2>2 DEF Download, RestType
      <4> QED
        BY <4>1, UpdTypes
    <3> QED
      BY <2>2, <3>1, ReleaseTypes DEF Download, Rest, CoreType, CorePcs
  <2>3. CASE Damaged \/ Discard
    BY <2>3, IdleType DEF Damaged, Discard, Rest, CoreType, CorePcs
  <2> QED
    BY <2>1, <2>2, <2>3 DEF CheckStep
<1> QED
  BY <1>2, <1>3

LEMMA FailsType ==
  ASSUME CoreType, Fails
  PROVE  CoreType'
BY IdleType DEF Fails, Rest, CoreType, CorePcs

LEMMA AroundType ==
  ASSUME RestType, UNCHANGED around, faults' \in 0..MaxFaults
  PROVE  RestType'
BY DEF RestType, FlagType, around, env, flags, conn

LEMMA FaultType ==
  ASSUME RestType, Fault \/ UNCHANGED faults
  PROVE  faults' \in 0..MaxFaults
BY DEF RestType, FlagType, Fault

\* The steps of install.
PlaceStep == \E f \in Files : Skip(f) \/ Replace(f) \/ MoveAside(f) \/ Drop(f)
ApplyStep ==
    \/ WriteList \/ PlaceStep \/ Swap \/ SwapBack \/ InstallFails \/ AllPlaced \/ Relist
    \/ Applied \/ CommitFails

LEMMA PlaceType ==
  ASSUME TypeInv, NEW f \in Files, Skip(f) \/ Replace(f) \/ MoveAside(f) \/ Drop(f)
  PROVE  TypeInv'
<1>1. Content(f, upd.r) \in Versions
  BY ReleaseTypes, UpdTypes
<1>2. upd \in Updates
  OBVIOUS
<1>3. Placed(f) => upd' \in Updates
  BY <1>2, PlacedTypes
<1>4. CASE Skip(f)
  BY <1>3, <1>4 DEF Skip, RestType, FlagType, around, env, files, flags, conn, past
<1>5. CASE Replace(f)
  BY <1>1, <1>3, <1>5 DEF Replace, Renamed, RestType, FlagType, around, env, flags, conn
<1>6. CASE MoveAside(f)
  <2> PICK i \in Candidates(f) :
        /\ aside' = [aside EXCEPT ![f][i] = disk[f]]
        /\ upd' = [upd EXCEPT !.file = f, !.at = i]
        /\ slot' = [p \in Programs |-> IF FileOf(p) = f /\ slot[p] = 0 THEN i ELSE slot[p]]
    BY <1>6 DEF MoveAside
  <2>1. i \in 1..Olds
    BY DEF Candidates
  <2>2. upd' \in Updates
    BY <1>2, <2>1, PlacedTypes
  <2>3. CoreType'
    BY <1>6, <2>2 DEF MoveAside, Rest, CoreType, CorePcs
  <2>4. SlotType'
    BY <2>1 DEF SlotType
  <2>5. aside' \in [Files -> [1..Olds -> Versions]]
    BY <2>1
  <2>6. disk' \in [Files -> Versions]
    <3>1. disk' = [disk EXCEPT ![f] = 0]
      BY <1>6 DEF MoveAside
    <3> QED
      BY <3>1
  <2>8. FileType'
    BY <1>6, <2>5, <2>6 DEF MoveAside, past
  <2>7. RestType'
    BY <1>6, FaultType, AroundType DEF MoveAside
  <2> QED
    BY <2>3, <2>4, <2>7, <2>8
<1>7. CASE Drop(f)
  <2>1. CoreType' /\ SlotType'
    BY <1>2, <1>7, UpdTypes DEF Drop
  <2>2. FileType'
    BY <1>7 DEF Drop, FileType
  <2>3. RestType'
    BY <1>7, FaultType, AroundType DEF Drop
  <2> QED
    BY <2>1, <2>2, <2>3
<1> QED
  BY <1>4, <1>5, <1>6, <1>7

LEMMA ApplyType ==
  ASSUME TypeInv, InstallInv, ApplyStep
  PROVE  TypeInv'
<1>1. CASE WriteList \/ AllPlaced \/ Relist
  <2>1. folder' \subseteq Files
    BY <1>1 DEF WriteList, AllPlaced, Relist, Fails
  <2>4. core' \in [pc: CorePcs, built: Versions]
    BY <1>1 DEF WriteList, AllPlaced, Relist, Fails, Rest, CorePcs
  <2>5. upd' \in Updates
    <3>1. upd' \in {Idle, upd, [upd EXCEPT !.todo = folder, !.prev = list],
                     [upd EXCEPT !.todo = Obsolete]}
      BY <1>1 DEF WriteList, AllPlaced, Relist, Fails
    <3>2. Obsolete \subseteq Files
      BY UpdTypes DEF Obsolete
    <3> QED
      <4>1. [upd EXCEPT !.todo = Obsolete] \in Updates
        BY <3>2, UpdTypes
      <4>2. [upd EXCEPT !.todo = folder, !.prev = list] \in Updates
        BY UpdTypes
      <4> QED
        BY <3>1, <4>1, <4>2, IdleType
  <2>2. FileType' /\ SlotType'
    BY <1>1 DEF WriteList, AllPlaced, Relist, FileType, SlotType, CoreType, files, past
  <2>3. RestType'
    BY <1>1, FaultType, AroundType DEF WriteList, AllPlaced, Relist
  <2> QED
    BY <2>1, <2>2, <2>3, <2>4, <2>5
<1>2. CASE PlaceStep
  BY <1>2, PlaceType DEF PlaceStep
<1>3. CASE Swap \/ SwapBack
  <2>1. core.pc = "swap" /\ upd.file \in Files /\ upd.at \in 1..Olds
    BY <1>3, UpdTypes, ReleaseTypes DEF Swap, SwapBack, InstallInv, ListInv, MovedAside
  <2>2. Content(upd.file, upd.r) \in Versions
    BY ReleaseTypes, UpdTypes
  <2>3. CoreType'
    BY <1>3, <2>1, FailsType, PlacedTypes DEF Swap, SwapBack, Renamed, Rest, CorePcs
  <2>4. SlotType'
    BY <1>3 DEF Swap, SwapBack, SlotType
  <2> DEFINE f == upd.file  i == upd.at
  <2>5. aside' \in [Files -> [1..Olds -> Versions]]
    <3>1. aside' \in {aside, [aside EXCEPT ![f][i] = 0]}
      BY <1>3 DEF Swap, SwapBack
    <3> QED
      <4>1. CASE aside' = aside
        BY <4>1
      <4>2. CASE aside' = [aside EXCEPT ![f][i] = 0]
        BY <2>1, <4>2
      <4> QED
        BY <3>1, <4>1, <4>2
  <2>6. disk' \in [Files -> Versions]
    <3>1. disk' \in {[disk EXCEPT ![f] = Content(f, upd.r)], [disk EXCEPT ![f] = aside[f][i]]}
      BY <1>3 DEF Swap, SwapBack, Renamed
    <3> QED
      <4>1. aside[f][i] \in Versions
        BY <2>1
      <4>2. \A c \in Versions : [disk EXCEPT ![f] = c] \in [Files -> Versions]
        BY <2>1
      <4> QED
        BY <2>2, <3>1, <4>1, <4>2
  <2>7. FileType'
    BY <1>3, <2>1, <2>5, <2>6 DEF Swap, SwapBack, Renamed, FileType, past
  <2>8. RestType'
    BY <1>3, FaultType, AroundType DEF Swap, SwapBack
  <2> QED
    BY <2>3, <2>4, <2>7, <2>8
<1>4. CASE InstallFails \/ CommitFails
  <2>1. CoreType'
    BY <1>4, FailsType DEF InstallFails, CommitFails
  <2>2. FileType' /\ SlotType'
    BY <1>4 DEF InstallFails, CommitFails, FileType, SlotType, files, past
  <2>3. RestType'
    BY <1>4, FaultType, AroundType DEF InstallFails, CommitFails
  <2> QED
    BY <2>1, <2>2, <2>3
<1>5. CASE Applied
  <2>1. CoreType'
    BY <1>5, IdleType DEF Applied, Rest, CoreType, CorePcs
  <2>2. FileType' /\ SlotType'
    BY <1>5, UpdTypes, ReleaseTypes DEF Applied, past
  <2>3. FlagType'
    BY <1>5, Zenon DEF Applied, RestType, FlagType, conn
  <2>4. RestType'
    BY <1>5, <2>3 DEF Applied, RestType, env
  <2> QED
    BY <2>1, <2>2, <2>4
<1> QED
  BY <1>1, <1>2, <1>3, <1>4, <1>5 DEF ApplyStep

LEMMA RemovingType ==
  ASSUME TypeInv, InstallInv, Removing
  PROVE  TypeInv'
<1>1. UNCHANGED updater
  BY DEF Removing, Look, Mark, Disconnect, Unregister, Delete, Sweep, StopItself
<1>2. FlagType'
  <2>1. CASE Look \/ Disconnect \/ Delete \/ Sweep
    BY <1>1, <2>1, Zenon DEF Look, Disconnect, Delete, Sweep, updater, flags, RestType, FlagType
  <2>2. CASE Mark \/ StopItself
    BY <1>1, <2>2, Zenon DEF Mark, StopItself, updater, RestType, FlagType
  <2>3. CASE Unregister
    BY <1>1, <2>3, Zenon DEF Unregister, updater, flags, RestType, FlagType
  <2> QED
    BY <2>1, <2>2, <2>3 DEF Removing
<1>3. faults' \in 0..MaxFaults
  BY FaultType DEF Removing, Look, Mark, Disconnect, Unregister, Delete, Sweep, StopItself
<1>4. watch' \in [pc: WatchPcs, missing: 0..2]
  <2>1. CASE Look
    <3> DEFINE n == IF PackageGone THEN watch.missing + 1 ELSE 0
    <3>1. n \in 0..2
      BY <2>1 DEF Look, RestType, InstallInv, RemovalInv, GoneForGood
    <3>2. watch' = [pc |-> IF n >= 2 THEN "gone" ELSE "watch", missing |-> n]
      BY <2>1 DEF Look
    <3> HIDE DEF n
    <3> QED
      BY <3>1, <3>2 DEF WatchPcs
  <2>2. CASE ~Look
    BY <2>2 DEF Removing, Mark, Disconnect, Unregister, Delete, Sweep, StopItself, Watches,
       RestType, WatchPcs
  <2> QED
    BY <2>1, <2>2
<1>5. RestType'
  BY <1>1, <1>2, <1>3, <1>4 DEF RestType, updater, env
<1>6. folder' \subseteq Files
  BY DEF Removing, Look, Mark, Disconnect, Unregister, Delete, Sweep, StopItself
<1>7. CoreType' /\ SlotType'
  BY <1>1, <1>6 DEF updater
<1>8. CASE Delete
  BY <1>1, <1>5, <1>7, <1>8 DEF Delete, updater, past
<1>9. CASE ~Delete
  BY <1>1, <1>5, <1>7, <1>9
  DEF Removing, Look, Mark, Disconnect, Unregister, Sweep, StopItself, updater, files, past
<1> QED
  BY <1>8, <1>9

-----------------------------------------------------------------------------
(* Initial states and what leaves the files alone. *)

LEMMA InitInv == Init => InstallInv
<1> SUFFICES ASSUME Init PROVE InstallInv
  OBVIOUS
<1>1. \A f \in Files : disk[f] \in {0, 1} /\ \A i \in 1..Olds : aside[f][i] = 0
  BY DEF Init, Content
<1>2. ReleaseInv
  BY <1>1 DEF Init, Idle, ReleaseInv, KnownReleases, FolderIsRelease, Holding
<1>3. RemovalInv
  BY DEF Init, RemovalInv, RemovalAlone, GoneForGood, AllGone, RemovalPcs, Applying
<1>4. ListInv
  BY DEF Init, ListInv, MineListed, ListHasBoth, MovedAside, RestIsObsolete, ListIsFolder
<1>5. InstalledInv
  <2>1. ASSUME NEW f \in Own PROVE disk[f] = 1
    BY <2>1 DEF Init, Files, Ships, Content
  <2> QED
    BY <2>1 DEF Init, InstalledInv, PlacedIsNew, WholeRelease
<1> QED
  BY <1>2, <1>3, <1>4, <1>5 DEF InstallInv

\* A step of the system, or of the core before and after install, changes no installed file.
FilesStay == UNCHANGED <<disk, list, commit, mine>>
AsideGoes ==
    \A f \in Files : \A i \in 1..Olds : aside'[f][i] \in {0, aside[f][i]}

\* With the files the rest of the invariant stays for a step outside install.
LEMMA OutsideInv ==
  ASSUME TypeInv, InstallInv, FilesStay, core'.pc \notin {"place", "swap", "drop", "commit"},
         restart' => restart
  PROVE  ListInv' /\ InstalledInv'
<1>1. ListInv'
  BY DEF InstallInv, ListInv, MineListed, ListHasBoth, MovedAside, RestIsObsolete, ListIsFolder,
     FilesStay
<1>2. InstalledInv'
  BY DEF InstallInv, InstalledInv, PlacedIsNew, WholeRelease, RemovalInv, RemovalAlone, FilesStay
<1> QED
  BY <1>1, <1>2

LEMMA EnvironmentInv ==
  ASSUME TypeInv, InstallInv,
         Publish \/ Switch \/ Use \/ Window \/ Stop
           \/ \E p \in {"there", "away", "gone"} : Package(p)
  PROVE  InstallInv'
<1>1. UNCHANGED <<files, folder, core, upd, restart, removing, watch, unit, past>>
  BY DEF Publish, Switch, Use, Window, Stop, Package, flags
<1>2. release' \in {release, release + 1} /\ (stop => stop') /\ (pkg = "gone" => pkg' = "gone")
  BY DEF Publish, Switch, Use, Window, Stop, Package, env, flags
<1>3. ReleaseInv'
  <2>1. KnownReleases'
    <3>1. ASSUME NEW n \in Nat, n <= release PROVE n <= release'
      BY <1>2, <3>1 DEF RestType
    <3>2. upd.r \in Nat /\ core.built \in Nat /\ release \in Nat
      <4>1. upd.r \in Versions
        BY UpdTypes
      <4>2. core.built \in Versions
        OBVIOUS
      <4> QED
        BY <4>1, <4>2 DEF RestType
    <3>3. core.built \in 1..release'
      BY <1>2, <3>2 DEF InstallInv, ReleaseInv, KnownReleases
    <3>4. \A f \in Files : disk[f] \in Nat /\ \A i \in 1..Olds : aside[f][i] \in Nat
      OBVIOUS
    <3> QED
      BY <1>1, <3>1, <3>2, <3>3, <3>4 DEF InstallInv, ReleaseInv, KnownReleases, files
  <2>2. FolderIsRelease'
    BY <1>1 DEF InstallInv, ReleaseInv, FolderIsRelease
  <2> QED
    BY <2>1, <2>2 DEF ReleaseInv
<1>4. RemovalInv'
  BY <1>1, <1>2
  DEF InstallInv, RemovalInv, RemovalAlone, GoneForGood, AllGone, Absent, Applying, Running, files
<1>5. ListInv' /\ InstalledInv'
  BY <1>1
  DEF InstallInv, ListInv, MineListed, ListHasBoth, MovedAside, RestIsObsolete, ListIsFolder,
     InstalledInv, PlacedIsNew, WholeRelease, files, past
<1> QED
  BY <1>3, <1>4, <1>5 DEF InstallInv

LEMMA LifeInv ==
  ASSUME TypeInv, InstallInv, Start \/ Restart \/ End \/ Crash
  PROVE  InstallInv'
<1>1. FilesStay /\ release' = release /\ unit' = unit /\ pkg' = pkg
  BY DEF Start, Restart, End, Crash, Ended, FilesStay, files, past, env
<1>2. core'.pc \in {"off", "wait"} /\ core'.built \in {core.built, disk["exe"]} /\ upd' = Idle
  BY DEF Start, Restart, End, Crash, Ended, Starts
<1>3. restart' = FALSE /\ removing' = FALSE /\ watch'.pc \in {"off", "watch"} /\ watch'.missing = 0
  BY DEF Start, Restart, End, Crash, Ended, Starts
<1>4. AsideGoes
  BY DEF Start, Restart, End, Crash, Ended, Starts, AsideGoes, files
<1>5. core'.built \in 1..release
  <2>1. CASE Start \/ Restart
    <3>1. disk["exe"] # 0 /\ core'.built = disk["exe"]
      BY <2>1 DEF Start, Restart, Starts
    <3> QED
      BY <3>1, ReleaseTypes DEF InstallInv, ReleaseInv, KnownReleases
  <2>2. CASE End \/ Crash
    BY <2>2 DEF End, Crash, Ended, InstallInv, ReleaseInv, KnownReleases
  <2> QED
    BY <2>1, <2>2
<1>6. ReleaseInv'
  <2>1. \A f \in Files : disk[f] \in Nat /\ \A i \in 1..Olds : aside[f][i] \in Nat
    OBVIOUS
  <2>2. \A f \in Files : disk'[f] <= release' /\ \A i \in 1..Olds : aside'[f][i] <= release'
    <3>1. release' = release /\ release >= 0 /\ disk' = disk
      BY <1>1 DEF FilesStay, RestType
    <3>2. ASSUME NEW f \in Files PROVE disk[f] <= release
      BY DEF InstallInv, ReleaseInv, KnownReleases
    <3>3. ASSUME NEW f \in Files, NEW i \in 1..Olds PROVE aside'[f][i] <= release
      <4>1. aside[f][i] <= release /\ aside'[f][i] \in {0, aside[f][i]}
        BY <1>4 DEF AsideGoes, InstallInv, ReleaseInv, KnownReleases
      <4> QED
        BY <3>1, <4>1
    <3> QED
      BY <3>1, <3>2, <3>3
  <2>3. upd'.r = 0 /\ release' >= 0 /\ core'.pc \notin Holding
    BY <1>1, <1>2 DEF Idle, Holding, RestType
  <2> QED
    BY <1>1, <1>5, <2>2, <2>3 DEF ReleaseInv, KnownReleases, FolderIsRelease
<1>7. RemovalInv'
  <2>1. commit = 0 => core'.pc = "off"
    BY DEF Start, Restart, End, Crash, Ended, InstallInv, RemovalInv, AllGone
  <2> QED
    BY <1>1, <1>2, <1>3, <1>4, <2>1
    DEF InstallInv, RemovalInv, RemovalAlone, GoneForGood, AllGone, Absent, Applying, Running,
        RemovalPcs, FilesStay, AsideGoes
<1>8. ListInv' /\ InstalledInv'
  BY <1>1, <1>2, <1>3, OutsideInv
<1> QED
  BY <1>6, <1>7, <1>8 DEF InstallInv

LEMMA CheckInv ==
  ASSUME TypeInv, InstallInv, CheckStep
  PROVE  InstallInv'
<1>1. UNCHANGED updates
  BY DEF CheckStep, Wake, Leave, NoUpdate, Offline, Download, Staged, Damaged, Discard, Got,
     InstallWhenIdle
<1>2. /\ core.pc \in {"wait", "check", "stage", "got", "idle"}
      /\ core'.built = core.built
      /\ core'.pc \in {"over", "wait", "check", "stage", "got", "idle", "apply"}
      /\ core'.pc = "apply" => ~removing
  BY DEF CheckStep, Wake, Leave, NoUpdate, Offline, Download, Staged, Damaged, Discard, Got,
     InstallWhenIdle, Rest
<1>3. ReleaseInv'
  <2>1. CASE Download
    <3>1. upd'.r = release /\ folder' = Ships(release)
      BY <2>1 DEF Download, Idle
    <3> QED
      BY <1>1, <1>2, <3>1
      DEF InstallInv, ReleaseInv, KnownReleases, FolderIsRelease, RestType, updates, env, files
  <2>2. CASE ~Download
    <3>1. /\ \/ upd' = upd /\ folder' = folder
             \/ upd' = Idle /\ core'.pc \notin Holding
          /\ core'.pc \in Holding => core.pc \in Holding
      BY <2>2 DEF CheckStep, Wake, Leave, NoUpdate, Offline, Staged, Damaged, Discard, Got,
         InstallWhenIdle, Rest, Holding
    <3> QED
      BY <1>1, <1>2, <3>1
      DEF InstallInv, ReleaseInv, KnownReleases, FolderIsRelease, RestType, updates, env, files,
          flags, Idle
  <2> QED
    BY <2>1, <2>2
<1>4. RemovalInv'
  BY <1>1, <1>2
  DEF InstallInv, RemovalInv, RemovalAlone, GoneForGood, AllGone, Absent, Applying, Running,
      updates, env, files, flags
<1>5. FilesStay /\ restart' = restart
  BY <1>1 DEF updates, files, past, flags, FilesStay
<1>6. ListInv' /\ InstalledInv'
  BY <1>2, <1>5, OutsideInv
<1> QED
  BY <1>3, <1>4, <1>6 DEF InstallInv

-----------------------------------------------------------------------------
(* The steps of install.  None of them is taken while the installation is removed. *)

LEMMA ApplyFacts ==
  ASSUME TypeInv, InstallInv, Applying
  PROVE  /\ ~removing /\ ~restart /\ commit # 0
         /\ upd.r > 0 /\ folder = Ships(upd.r)
         /\ watch.pc \notin RemovalPcs
<1>1. Running /\ core.pc \in Holding /\ core.pc # "over"
  BY DEF Applying, Running, Holding, CorePcs
<1>2. ~removing /\ ~restart /\ watch.pc \notin RemovalPcs
  BY <1>1 DEF InstallInv, RemovalInv, RemovalAlone
<1>3. commit # 0
  BY <1>1, <1>2 DEF InstallInv, RemovalInv, AllGone
<1>4. upd.r > 0 /\ folder = Ships(upd.r)
  BY <1>1, <1>2 DEF InstallInv, ReleaseInv, FolderIsRelease
<1> QED
  BY <1>2, <1>3, <1>4

\* A step of install that leaves release and watcher alone, and stays with its folder or ends.
InstallStays ==
    /\ UNCHANGED <<release, removing, restart, watch, unit, pkg, commit>>
    /\ core'.built = core.built
    /\ \/ core'.pc \in Holding /\ upd'.r = upd.r /\ folder' = folder
       \/ core'.pc = "wait" /\ upd' = Idle

LEMMA InstallStaysInv ==
  ASSUME TypeInv, InstallInv, Applying, InstallStays,
         \A f \in Files : disk'[f] <= release /\ \A i \in 1..Olds : aside'[f][i] <= release
  PROVE  ReleaseInv' /\ RemovalInv'
<1>1. ReleaseInv'
  <2>1. upd'.r \in {0, upd.r} /\ release >= 0
    BY DEF InstallStays, Idle, RestType
  <2> QED
    BY <2>1, ApplyFacts
    DEF InstallStays, InstallInv, ReleaseInv, KnownReleases, FolderIsRelease, Holding
<1>2. RemovalInv'
  BY ApplyFacts
  DEF InstallStays, InstallInv, RemovalInv, RemovalAlone, GoneForGood, AllGone
<1> QED
  BY <1>1, <1>2

LEMMA KeptReleases ==
  ASSUME TypeInv, InstallInv
  PROVE  /\ \A f \in Files : disk[f] <= release /\ \A i \in 1..Olds : aside[f][i] <= release
         /\ (\A f \in Files : disk'[f] \in {0, disk[f]}) => \A f \in Files : disk'[f] <= release
<1>1. \A f \in Files : disk[f] <= release /\ \A i \in 1..Olds : aside[f][i] <= release
  BY DEF InstallInv, ReleaseInv, KnownReleases
<1>2. ASSUME NEW f \in Files, disk'[f] \in {0, disk[f]} PROVE disk'[f] <= release
  <2>1. disk[f] <= release /\ release \in Nat
    BY <1>1 DEF RestType
  <2> QED
    BY <1>2, <2>1
<1> QED
  BY <1>1, <1>2

LEMMA ListStepInv ==
  ASSUME TypeInv, InstallInv, WriteList \/ AllPlaced \/ Relist
  PROVE  InstallInv'
<1>1. Applying
  BY DEF WriteList, AllPlaced, Relist, Applying
<1>2. InstallStays /\ UNCHANGED <<disk, aside, mine>>
  BY DEF WriteList, AllPlaced, Relist, InstallStays, Fails, Rest, Holding, Updates, around, env,
     flags, files, past
<1>3. ReleaseInv' /\ RemovalInv'
  BY <1>1, <1>2, InstallStaysInv, KeptReleases
<1>4. CASE core'.pc = "wait"
  <2>1. list' = list
    BY <1>4 DEF WriteList, AllPlaced, Relist, Rest, Fails, files
  <2>2. FilesStay
    BY <1>2, <2>1 DEF FilesStay, InstallStays
  <2>3. ListInv' /\ InstalledInv'
    BY <1>2, <1>4, <2>2, OutsideInv DEF InstallStays
  <2> QED
    BY <1>3, <2>3 DEF InstallInv
<1>5. CASE core'.pc # "wait"
  <2>1. folder' = folder /\ upd'.r = upd.r /\ folder = Ships(upd.r) /\ ~restart'
    BY <1>1, <1>2, <1>5, ApplyFacts DEF InstallStays
  <2>2. CASE WriteList
    <3>1. /\ core'.pc = "place" /\ list' = list \cup folder
          /\ upd'.todo = folder /\ upd'.prev = list
      BY <1>5, <2>2, UpdTypes DEF WriteList, Fails, Rest, Updates
    <3>2. ListInv'
      BY <1>2, <2>1, <3>1
      DEF InstallInv, ListInv, MineListed, ListHasBoth, MovedAside, RestIsObsolete, ListIsFolder,
          InstallStays
    <3>3. InstalledInv'
      BY <1>2, <2>1, <3>1 DEF InstallInv, InstalledInv, PlacedIsNew, WholeRelease, InstallStays
    <3> QED
      BY <1>3, <3>2, <3>3 DEF InstallInv
  <2>3. CASE AllPlaced
    <3>1. /\ core.pc = "place" /\ upd.todo = {} /\ core'.pc = "drop" /\ list' = list
          /\ upd'.todo = upd.prev \ (folder \cup Own)
      BY <2>3 DEF AllPlaced, Obsolete, Rest, files, Updates
    <3>2. ListInv'
      BY <1>1, <1>2, <2>1, <3>1, ApplyFacts
      DEF InstallInv, ListInv, MineListed, ListHasBoth, MovedAside, RestIsObsolete, ListIsFolder,
          InstallStays
    <3>3. InstalledInv'
      BY <1>2, <2>1, <3>1 DEF InstallInv, InstalledInv, PlacedIsNew, WholeRelease, InstallStays
    <3> QED
      BY <1>3, <3>2, <3>3 DEF InstallInv
  <2>4. CASE Relist
    <3>1. core.pc = "drop" /\ upd.todo = {} /\ core'.pc = "commit" /\ list' = folder
      BY <1>5, <2>4 DEF Relist, Fails, Rest
    <3>2. ListInv'
      BY <1>2, <2>1, <3>1
      DEF InstallInv, ListInv, MineListed, ListHasBoth, MovedAside, RestIsObsolete, ListIsFolder,
          InstallStays
    <3>3. InstalledInv'
      BY <1>2, <2>1, <3>1 DEF InstallInv, InstalledInv, PlacedIsNew, WholeRelease, InstallStays
    <3> QED
      BY <1>3, <3>2, <3>3 DEF InstallInv
  <2> QED
    BY <2>2, <2>3, <2>4
<1> QED
  BY <1>4, <1>5

\* While the files are placed: what a step of one file may change.
InstallPcs == {"place", "swap", "drop"}

\* A file put in place is of the folder, so it is listed.
PlacedIs(f) ==
    /\ f \in upd.todo /\ core.pc \in {"place", "swap"} /\ core'.pc = "place"
    /\ UNCHANGED <<list, commit, folder, release, removing, restart, watch, unit, pkg>>
    /\ core'.built = core.built /\ upd'.r = upd.r /\ upd'.prev = upd.prev
    /\ upd'.todo = upd.todo \ {f}
    /\ disk' = [disk EXCEPT ![f] = Content(f, upd.r)]
    /\ mine' \in {mine, mine \cup {f}}
    /\ AsideGoes

LEMMA PlacedInv ==
  ASSUME TypeInv, InstallInv, NEW f \in Files, PlacedIs(f)
  PROVE  InstallInv'
<1>1. Applying
  BY DEF PlacedIs, Applying
<1>2. /\ folder = Ships(upd.r) /\ ~restart /\ upd.r > 0 /\ upd.r \in Nat /\ release \in Nat \ {0}
      /\ upd.r <= release /\ upd.todo \subseteq folder /\ list = upd.prev \cup folder
      /\ commit # 0
  <2>1. upd.r \in Nat /\ release \in Nat \ {0} /\ upd.r <= release
    <3>1. upd.r \in Versions
      BY UpdTypes
    <3>2. upd.r <= release
      BY DEF InstallInv, ReleaseInv, KnownReleases
    <3> QED
      BY <3>1, <3>2 DEF RestType
  <2>2. upd.todo \subseteq folder /\ list = upd.prev \cup folder
    BY DEF PlacedIs, InstallInv, ListInv, ListHasBoth
  <2> QED
    BY <1>1, <2>1, <2>2, ApplyFacts
<1>3. Content(f, upd.r) <= release /\ Content(f, upd.r) # 0
  BY <1>2 DEF Content
<1>4. \A g \in Files : disk'[g] <= release /\ \A i \in 1..Olds : aside'[g][i] <= release
  <2>1. ASSUME NEW g \in Files PROVE disk'[g] <= release
    BY <1>3, KeptReleases DEF PlacedIs
  <2>2. ASSUME NEW g \in Files, NEW i \in 1..Olds PROVE aside'[g][i] <= release
    <3>1. aside[g][i] <= release /\ 0 <= release
      <4>1. aside[g][i] <= release
        BY KeptReleases
      <4>2. release \in Nat
        BY <1>2
      <4> QED
        BY <4>1, <4>2
    <3>2. aside'[g][i] = 0 \/ aside'[g][i] = aside[g][i]
      BY DEF PlacedIs, AsideGoes
    <3> QED
      BY <3>1, <3>2
  <2> QED
    BY <2>1, <2>2
<1>5. ReleaseInv' /\ RemovalInv'
  BY <1>1, <1>4, InstallStaysInv DEF PlacedIs, InstallStays, Holding
<1>6. ListInv'
  BY <1>2
  DEF PlacedIs, InstallInv, ListInv, MineListed, ListHasBoth, MovedAside, RestIsObsolete,
      ListIsFolder
<1>7. InstalledInv'
  <2>1. \A g \in Files \ {f} : disk'[g] = disk[g]
    BY DEF PlacedIs
  <2>2. disk'[f] = Content(f, upd.r)
    BY DEF PlacedIs
  <2>3. PlacedIsNew'
    BY <2>1, <2>2, <1>2 DEF PlacedIs, InstallInv, InstalledInv, PlacedIsNew, Files
  <2>4. WholeRelease'
    BY <2>1, <2>2, <1>2, <1>3 DEF PlacedIs, InstallInv, InstalledInv, WholeRelease, Files
  <2> QED
    BY <2>3, <2>4 DEF InstalledInv
<1> QED
  BY <1>5, <1>6, <1>7 DEF InstallInv

LEMMA PlaceStepInv ==
  ASSUME TypeInv, InstallInv, NEW f \in Files, Skip(f) \/ Replace(f) \/ MoveAside(f) \/ Drop(f)
  PROVE  InstallInv'
<1>1. CASE Skip(f) \/ Replace(f)
  <2>1. /\ core.pc = "place" /\ f \in upd.todo /\ core' = core /\ Placed(f) /\ aside' = aside
        /\ UNCHANGED <<list, commit, folder, release, removing, restart, watch, unit, pkg>>
        /\ mine' \in {mine, mine \cup {f}}
    BY <1>1 DEF Skip, Replace, Renamed, Todo, around, env, flags, files, past
  <2>2. disk' = [disk EXCEPT ![f] = Content(f, upd.r)]
    <3>1. CASE Skip(f)
      BY <3>1 DEF Skip, Same, files
    <3>2. CASE Replace(f)
      BY <3>2 DEF Replace, Renamed
    <3> QED
      BY <1>1, <3>1, <3>2
  <2>3. upd'.r = upd.r /\ upd'.prev = upd.prev /\ upd'.todo = upd.todo \ {f}
    BY <2>1 DEF Placed, Updates
  <2>4. PlacedIs(f)
    BY <2>1, <2>2, <2>3 DEF PlacedIs, AsideGoes
  <2> QED
    BY <2>4, PlacedInv
<1>2. CASE MoveAside(f)
  <2>1. PICK i \in Candidates(f) : /\ aside' = [aside EXCEPT ![f][i] = disk[f]]
                                  /\ upd' = [upd EXCEPT !.file = f, !.at = i]
    BY <1>2 DEF MoveAside
  <2>2. i \in 1..Olds
    BY DEF Candidates
  <2>3. /\ core.pc = "place" /\ f \in upd.todo /\ core'.pc = "swap" /\ core'.built = core.built
        /\ UNCHANGED <<list, commit, folder, release, removing, restart, watch, unit, pkg, mine>>
        /\ disk' = [disk EXCEPT ![f] = 0] /\ f \notin Own /\ Applying
    BY <1>2 DEF MoveAside, Todo, Busy, FileOf, Rest, around, env, flags, past, Applying
  <2>4. /\ upd'.r = upd.r /\ upd'.prev = upd.prev /\ upd'.todo = upd.todo /\ upd'.file = f
        /\ upd'.at = i
    BY <2>1 DEF Updates
  <2>5. \A g \in Files : disk'[g] <= release /\ \A j \in 1..Olds : aside'[g][j] <= release
    <3>1. release \in Nat
      BY DEF RestType
    <3>2. \A g \in Files : disk'[g] \in {0, disk[g]}
      BY <2>3
    <3>3. \A g \in Files : \A j \in 1..Olds : aside'[g][j] \in {disk[f], aside[g][j]}
      BY <2>1, <2>2
    <3>4. \A g \in Files : disk'[g] <= release
      BY <3>2, KeptReleases
    <3>5. ASSUME NEW g \in Files, NEW j \in 1..Olds PROVE aside'[g][j] <= release
      BY <3>3, KeptReleases
    <3> QED
      BY <3>4, <3>5
  <2>6. ReleaseInv' /\ RemovalInv'
    BY <2>3, <2>4, <2>5, InstallStaysInv DEF InstallStays, Holding
  <2>7. ListInv'
    BY <2>2, <2>3, <2>4
    DEF InstallInv, ListInv, MineListed, ListHasBoth, MovedAside, RestIsObsolete, ListIsFolder
  <2>8. InstalledInv'
    <3>1. \A g \in Files \ {f} : disk'[g] = disk[g]
      BY <2>3
    <3>2. PlacedIsNew'
      BY <2>3, <2>4, <3>1 DEF InstallInv, InstalledInv, PlacedIsNew, ListInv, ListHasBoth
    <3>3. WholeRelease'
      BY <2>3, <3>1, ApplyFacts DEF InstallInv, InstalledInv, WholeRelease, Files
    <3> QED
      BY <3>2, <3>3 DEF InstalledInv
  <2> QED
    BY <2>6, <2>7, <2>8 DEF InstallInv
<1>3. CASE Drop(f)
  <2>1. /\ core.pc = "drop" /\ f \in upd.todo /\ core' = core /\ mine' = mine \ {f}
        /\ UNCHANGED <<list, commit, folder, release, removing, restart, watch, unit, pkg, aside>>
        /\ \A g \in Files : disk'[g] \in {0, disk[g]} /\ (g # f => disk'[g] = disk[g])
        /\ Applying
    BY <1>3 DEF Drop, around, env, flags, Applying
  <2>2. upd'.r = upd.r /\ upd'.todo = upd.todo \ {f}
    BY <1>3 DEF Drop, Updates
  <2>3. f \notin folder /\ f \notin Own
    BY <2>1 DEF InstallInv, ListInv, RestIsObsolete
  <2>4. \A g \in Files : disk'[g] <= release /\ \A j \in 1..Olds : aside'[g][j] <= release
    <3>1. release \in Nat
      BY DEF RestType
    <3>2. \A g \in Files : disk'[g] <= release
      BY <2>1, KeptReleases
    <3> QED
      BY <2>1, <3>2, KeptReleases
  <2>5. ReleaseInv' /\ RemovalInv'
    BY <2>1, <2>2, <2>4, InstallStaysInv DEF InstallStays, Holding
  <2>6. ListInv'
    BY <2>1, <2>2
    DEF InstallInv, ListInv, MineListed, ListHasBoth, MovedAside, RestIsObsolete, ListIsFolder
  <2>7. PlacedIsNew'
    BY <2>1, <2>2, <2>3 DEF InstallInv, InstalledInv, PlacedIsNew
  <2>8. WholeRelease'
    BY <2>1, <2>3, ApplyFacts DEF InstallInv, InstalledInv, WholeRelease, Files
  <2> QED
    BY <2>5, <2>6, <2>7, <2>8 DEF InstallInv, InstalledInv
<1> QED
  BY <1>1, <1>2, <1>3

LEMMA SwapInv ==
  ASSUME TypeInv, InstallInv, Swap \/ SwapBack
  PROVE  InstallInv'
<1> DEFINE f == upd.file  i == upd.at
<1>1. core.pc = "swap" /\ f \in upd.todo /\ f \notin Own /\ i \in 1..Olds /\ f \in Files
  BY UpdTypes DEF Swap, SwapBack, InstallInv, ListInv, MovedAside
<1>2. Applying
  BY <1>1 DEF Applying
<1>3. CASE Swap
  <2>1. /\ core'.pc = "place" /\ core'.built = core.built /\ Placed(f)
        /\ UNCHANGED <<list, commit, folder, release, removing, restart, watch, unit, pkg>>
        /\ disk' = [disk EXCEPT ![f] = Content(f, upd.r)] /\ mine' = mine \cup {f}
    BY <1>3 DEF Swap, Renamed, Rest, around, env, flags
  <2>2. AsideGoes
    <3>1. aside' \in {aside, [aside EXCEPT ![f][i] = 0]}
      BY <1>3 DEF Swap
    <3>2. CASE aside' = aside
      BY <3>2 DEF AsideGoes
    <3>3. CASE aside' = [aside EXCEPT ![f][i] = 0]
      BY <1>1, <3>3 DEF AsideGoes
    <3> QED
      BY <3>1, <3>2, <3>3
  <2>3. upd'.r = upd.r /\ upd'.prev = upd.prev /\ upd'.todo = upd.todo \ {f}
    BY <2>1 DEF Placed, Updates
  <2>4. PlacedIs(f)
    BY <1>1, <2>1, <2>2, <2>3 DEF PlacedIs
  <2> HIDE DEF f
  <2> QED
    BY <1>1, <2>4, PlacedInv
<1>4. CASE SwapBack
  <2>1. /\ core'.pc = "wait" /\ core'.built = core.built /\ upd' = Idle
        /\ UNCHANGED <<list, commit, release, removing, restart, watch, unit, pkg, mine>>
        /\ disk' = [disk EXCEPT ![f] = aside[f][i]] /\ aside' = [aside EXCEPT ![f][i] = 0]
    BY <1>4 DEF SwapBack, Fails, Rest, around, env, flags, past
  <2>2. \A g \in Files : disk'[g] <= release /\ \A j \in 1..Olds : aside'[g][j] <= release
    <3>1. release \in Nat
      BY DEF RestType
    <3>2. \A g \in Files : disk'[g] \in {aside[f][i], disk[g]}
      BY <1>1, <2>1
    <3>3. \A g \in Files : \A j \in 1..Olds : aside'[g][j] \in {0, aside[g][j]}
      BY <1>1, <2>1
    <3>4. \A g \in Files : disk'[g] <= release
      BY <1>1, <3>2, KeptReleases
    <3>5. ASSUME NEW g \in Files, NEW j \in 1..Olds PROVE aside'[g][j] <= release
      <4>1. aside'[g][j] \in {0, aside[g][j]} /\ aside[g][j] <= release
        BY <3>3, KeptReleases
      <4> QED
        BY <3>1, <4>1
    <3> QED
      BY <3>4, <3>5
  <2>3. ReleaseInv' /\ RemovalInv'
    BY <1>2, <2>1, <2>2, InstallStaysInv DEF InstallStays, Holding
  <2>4. ListInv'
    BY <2>1
    DEF InstallInv, ListInv, MineListed, ListHasBoth, MovedAside, RestIsObsolete, ListIsFolder
  <2>5. InstalledInv'
    <3>1. \A g \in Files \ {f} : disk'[g] = disk[g]
      BY <2>1
    <3> QED
      BY <1>1, <1>2, <2>1, <3>1, ApplyFacts
      DEF InstallInv, InstalledInv, PlacedIsNew, WholeRelease, Files
  <2> QED
    BY <2>3, <2>4, <2>5 DEF InstallInv
<1> QED
  BY <1>3, <1>4

LEMMA EndsInv ==
  ASSUME TypeInv, InstallInv, InstallFails \/ CommitFails \/ Applied
  PROVE  InstallInv'
<1>1. Applying
  BY DEF InstallFails, CommitFails, Applied, Todo, Applying
<1>2. CASE InstallFails \/ CommitFails
  <2>1. InstallStays /\ UNCHANGED <<disk, aside>> /\ FilesStay /\ core'.pc = "wait"
    BY <1>2 DEF InstallFails, CommitFails, InstallStays, FilesStay, Fails, Rest, around, env, flags,
       files, past
  <2>2. ReleaseInv' /\ RemovalInv'
    BY <1>1, <2>1, InstallStaysInv, KeptReleases
  <2>3. ListInv' /\ InstalledInv'
    BY <2>1, OutsideInv DEF InstallStays
  <2> QED
    BY <2>2, <2>3 DEF InstallInv
<1>3. CASE Applied
  <2>1. /\ core.pc = "commit" /\ core'.pc = "over" /\ core'.built = core.built
        /\ commit' = upd.r /\ restart' = TRUE /\ stop' = TRUE /\ upd' = Idle
        /\ UNCHANGED <<disk, aside, list, mine, release, removing, watch, unit, pkg>>
    BY <1>3 DEF Applied, Rest, env, past
  <2>2. /\ commit' = upd.r /\ upd.r # 0 /\ folder = Ships(upd.r) /\ ~removing
        /\ watch.pc \notin RemovalPcs
    BY <1>1, <2>1, ApplyFacts
  <2>3. ReleaseInv'
    <3>1. upd'.r = 0 /\ release >= 0
      BY <2>1 DEF Idle, RestType
    <3> QED
      BY <2>1, <3>1 DEF InstallInv, ReleaseInv, KnownReleases, FolderIsRelease, Holding
  <2>4. RemovalInv'
    BY <2>1, <2>2 DEF InstallInv, RemovalInv, RemovalAlone, GoneForGood, AllGone, Applying
  <2>5. /\ list = folder /\ mine \ Own \subseteq folder
        /\ \A f \in folder : disk[f] = Content(f, upd.r)
    BY <2>1 DEF InstallInv, ListInv, ListIsFolder, InstalledInv, PlacedIsNew
  <2>6. ListInv'
    BY <2>1, <2>5 DEF ListInv, MineListed, ListHasBoth, MovedAside, RestIsObsolete, ListIsFolder
  <2>7. commit # 0
    BY <1>1, ApplyFacts
  <2>8. InstalledInv'
    BY <2>1, <2>2, <2>5, <2>7 DEF InstallInv, InstalledInv, PlacedIsNew, WholeRelease
  <2> QED
    BY <2>3, <2>4, <2>6, <2>8 DEF InstallInv
<1> QED
  BY <1>2, <1>3

-----------------------------------------------------------------------------
(* The removal, and the theorems. *)

LEMMA RemovingInv ==
  ASSUME TypeInv, InstallInv, Removing
  PROVE  InstallInv'
<1>1. UNCHANGED updater
  BY DEF Removing, Look, Mark, Disconnect, Unregister, Delete, Sweep, StopItself
<1>2. ReleaseInv'
  <2>1. /\ \A f \in Files : disk'[f] \in {0, disk[f]}
        /\ \A f \in Files : \A i \in 1..Olds : aside'[f][i] \in {0, aside[f][i]}
    <3>1. CASE Delete
      BY <3>1 DEF Delete
    <3>2. CASE ~Delete
      <4>1. UNCHANGED <<disk, aside>>
        BY <3>2 DEF Removing, Look, Mark, Disconnect, Unregister, Sweep, StopItself, files
      <4> QED
        BY <4>1
    <3> QED
      BY <3>1, <3>2
  <2>2. \A f \in Files : disk'[f] <= release
    BY <2>1, KeptReleases
  <2>3. ASSUME NEW f \in Files, NEW i \in 1..Olds PROVE aside'[f][i] <= release
    <3>1. aside'[f][i] \in {0, aside[f][i]} /\ aside[f][i] <= release /\ release \in Nat
      BY <2>1, KeptReleases DEF RestType
    <3> QED
      BY <3>1
  <2>4. KnownReleases'
    BY <1>1, <2>2, <2>3 DEF InstallInv, ReleaseInv, KnownReleases, updater, env
  <2>5. FolderIsRelease'
    <3>1. removing' \/ (~removing /\ folder' = folder)
      BY DEF Removing, Look, Mark, Disconnect, Unregister, Delete, Sweep, StopItself, flags,
         InstallInv, RemovalInv, RemovalAlone, RemovalPcs
    <3> QED
      BY <1>1, <3>1 DEF InstallInv, ReleaseInv, FolderIsRelease, updater
  <2> QED
    BY <2>4, <2>5 DEF ReleaseInv
<1>3. RemovalInv'
  <2> USE <1>1 DEF updater, env, InstallInv, RemovalInv, RemovalPcs, Applying, Running
  <2>1. CASE Look
    <3> DEFINE n == IF PackageGone THEN watch.missing + 1 ELSE 0
    <3>1. watch.pc = "watch" /\ watch' = [pc |-> IF n >= 2 THEN "gone" ELSE "watch", missing |-> n]
      BY <2>1 DEF Look
    <3>2. n >= 2 => pkg = "gone"
      BY <2>1 DEF Look, PackageGone, RestType
    <3>3. n \in 0..2
      BY <3>1 DEF GoneForGood, RestType
    <3> HIDE DEF n
    <3>4. GoneForGood'
      BY <3>1, <3>2, <3>3 DEF GoneForGood
    <3>5. RemovalAlone'
      BY <2>1, <3>1 DEF Look, RemovalAlone, flags
    <3>6. AllGone'
      BY <2>1 DEF Look, AllGone, Absent, flags, files
    <3> QED
      BY <3>4, <3>5, <3>6
  <2>2. CASE Mark
    <3>1. /\ watch.pc = "gone" /\ removing' /\ ~Applying
          /\ watch'.pc = IF stop THEN "off" ELSE "disconnect"
          /\ UNCHANGED <<files, restart, stop, unit>>
      BY <2>2 DEF Mark, Watches, RestType
    <3>2. GoneForGood' /\ RemovalAlone'
      BY <3>1 DEF GoneForGood, RemovalAlone
    <3>3. AllGone'
      BY <3>1 DEF AllGone, Absent, files
    <3> QED
      BY <3>2, <3>3
  <2>3. CASE Delete
    <3>1. /\ watch.pc = "delete" /\ watch'.pc = "sweep" /\ UNCHANGED <<flags, unit>>
          /\ \A f \in Files : disk'[f] = 0 /\ \A i \in 1..Olds : aside'[f][i] = 0
      BY <2>3 DEF Delete, Watches, RestType
    <3>2. GoneForGood' /\ RemovalAlone'
      BY <3>1 DEF GoneForGood, RemovalAlone, flags
    <3>3. AllGone'
      BY <3>1 DEF GoneForGood, RemovalAlone, AllGone, Absent, flags
    <3> QED
      BY <3>2, <3>3
  <2>4. CASE Disconnect \/ Unregister \/ Sweep \/ StopItself
    <3>1. /\ watch.pc \in RemovalPcs /\ UNCHANGED <<files, restart, removing>>
          /\ watch'.pc \in RemovalPcs \cup {"off"} /\ (unit' => unit) /\ (stop => stop')
          /\ watch'.pc \in {"delete", "sweep"} => ~unit'
      <4>1. CASE Disconnect \/ Sweep \/ StopItself
        BY <4>1 DEF Disconnect, Sweep, StopItself, Watches, flags, RestType
      <4>2. CASE Unregister
        <5>1. unit' = FALSE \/ unit' = unit
          BY <4>2, Zenon DEF Unregister
        <5>2. unit' => unit
          BY <5>1, Zenon
        <5>3. watch.pc = "unregister" /\ UNCHANGED <<files, flags>>
          BY <4>2 DEF Unregister
        <5>4. watch'.pc = "stop" \/ (watch'.pc = "delete" /\ ~unit')
          BY <4>2 DEF Unregister, Watches, RestType
        <5> QED
          BY <5>2, <5>3, <5>4 DEF flags
      <4> QED
        BY <2>4, <4>1, <4>2
    <3>2. GoneForGood' /\ RemovalAlone'
      BY <3>1 DEF GoneForGood, RemovalAlone
    <3>3. AllGone'
      BY <3>1 DEF AllGone, Absent, files
    <3> QED
      BY <3>2, <3>3
  <2> QED
    BY <2>1, <2>2, <2>3, <2>4 DEF Removing
<1>4. ListInv' /\ InstalledInv'
  <2>1. ~Delete => UNCHANGED files
    BY DEF Removing, Look, Mark, Disconnect, Unregister, Sweep, StopItself
  <2>2. (folder' # folder => removing) /\ restart' = restart
    BY DEF Removing, Look, Mark, Disconnect, Unregister, Delete, Sweep, StopItself, flags,
       InstallInv, RemovalInv, RemovalAlone, RemovalPcs
  <2>3. Delete => commit' = 0 /\ removing /\ ~restart
    BY DEF Delete, InstallInv, RemovalInv, RemovalAlone, RemovalPcs
  <2>4. removing => core.pc \notin {"place", "swap", "drop", "commit"}
    BY DEF InstallInv, RemovalInv, RemovalAlone, Applying
  <2>5. ListInv'
    BY <1>1, <2>1, <2>2, <2>3, <2>4
    DEF InstallInv, ListInv, MineListed, ListHasBoth, MovedAside, RestIsObsolete, ListIsFolder,
        updater, past, files
  <2>6. InstalledInv'
    BY <1>1, <2>1, <2>2, <2>3, <2>4
    DEF InstallInv, InstalledInv, PlacedIsNew, WholeRelease, updater, past, files
  <2> QED
    BY <2>5, <2>6
<1> QED
  BY <1>2, <1>3, <1>4 DEF InstallInv

LEMMA StepInv ==
  ASSUME TypeInv, InstallInv, [Next]_vars
  PROVE  TypeInv' /\ InstallInv'
<1>1. CASE UNCHANGED vars
  <2>1. TypeInv'
    BY <1>1 DEF vars, env, files, past, flags, conn, RestType, FlagType
  <2>2. InstallInv'
    BY <1>1
    DEF vars, env, files, past, flags, conn, InstallInv, ReleaseInv, KnownReleases, FolderIsRelease,
        RemovalInv, RemovalAlone, GoneForGood, AllGone, Absent, ListInv, MineListed, ListHasBoth,
        MovedAside, RestIsObsolete, ListIsFolder, InstalledInv, PlacedIsNew, WholeRelease, Applying,
        Running
  <2> QED
    BY <2>1, <2>2
<1>2. CASE CheckStep
  BY <1>2, CheckType, CheckInv
<1>3. CASE ApplyStep
  <2>1. TypeInv'
    BY <1>3, ApplyType
  <2>2. InstallInv'
    BY <1>3, ListStepInv, PlaceStepInv, SwapInv, EndsInv DEF ApplyStep, PlaceStep
  <2> QED
    BY <2>1, <2>2
<1>4. CASE Removing
  BY <1>4, RemovingType, RemovingInv
<1>5. CASE Start \/ Restart \/ End \/ Crash
  BY <1>5, LifeType, LifeInv
<1>6. CASE Publish \/ Switch \/ Use \/ Window \/ Stop
             \/ \E p \in {"there", "away", "gone"} : Package(p)
  BY <1>6, EnvironmentType, EnvironmentInv
<1> QED
  BY <1>1, <1>2, <1>3, <1>4, <1>5, <1>6 DEF Next, Updating, CheckStep, ApplyStep, PlaceStep

\* The invariant, of which the theorems below are parts.
THEOREM Inductive == Spec => [](TypeInv /\ InstallInv)
<1>1. Init => TypeInv /\ InstallInv
  BY InitType, InitInv
<1>2. TypeInv /\ InstallInv /\ [Next]_vars => TypeInv' /\ InstallInv'
  BY StepInv
<1> QED
  BY <1>1, <1>2, PTL DEF Spec

\* Every variable keeps its type, in every step of an update, a removal and a restart.
THEOREM TypeCorrect == Spec => []TypeOK
<1>1. TypeInv => TypeOK
  <2>1. FlagType => {stop, restart, removing, auto, used, unit} \subseteq BOOLEAN
    BY Zenon DEF FlagType
  <2> QED
    BY <2>1 DEF TypeOK, RestType, CorePcs, WatchPcs, Updates
<1> QED
  BY <1>1, Inductive, PTL

\* What the updater put there is listed until it is gone, whatever crashes and failing writes
\* there were (install).
THEOREM FilesListedAlways == Spec => []FilesListed
<1>1. TypeInv /\ InstallInv => FilesListed
  <2> SUFFICES ASSUME TypeInv, InstallInv, NEW f \in mine \ Own, f \notin list PROVE Absent(f)
    BY DEF FilesListed, Absent
  <2>1. commit = 0
    BY DEF InstallInv, ListInv, MineListed
  <2> QED
    BY <2>1 DEF InstallInv, RemovalInv, AllGone
<1> QED
  BY <1>1, Inductive, PTL

\* A finished update leaves one whole release, and openconnect of the installers stays until the
\* removal.
THEOREM WholeReleaseAlways == Spec => []WholeRelease
<1>1. InstallInv => WholeRelease
  BY DEF InstallInv, InstalledInv
<1> QED
  BY <1>1, Inductive, PTL

\* The removal begins only when the package is gone for good, and from then on no file comes back.
THEOREM RemovalHoldsAlways == Spec => RemovalHolds
<1>1. ASSUME TypeInv, InstallInv, [Next]_vars
      PROVE  [/\ ~removing /\ removing' => pkg = "gone"
              /\ removing \/ commit = 0 => \A f \in Files : disk'[f] \in {0, disk[f]}]_vars
  <2>1. ~removing /\ removing' => pkg = "gone"
    <3>1. ~removing /\ removing' => Mark
      BY <1>1 DEF Next, Updating, Removing, Wake, Leave, NoUpdate, Got, Discard, InstallWhenIdle,
         WriteList, Swap, AllPlaced, Relist, Applied, Skip, Replace, MoveAside, Drop, Offline,
         Download, Staged, Damaged, SwapBack, InstallFails, CommitFails, Look, Disconnect,
         Unregister, Delete, Sweep, StopItself, Start, Restart, End, Crash, Ended, Starts, Stop,
         Publish, Switch, Use, Window, Package, updates, around, flags, vars
    <3> QED
      BY <1>1, <3>1 DEF Mark, InstallInv, RemovalInv, GoneForGood
  <2>2. removing \/ commit = 0 => ~Applying
    BY <1>1, ApplyFacts
  <2>3. ~Applying => (\A f \in Files : disk'[f] = 0) \/ disk' = disk
    BY <1>1 DEF Next, Updating, Removing, Wake, Leave, NoUpdate, Got, Discard, InstallWhenIdle,
       WriteList, Swap, AllPlaced, Relist, Applied, Skip, Replace, MoveAside, Drop, Offline,
       Download, Staged, Damaged, SwapBack, InstallFails, CommitFails, Look, Disconnect, Mark,
       Unregister, Delete, Sweep, StopItself, Start, Restart, End, Crash, Ended, Stop,
       Publish, Switch, Use, Window, Package, updates, files, vars, Applying, Todo
  <2> QED
    BY <2>1, <2>2, <2>3
<1> QED
  BY <1>1, Inductive, PTL DEF Spec, RemovalHolds

=============================================================================
