--------------------------- MODULE Installation ---------------------------
(***************************************************************************)
(* The files of an installation: the core that updates them (daemon's      *)
(* update.go, internal/updater), the watcher that removes them once their  *)
(* package is gone (removal.go, setup.Remove), and restarts in between.    *)
(* Contents are numbers of the release they came from, 0 is no file.       *)
(***************************************************************************)
EXTENDS Naturals, FiniteSets

CONSTANTS
    Always,      \* files every release ships, "exe" and "app" among them
    Odd, Even,   \* files only the odd, only the even releases ship
    Own,         \* files the installers put there first (openconnect/, runtime/), in release 1
    Unchanged,   \* files that are the same in every release
    MaxRelease, Olds,  \* releases; names <file>.old, <file>.1.old, ... tried
    MaxFaults, MaxEnds \* failing writes and renames; crashes and shutdowns

ASSUME InstallationAssumption ==
    /\ {"exe", "app"} \subseteq Always /\ {"exe", "app"} \cap Own = {}
    /\ MaxRelease \in Nat \ {0} /\ Olds \in Nat \ {0}
    /\ MaxFaults \in Nat /\ MaxEnds \in Nat

Files == Always \cup Odd \cup Even \cup Own
Ships(r) ==
    Always \cup (IF r % 2 = 1 THEN Odd ELSE Even) \cup (IF r = 1 THEN Own ELSE {})
Content(f, r) == IF f \in Unchanged THEN 1 ELSE r
Versions == 0..MaxRelease

\* Programs that keep a file of theirs open; Nowhere when they do not run.
Programs == {"core", "supervisor", "window"}
FileOf(p) == IF p = "window" THEN "app" ELSE "exe"
Nowhere == Olds + 1

VARIABLES
    windows,     \* the system
    release,     \* the newest release
    disk, aside, \* each file, and what is at its .old names
    list, commit,      \* .core-files and .commit
    slot,        \* where the program is that each of Programs runs: 0 the file, i its i-th .old name
    folder,      \* the unpacked release next to the root: its files, {} when there is none
    core,        \* autoUpdate's goroutine and the release it was built from
    upd,         \* the pending release; in install the files to do, the list before, a file moved aside
    stop, restart, removing,    \* Daemon.stop, RestartRequested, removing
    auto, used,  \* AutoUpdate; something uses or wants the tunnel (not idleForUpdateLocked)
    watch,       \* watchPackage: where it is, missing checks in a row
    pkg,         \* the package: there, away (for less than two checks), gone
    unit,        \* the service is registered
    faults, ends,
    mine, stuck  \* history: files the updater put there; those it gave up on

conn == <<auto, used>>
env == <<windows, release, pkg, ends>>
files == <<disk, aside, list, commit>>
past == <<mine, stuck>>
flags == <<stop, restart, removing>>
vars == <<env, files, slot, folder, core, upd, flags, conn, watch, unit, faults, past>>

Idle == [r |-> 0, todo |-> {}, prev |-> {}, file |-> "exe", at |-> 0]

Init ==
    /\ windows \in BOOLEAN /\ release = 1
    /\ disk = [f \in Files |-> IF f \in Ships(1) THEN Content(f, 1) ELSE 0]
    /\ aside = [f \in Files |-> [i \in 1..Olds |-> 0]]
    /\ list \in {{}, Ships(1)} /\ commit = 1 /\ mine = list /\ stuck = {}
    /\ slot = [p \in Programs |-> Nowhere] /\ folder = {}
    /\ core = [pc |-> "off", built |-> 1] /\ upd = Idle
    /\ stop = FALSE /\ restart = FALSE /\ removing = FALSE
    /\ auto = TRUE /\ used = FALSE /\ watch = [pc |-> "off", missing |-> 0]
    /\ pkg = "there" /\ unit = TRUE /\ faults = 0 /\ ends = 0

\* A file Windows does not let go of.
Busy(f, i) == windows /\ \E p \in Programs : FileOf(p) = f /\ slot[p] = i
Running == core.pc # "off"

\* install runs under the daemon's mutex.
Applying == core.pc \in {"apply", "place", "swap", "drop", "relist", "commit"}
Rest(pc) == core' = [core EXCEPT !.pc = pc]

-----------------------------------------------------------------------------
(* The environment. *)

Publish ==
    /\ release < MaxRelease /\ release' = release + 1
    /\ UNCHANGED <<windows, pkg, ends, files, slot, folder, core, upd, flags, conn, watch, unit, faults, past>>

\* A package update puts its files back between two checks; a removal does not.
Package(p) ==
    /\ ~windows /\ pkg # "gone" /\ p # pkg /\ pkg' = p
    /\ UNCHANGED <<windows, release, ends, files, slot, folder, core, upd, flags, conn, watch, unit, faults, past>>

\* The switch, and connections that come and go: each of them takes the daemon's mutex.
Switch ==
    /\ Running /\ ~Applying /\ auto' = ~auto
    /\ UNCHANGED <<used, env, files, slot, folder, core, upd, flags, watch, unit, faults, past>>

Use ==
    /\ Running /\ ~Applying /\ used' = ~used
    /\ UNCHANGED <<auto, env, files, slot, folder, core, upd, flags, watch, unit, faults, past>>

\* The app's window: opened from the file, closed wherever its program is by then.
Window ==
    /\ windows
    /\ \/ slot["window"] = Nowhere /\ disk["app"] # 0 /\ slot' = [slot EXCEPT !["window"] = 0]
       \/ slot["window"] # Nowhere /\ slot' = [slot EXCEPT !["window"] = Nowhere]
    /\ UNCHANGED <<env, files, folder, core, upd, flags, conn, watch, unit, faults, past>>

-----------------------------------------------------------------------------
(* The core's life. *)

\* coreUpdater and Run: the .old files of listed files and left folders go, the watcher starts.
Starts(s) ==
    /\ disk["exe"] # 0
    /\ core' = [pc |-> "wait", built |-> disk["exe"]]
    /\ aside' = [f \in Files |-> [i \in 1..Olds |->
          IF f \in list /\ ~(windows /\ \E p \in Programs : FileOf(p) = f /\ s[p] = i) THEN 0 ELSE aside[f][i]]]
    /\ slot' = [s EXCEPT !["core"] = 0]
    /\ folder' = {} /\ upd' = Idle
    /\ stop' = FALSE /\ restart' = FALSE /\ removing' = FALSE
    /\ watch' = [pc |-> IF windows THEN "off" ELSE "watch", missing |-> 0]

Start ==
    /\ core.pc = "off" /\ unit /\ Starts(slot)
    /\ UNCHANGED <<env, disk, list, commit, conn, unit, faults, past>>

\* RestartRequested: the new program in place of this one; on Windows the first one stays as the
\* supervisor of the next ones.
Restart ==
    /\ core.pc = "over" /\ restart
    /\ Starts(IF slot["supervisor"] = Nowhere THEN [slot EXCEPT !["supervisor"] = slot["core"]] ELSE slot)
    /\ used' = FALSE /\ UNCHANGED <<env, disk, list, commit, auto, unit, faults, past>>

\* The process is gone, and with it the supervisor and everything in memory.
Ended ==
    /\ core' = [core EXCEPT !.pc = "off"] /\ upd' = Idle
    /\ slot' = [slot EXCEPT !["core"] = Nowhere, !["supervisor"] = Nowhere]
    /\ watch' = [pc |-> "off", missing |-> 0]
    /\ removing' = FALSE /\ restart' = FALSE /\ used' = FALSE
    /\ UNCHANGED <<windows, release, pkg, files, folder, stop, auto, unit, faults, past>>

\* Run returns once autoUpdate has; setup.Remove, not waited for, goes no further.
End == core.pc = "over" /\ ~restart /\ UNCHANGED ends /\ Ended

Crash == Running /\ ends < MaxEnds /\ ends' = ends + 1 /\ Ended

\* Stop: a shutdown or a logout.
Stop ==
    /\ Running /\ ~stop /\ stop' = TRUE /\ ends < MaxEnds /\ ends' = ends + 1
    /\ UNCHANGED <<windows, release, pkg, restart, removing, files, slot, folder, core, upd, conn, watch, unit, faults, past>>

-----------------------------------------------------------------------------
(* autoUpdate and Updater.Check. *)

updates == <<env, files, slot, flags, conn, watch, unit, faults, past>>

\* PackageGone, also with the root and its marker deleted: then no package is known.
PackageGone == pkg # "there" /\ disk["exe"] # 0

\* A wake-up: nothing to do, or a check.
Wake ==
    /\ core.pc = "wait" /\ ~stop /\ auto /\ ~PackageGone
    /\ Rest("check") /\ UNCHANGED <<updates, folder, upd>>

Leave == core.pc = "wait" /\ stop /\ Rest("over") /\ UNCHANGED <<updates, folder, upd>>

\* This one is current, or the check was cancelled.
NoUpdate ==
    /\ core.pc = "check" /\ (stop \/ release = core.built)
    /\ Rest("wait") /\ UNCHANGED <<updates, folder, upd>>

Offline == core.pc = "check" /\ ~stop /\ Rest("wait") /\ UNCHANGED <<updates, folder, upd>>

\* The manifest and the download, then the folder.
Download ==
    /\ core.pc = "check" /\ ~stop /\ release # core.built
    /\ folder' = Ships(release) /\ upd' = [Idle EXCEPT !.r = release]
    /\ Rest("stage") /\ UNCHANGED updates

\* Unpacked and started once; else the folder goes.
Staged == core.pc = "stage" /\ Rest("got") /\ UNCHANGED <<updates, folder, upd>>
Damaged ==
    /\ core.pc = "stage" /\ folder' = {} /\ upd' = Idle
    /\ Rest("wait") /\ UNCHANGED updates

\* Stopped while checking, or switched off, or being removed: Discard.
Discard ==
    /\ \/ core.pc = "got" /\ stop
       \/ core.pc = "idle" /\ (stop \/ ~auto \/ removing)
    /\ folder' = {} /\ upd' = Idle
    /\ Rest(IF stop THEN "over" ELSE "wait") /\ UNCHANGED updates

Got == core.pc = "got" /\ ~stop /\ Rest("idle") /\ UNCHANGED <<updates, folder, upd>>

InstallWhenIdle ==
    /\ core.pc = "idle" /\ auto /\ ~removing /\ ~used
    /\ Rest("apply") /\ UNCHANGED <<updates, folder, upd>>

-----------------------------------------------------------------------------
(* Updater.Apply: install moves the files one by one. *)

around == <<env, flags, conn, watch, unit>>

\* Apply failed: the folder goes, and the mutex.
Fails == folder' = {} /\ upd' = Idle /\ Rest("wait")
Fault == faults < MaxFaults /\ faults' = faults + 1

\* Mutant: only the new release's files are listed.
WriteNewList ==
    /\ core.pc = "apply"
    /\ \/ /\ list' = folder /\ upd' = [upd EXCEPT !.todo = folder, !.prev = list]
          /\ Rest("place") /\ UNCHANGED <<faults, folder>>
       \/ Fault /\ Fails /\ UNCHANGED list
    /\ UNCHANGED <<around, disk, aside, commit, slot, past>>

\* Every file of both releases is listed before the first one is in place.
WriteList ==
    /\ core.pc = "apply"
    /\ \/ /\ list' = list \cup folder /\ upd' = [upd EXCEPT !.todo = folder, !.prev = list]
          /\ Rest("place") /\ UNCHANGED <<faults, folder>>
       \/ Fault /\ Fails /\ UNCHANGED list
    /\ UNCHANGED <<around, disk, aside, commit, slot, past>>

Same(f) == disk[f] = Content(f, upd.r)
Todo(f) == core.pc = "place" /\ f \in upd.todo
Placed(f) == upd' = [upd EXCEPT !.todo = @ \ {f}, !.at = 0]

\* The new file in place of the old one.
Renamed(f) ==
    /\ disk' = [disk EXCEPT ![f] = Content(f, upd.r)] /\ Placed(f)
    /\ mine' = mine \cup {f} /\ stuck' = stuck \ {f}

Skip(f) ==
    /\ Todo(f) /\ Same(f) /\ Placed(f)
    /\ UNCHANGED <<around, files, slot, folder, core, faults, past>>

Replace(f) ==
    /\ Todo(f) /\ ~Same(f) /\ ~Busy(f, 0) /\ Renamed(f)
    /\ UNCHANGED <<around, aside, list, commit, slot, folder, core, faults>>

\* Mutant: there is one .old name.
OneCandidate(f) == {i \in {1} : ~Busy(f, i)}

\* The first .old name that is free or can be made free.
Candidates(f) == {i \in 1..Olds : ~Busy(f, i) /\ \A j \in 1..(i - 1) : Busy(f, j)}

\* A file in use is renamed first.
MoveAside(f) ==
    /\ Todo(f) /\ ~Same(f) /\ Busy(f, 0)
    /\ \E i \in Candidates(f) :
          /\ aside' = [aside EXCEPT ![f][i] = disk[f]] /\ upd' = [upd EXCEPT !.file = f, !.at = i]
          /\ slot' = [p \in Programs |-> IF FileOf(p) = f /\ slot[p] = 0 THEN i ELSE slot[p]]
    /\ disk' = [disk EXCEPT ![f] = 0] /\ Rest("swap")
    /\ UNCHANGED <<around, list, commit, folder, faults, past>>

\* Then the new one takes its name, and the old one goes if it is closed by now.
Swap ==
    LET f == upd.file  i == upd.at IN
    /\ core.pc = "swap" /\ Renamed(f) /\ Rest("place")
    /\ aside' = IF Busy(f, i) THEN aside ELSE [aside EXCEPT ![f][i] = 0]
    /\ UNCHANGED <<around, list, commit, slot, folder, faults>>

\* Or it does not, and the old one is put back.
SwapBack ==
    LET f == upd.file  i == upd.at IN
    /\ core.pc = "swap" /\ Fault /\ Fails
    /\ disk' = [disk EXCEPT ![f] = aside[f][i]] /\ aside' = [aside EXCEPT ![f][i] = 0]
    /\ slot' = [p \in Programs |-> IF FileOf(p) = f /\ slot[p] = i THEN 0 ELSE slot[p]]
    /\ UNCHANGED <<around, list, commit, past>>

\* A rename fails, or no .old name is free.
InstallFails ==
    /\ \E f \in Files : /\ Todo(f) /\ ~Same(f)
                       /\ IF Busy(f, 0) /\ Candidates(f) = {} THEN UNCHANGED faults ELSE Fault
    /\ Fails /\ UNCHANGED <<around, files, slot, past>>

\* Mutant: what the running release had goes, not what the list has.
ObsoleteOfCore == Ships(core.built) \ (folder \cup Own)
\* What an earlier release had and this one has not goes, but not what the installers brought.
Obsolete == upd.prev \ (folder \cup Own)

AllPlaced ==
    /\ core.pc = "place" /\ upd.todo = {}
    /\ upd' = [upd EXCEPT !.todo = Obsolete] /\ Rest("drop")
    /\ UNCHANGED <<around, files, slot, folder, faults, past>>

\* Whether or not Remove worked.
Drop(f) ==
    /\ core.pc = "drop" /\ f \in upd.todo /\ upd' = [upd EXCEPT !.todo = @ \ {f}]
    /\ \/ ~Busy(f, 0) /\ disk' = [disk EXCEPT ![f] = 0] /\ UNCHANGED <<faults, stuck>>
       \/ disk[f] # 0 /\ Fault /\ stuck' = stuck \cup {f} /\ UNCHANGED disk
    /\ mine' = mine \ {f}
    /\ UNCHANGED <<around, aside, list, commit, slot, folder, core>>

Relist ==
    /\ core.pc = "drop" /\ upd.todo = {}
    /\ \/ list' = folder /\ Rest("commit") /\ UNCHANGED <<faults, folder, upd>>
       \/ Fault /\ Fails /\ UNCHANGED list
    /\ UNCHANGED <<around, disk, aside, commit, slot, past>>

\* The commit, then the folder goes and the daemon stops to be started again.
Applied ==
    /\ core.pc = "commit" /\ commit' = upd.r
    /\ folder' = {} /\ upd' = Idle /\ Rest("over")
    /\ restart' = TRUE /\ stop' = TRUE
    /\ UNCHANGED <<removing, env, conn, watch, unit, disk, aside, list, slot, faults, past>>

CommitFails ==
    /\ core.pc = "commit" /\ Fault /\ Fails
    /\ UNCHANGED <<around, files, slot, past>>

-----------------------------------------------------------------------------
(* watchPackage and setup.Remove. *)

Watches(pc) == watch' = [watch EXCEPT !.pc = pc]
updater == <<env, slot, core, upd, auto, past>>

\* Mutant: one look is enough.
LookOnce ==
    /\ watch.pc = "watch" /\ ~stop /\ ~(pkg = "away" /\ watch.missing > 0)
    /\ watch' = LET n == IF PackageGone THEN watch.missing + 1 ELSE 0
                IN [pc |-> IF n >= 1 THEN "gone" ELSE "watch", missing |-> n]
    /\ UNCHANGED <<updater, files, folder, flags, used, unit, faults>>
\* One look at the package.  While a package update runs it is away for one look at most.
Look ==
    /\ watch.pc = "watch" /\ ~stop /\ ~(pkg = "away" /\ watch.missing > 0)
    /\ watch' = LET n == IF PackageGone THEN watch.missing + 1 ELSE 0
                IN [pc |-> IF n >= 2 THEN "gone" ELSE "watch", missing |-> n]
    /\ UNCHANGED <<updater, files, folder, flags, used, unit, faults>>

\* No update from here on; one installed just now has stopped this daemon.
Mark ==
    /\ watch.pc = "gone" /\ ~Applying /\ removing' = TRUE
    /\ Watches(IF stop THEN "off" ELSE "disconnect")
    /\ UNCHANGED <<updater, files, folder, stop, restart, used, unit, faults>>

Disconnect ==
    /\ watch.pc = "disconnect" /\ used' = FALSE /\ Watches("unregister")
    /\ UNCHANGED <<updater, files, folder, flags, unit, faults>>

\* The proxy rule and the service; after a failure of either the files stay.
Unregister ==
    /\ watch.pc = "unregister"
    /\ \/ unit' = FALSE /\ Watches("delete") /\ UNCHANGED faults
       \/ unit' \in {FALSE, unit} /\ Watches("stop") /\ Fault
    /\ UNCHANGED <<updater, files, folder, flags, used>>

Delete ==
    /\ watch.pc = "delete" /\ Watches("sweep")
    /\ disk' = [f \in Files |-> 0] /\ aside' = [f \in Files |-> [i \in 1..Olds |-> 0]]
    /\ list' = {} /\ commit' = 0
    /\ UNCHANGED <<updater, folder, flags, used, unit, faults>>

\* The folders of updates that waited.
Sweep ==
    /\ watch.pc = "sweep" /\ folder' = {} /\ Watches("stop")
    /\ UNCHANGED <<updater, files, flags, used, unit, faults>>

StopItself ==
    /\ watch.pc = "stop" /\ stop' = TRUE /\ Watches("off")
    /\ UNCHANGED <<updater, files, folder, restart, removing, used, unit, faults>>

-----------------------------------------------------------------------------
Updating ==
    \/ Wake \/ Leave \/ NoUpdate \/ Got \/ Discard \/ InstallWhenIdle
    \/ WriteList \/ Swap \/ AllPlaced \/ Relist \/ Applied
    \/ \E f \in Files : Skip(f) \/ Replace(f) \/ MoveAside(f) \/ Drop(f)

Removing == Look \/ Mark \/ Disconnect \/ Unregister \/ Delete \/ Sweep \/ StopItself

Next ==
    \/ Updating \/ Offline \/ Download \/ Staged \/ Damaged
    \/ SwapBack \/ InstallFails \/ CommitFails
    \/ Removing
    \/ Start \/ Restart \/ End \/ Crash \/ Stop
    \/ Publish \/ Switch \/ Use \/ Window
    \/ \E p \in {"there", "away", "gone"} : Package(p)

Spec == Init /\ [][Next]_vars

\* The goroutines go on, the service manager starts a registered service, checks and downloads
\* do not fail for ever, and a package update ends.
FairSpec ==
    /\ Spec /\ WF_vars(Updating) /\ WF_vars(Removing)
    /\ WF_vars(Start) /\ WF_vars(Restart) /\ WF_vars(End)
    /\ SF_vars(Download) /\ SF_vars(Staged)
    /\ WF_vars(Package("there"))

=============================================================================
