------------------------------- MODULE Setup --------------------------------
(***************************************************************************)
(* Setting Uni VPN up, repairing and removing it (internal/setup, service, *)
(* desktop and the Repair button of internal/daemon): what such a process  *)
(* does to the user's files, the list of files to remove, the service and  *)
(* the app window, while the service manager starts the core again, the    *)
(* app starts a stopped service, a command fails or a process is killed.   *)
(* One such process is at work at a time.                                  *)
(***************************************************************************)
EXTENDS Naturals, Sequences, SequencesExt, FiniteSets

CONSTANTS
    Systems,    \* the operating systems, of {"linux", "macOS", "windows"}
    MaxRuns,    \* installers and removals that are started
    MaxFaults   \* commands and writes that fail, kills

ASSUME SetupAssumption ==
    Systems \subseteq {"linux", "macOS", "windows"} /\ MaxRuns \in Nat /\ MaxFaults \in Nat

VARIABLES
    system,    \* the operating system
    desktop,   \* is there a desktop: then the assistant asks, and writes config.toml
    native,    \* is there a window for the app, or does its entry open the browser
    theirs,    \* the files that were there before Uni VPN
    files,     \* those that are there now
    list,      \* installed-files.txt
    lost,      \* files whose record a kill or a full disk lost, or that never had one
    root,      \* is the installation there
    disk,      \* which version it is
    programs,  \* are openconnect and ocproxy there
    service,   \* [reg, up]: known to the service manager, meant to run
    core,      \* see Fresh
    asked,     \* StartRepair is between its look at repairProc and the start
    app,       \* does the app run
    proc,      \* the process at work, see Idle
    removed,   \* a removal said that everything is gone
    ignored,   \* history: of this process, a failure to end the service counted as success
    used       \* how often each bounded thing happened

vars == <<system, desktop, native, theirs, files, list, lost, root, disk, programs, service, core,
          asked, app, proc, removed, ignored, used>>
given == <<system, desktop, native, theirs>>
fileVars == <<files, list, lost>>
installation == <<root, disk, programs>>
running == <<service, core, asked, app>>

linux == system = "linux"
mac == system = "macOS"
windows == system = "windows"
ReinstallNeededExit == 69

\* A core that has just begun.  msg: what the page shows; "missing", "trouble" and "failed" have
\* a Repair button.  watch: a watchRepair waits for the process.
Fresh(bits) == [on |-> TRUE, bits |-> bits, msg |-> "none", reinstall |-> FALSE, watch |-> FALSE]
NoCore == [Fresh(0) EXCEPT !.on = FALSE]

\* todo: the steps ahead, <<operation, file>>; merged: what Record writes, or the files that
\* could not be deleted.
Idle == [does |-> "idle", todo |-> <<>>, merged |-> {}, code |-> 0]
Installing == proc.does \in {"install", "repair"}
Removing == proc.does \in {"remove", "self"}
AtWork == Installing \/ Removing

Fault == used.faults < MaxFaults /\ used' = [used EXCEPT !.faults = @ + 1]
Starts == used.runs < MaxRuns /\ used' = [used EXCEPT !.runs = @ + 1]

-----------------------------------------------------------------------------
\* What each process does, in order.
Do(op) == <<op, "">>
Creates(f) == <<<<"write", f>>, <<"note", f>>>>

\* Mutant: the running service is left alone.
EnableOnly == <<Do("enable")>>

\* "enable --now" leaves a running service alone.
EnableAndRestart == <<Do("enable"), Do("restart")>>

Loads ==
    CASE linux -> EnableAndRestart
      [] mac -> <<Do("bootout"), Do("bootstrap")>>
      [] windows -> <<Do("create"), Do("end"), Do("run")>>

\* The app entry and the login item.  A repair leaves a running app as it is.
Stops(keep) == IF keep THEN <<>> ELSE <<Do("stopApp")>>
InstallLinux(keep) == Creates("entry") \o Stops(keep) \o Creates("login") \o <<Do("startApp")>>
InstallMacOS(keep) == Stops(keep) \o Creates("login") \o <<Do("startApp")>>
InstallWindows(keep) ==
    Stops(keep) \o Creates("entry") \o Creates("login") \o <<Do("startApp")>>
\* Without a window of the app: its entry opens the browser, and on Linux the login item starts
\* the service.
BrowserEntry == Creates("entry") \o (IF linux THEN Creates("login") ELSE <<>>)
AppInstall(keep) ==
    CASE ~native -> BrowserEntry
      [] native /\ linux -> InstallLinux(keep)
      [] native /\ mac -> InstallMacOS(keep)
      [] native /\ windows -> InstallWindows(keep)

SetupSteps(keep) ==
    <<Do("programs")>> \o Creates("config") \o Creates("command")
    \o (IF linux THEN Creates("apport") ELSE <<>>)
    \o <<<<"write", "unit">>>> \o Loads \o <<<<"note", "unit">>, Do("proxy")>>
    \o AppInstall(keep) \o <<Do(IF desktop THEN "port" ELSE "asks")>>

Deletions == <<Do("delete"), Do("unlist"), Do("unroot")>>

\* Mutant: the service first, then the app.
ServiceFirst(service_steps) == <<Do("unproxy")>> \o service_steps \o <<Do("stopApp")>> \o Deletions

\* The app first: it starts a stopped service again.
UninstallSteps(service_steps) ==
    <<Do("unproxy"), Do("stopApp")>> \o service_steps \o Deletions

ServiceUninstall ==
    (IF windows THEN <<Do("end")>> ELSE <<>>) \o <<Do("unregister"), Do("unlink")>>
\* The core removes itself: the service is only forgotten, and ends last.
RemoveSteps == UninstallSteps(<<Do("forget"), Do("unlink")>>) \o <<Do("stop")>>

-----------------------------------------------------------------------------
At(op) == proc.todo # <<>> /\ Head(proc.todo)[1] = op
Now(op, f) == proc.todo # <<>> /\ Head(proc.todo) = <<op, f>>
GoesOn == proc' = [proc EXCEPT !.todo = Tail(@)]
Skips == proc' = [proc EXCEPT !.todo = Tail(Tail(@))]   \* a file that is not noted
Exits(code) == proc' = [proc EXCEPT !.todo = <<>>, !.code = code]
Fails == proc' = [proc EXCEPT !.todo = Tail(@), !.code = 1]   \* told in the end
\* A removal returns early; the core's own still stops the service.
GivesUp ==
    proc' = [proc EXCEPT !.todo = IF proc.does = "self" THEN <<Do("stop")>> ELSE <<>>, !.code = 1]
Begins(does, steps) ==
    proc' = [Idle EXCEPT !.does = does, !.todo = steps] /\ ignored' = FALSE
OnlyFiles == UNCHANGED <<given, list, lost, installation, running, removed, ignored>>
OnlyWrites == UNCHANGED <<given, list, installation, running, removed, ignored>>
OnlyProc == UNCHANGED <<given, fileVars, installation, running, removed, ignored>>

\* Somebody runs the installer, which puts its files in place and calls setup.
InstallBegins ==
    /\ proc.does = "idle" /\ ~removed /\ Starts
    /\ root' = TRUE /\ disk' \in {disk, 1} /\ Begins("install", SetupSteps(FALSE))
    /\ UNCHANGED <<given, fileVars, programs, running, removed>>

UninstallBegins ==
    /\ proc.does = "idle" /\ root /\ Starts /\ Begins("remove", UninstallSteps(ServiceUninstall))
    /\ UNCHANGED <<given, fileVars, installation, running, removed>>

\* The installer's folder, which a file of the installation names, is gone: the core removes
\* itself.
RemoveBegins ==
    /\ proc.does = "idle" /\ core.on /\ root /\ ~windows /\ Starts /\ Begins("self", RemoveSteps)
    /\ UNCHANGED <<given, fileVars, installation, running, removed>>

\* Without its programs setup does nothing.
LooksForPrograms ==
    /\ At("programs")
    /\ IF programs THEN GoesOn ELSE Exits(ReinstallNeededExit)
    /\ OnlyProc /\ UNCHANGED used

\* A write that fails may leave a part of the file, which nobody notes.
Written(f) == files' = files \cup {f} /\ GoesOn /\ UNCHANGED <<lost, used>>
Breaks(f) ==
    /\ Fault
    /\ \/ UNCHANGED <<files, lost>>
       \/ files' = files \cup {f} /\ lost' = lost \cup ({f} \ (theirs \cup list))

\* An existing config.toml is kept and not noted.  With a desktop the assistant writes it later,
\* and it is noted now.  Without a terminal there is nobody to ask.
WritesConfig ==
    /\ Now("write", "config")
    /\ \/ "config" \in files /\ Skips /\ UNCHANGED <<files, lost, used>>
       \/ "config" \notin files /\ desktop /\ GoesOn /\ UNCHANGED <<files, lost, used>>
       \/ "config" \notin files /\ ~desktop /\ (Written("config") \/ (Breaks("config") /\ Exits(1)))
    /\ OnlyWrites

InstallCommand ==
    /\ Now("write", "command")
    /\ \/ Written("command")
       \/ Breaks("command") /\ Exits(1)
       \/ Fault /\ Exits(1) /\ files' = files \ {"command"} /\ UNCHANGED lost
    /\ OnlyWrites

\* A file of the user's gets one more entry, and is theirs.
EnsureApportIgnore ==
    /\ Now("write", "apport")
    /\ \/ "apport" \notin files /\ Written("apport")
       \/ "apport" \in files /\ Skips /\ UNCHANGED <<files, lost, used>>
       \/ Breaks("apport") /\ Exits(1)
    /\ OnlyWrites

\* Its place is known, and no record is needed to remove it.
WritesUnit ==
    /\ Now("write", "unit") /\ UNCHANGED lost
    /\ \/ Written("unit")
       \/ Fault /\ Exits(1) /\ files' \in {files, files \cup {"unit"}}
    /\ OnlyWrites

\* Errors here are only told.  Without the entry Linux has no login item either, unless that
\* one starts the service.
WritesEntry ==
    /\ Now("write", "entry")
    /\ \/ Written("entry")
       \/ /\ Breaks("entry")
          /\ IF linux /\ native THEN proc' = [proc EXCEPT !.todo = <<Last(@)>>] ELSE Skips
    /\ OnlyWrites
\* Without the login item macOS has nothing to start the app with.
WritesLogin ==
    /\ Now("write", "login")
    /\ \/ Written("login")
       \/ /\ Breaks("login")
          /\ IF mac THEN proc' = [proc EXCEPT !.todo = <<Last(@)>>] ELSE Skips
    /\ OnlyWrites

\* Record: the list is read, and emptied before it is written.  An error is told at the end, and
\* one of the disk's leaves the list empty.
OnlyList == UNCHANGED <<given, files, installation, running, removed, ignored>>
RecordReads ==
    /\ At("note")
    /\ LET f == Head(proc.todo)[2]
       IN \/ /\ proc' = [proc EXCEPT !.merged = list \cup {f},
                                     !.todo = <<<<"noted", f>>>> \o Tail(@)]
             /\ list' = {} /\ UNCHANGED <<lost, used>>
          \/ /\ Fault /\ proc' = [proc EXCEPT !.code = 1, !.todo = Tail(@)]
             /\ lost' = lost \cup ({f} \ list) /\ UNCHANGED list
    /\ OnlyList
RecordWrites ==
    /\ At("noted")
    /\ \/ /\ list' = proc.merged /\ lost' = lost \ proc.merged
          /\ proc' = [proc EXCEPT !.merged = {}, !.todo = Tail(@)] /\ UNCHANGED used
       \/ /\ Fault /\ lost' = lost \cup proc.merged /\ UNCHANGED list
          /\ proc' = [proc EXCEPT !.merged = {}, !.code = 1, !.todo = Tail(@)]
    /\ OnlyList

-----------------------------------------------------------------------------
\* Commands to the service manager.  In setup one that fails is the end, but the file is noted.
Manages(reg, up, ends) ==
    /\ service' = [reg |-> reg, up |-> up] /\ core' = IF ends THEN NoCore ELSE core
    /\ asked' = (asked /\ ~ends) /\ GoesOn /\ UNCHANGED <<ignored, used>>
LoadFails ==
    /\ proc' = [proc EXCEPT !.todo = <<<<"note", "unit">>>>, !.code = 1]
    /\ UNCHANGED <<service, core, asked, ignored>>
\* A command that changed nothing counts as done.
Ignores == Fault /\ GoesOn /\ ignored' = TRUE /\ UNCHANGED <<service, core, asked>>
OnlyService == UNCHANGED <<given, fileVars, installation, app, removed>>

EnableNow ==
    /\ At("enable") /\ (Manages(TRUE, TRUE, FALSE) \/ (Fault /\ LoadFails))
    /\ OnlyService
Restart ==
    /\ At("restart") /\ (Manages(service.reg, TRUE, TRUE) \/ (Fault /\ LoadFails))
    /\ OnlyService
\* Nobody looks at its exit code, as the job may not be loaded; Bootstrap finds out.
Bootout ==
    /\ At("bootout")
    /\ \/ Manages(FALSE, FALSE, TRUE)
       \/ service.reg /\ Fault /\ GoesOn /\ UNCHANGED <<service, core, asked, ignored>>
    /\ OnlyService
\* Five times, a second apart; a job that is loaded cannot be loaded again.
Bootstrap ==
    /\ At("bootstrap")
    /\ \/ ~service.reg /\ Manages(TRUE, TRUE, FALSE)
       \/ service.reg /\ LoadFails /\ UNCHANGED used
       \/ Fault /\ LoadFails
    /\ OnlyService
CreateTask ==
    /\ At("create") /\ (Manages(TRUE, service.up, FALSE) \/ (Fault /\ LoadFails))
    /\ OnlyService
\* IgnoreNew: a task that runs already is left alone.
RunTask ==
    /\ At("run") /\ (Manages(service.reg, TRUE, FALSE) \/ (Fault /\ LoadFails))
    /\ OnlyService
\* After the logout.  Setup fails if the task does not stop, unless PowerShell cannot say so;
\* Uninstall does not look.
EndTask ==
    /\ At("end")
    /\ \/ Manages(service.reg, FALSE, TRUE)
       \/ Ignores
       \/ Installing /\ Fault /\ LoadFails
    /\ OnlyService

\* disable --now and bootout, whose exit codes are not looked at, and /Delete, which ends
\* nothing.  Without the command, or with the task still there, the removal goes on and fails in
\* the end.
Unregister ==
    /\ At("unregister")
    /\ \/ Manages(FALSE, FALSE, ~windows)
       \/ ~windows /\ Ignores
       \/ Fault /\ Fails /\ UNCHANGED <<service, core, asked, ignored>>
    /\ OnlyService
\* disable, on Linux; its exit code is not looked at either.
Forget ==
    /\ At("forget")
    /\ Manages(mac /\ service.reg, service.up, FALSE) \/ (linux /\ Ignores)
    /\ OnlyService
\* stop and bootout, in the same way.  The core then ends by itself in any case.
StopService ==
    /\ At("stop") /\ core' = NoCore /\ asked' = FALSE
    /\ \/ service' = [reg |-> linux /\ service.reg, up |-> FALSE] /\ UNCHANGED <<ignored, used>>
       \/ Fault /\ ignored' = TRUE /\ UNCHANGED service
    /\ proc' = Idle /\ removed' = (proc.code = 0)
    /\ UNCHANGED <<given, fileVars, installation, app>>

-----------------------------------------------------------------------------
\* The proxy rule is module Proxy's.  An error ends setup and removal; a setting that could not
\* be restored makes the removal fail in the end.
ProxyInstall ==
    /\ At("proxy") /\ OnlyProc
    /\ (GoesOn /\ UNCHANGED used) \/ (Fault /\ Exits(1))
ProxyUninstall ==
    /\ At("unproxy") /\ OnlyProc
    /\ \/ GoesOn /\ UNCHANGED used
       \/ Fault /\ (GivesUp \/ Fails)

OnlyApp ==
    UNCHANGED <<given, fileVars, installation, service, core, asked, removed, ignored, used>>
StopsApp == At("stopApp") /\ app' = FALSE /\ GoesOn /\ OnlyApp
\* Linux without a panel for its icon starts no app.
StartsApp ==
    /\ At("startApp") /\ GoesOn /\ OnlyApp
    /\ \/ app' = (app \/ ~windows \/ "login" \in files)
       \/ linux /\ UNCHANGED app

\* The end of setup: the port answers, or not within 15 seconds; questions in the terminal.
WaitsForPort ==
    /\ At("port") /\ (GoesOn \/ (~core.on /\ Exits(1)))
    /\ OnlyProc /\ UNCHANGED used
AsksSecrets ==
    /\ At("asks") /\ OnlyProc
    /\ (GoesOn /\ UNCHANGED used) \/ (Fault /\ Exits(1))

\* Removing files: the unit, the listed ones, the list, the installation.
Unlinks ==
    /\ At("unlink")
    /\ \/ files' = files \ {"unit"} /\ GoesOn /\ UNCHANGED used
       \/ Fault /\ Fails /\ UNCHANGED files
    /\ OnlyFiles
Deletes ==
    /\ At("delete")
    /\ LET left == (list \cap files) \ proc.merged
       IN \/ /\ left = {} /\ proc' = [proc EXCEPT !.merged = {}, !.todo = Tail(@)]
             /\ UNCHANGED <<files, lost, used>>
          \/ \E f \in left :
                \/ files' = files \ {f} /\ UNCHANGED <<proc, lost, used>>
                \/ /\ Fault /\ lost' = lost \cup {f} /\ UNCHANGED files
                   /\ proc' = [proc EXCEPT !.merged = @ \cup {f}]
    /\ UNCHANGED <<given, list, installation, running, removed, ignored>>
\* Then the keyring, which may refuse, unless the core removes itself.
RemovesList ==
    /\ At("unlist") /\ list' = {}
    /\ \/ GoesOn /\ UNCHANGED used
       \/ proc.does = "remove" /\ Fault /\ GivesUp
    /\ OnlyList /\ UNCHANGED lost
\* After a failure the installation stays, so that the removal can run again.
RemovesRoot ==
    /\ At("unroot") /\ root' = (proc.code # 0) /\ GoesOn
    /\ UNCHANGED <<given, fileVars, disk, programs, running, removed, ignored, used>>

\* The process ends; the core may be waiting for a repair.
Ended == IF core.watch THEN [proc EXCEPT !.does = "ended", !.todo = <<>>, !.merged = {}] ELSE Idle
Ends ==
    /\ AtWork /\ proc.todo = <<>> /\ proc' = Ended
    /\ removed' = (removed \/ (proc.does = "remove" /\ ~root))
    /\ UNCHANGED <<given, fileVars, installation, running, ignored, used>>

\* It is killed: what is not in the list then never will be.
Killed ==
    /\ AtWork /\ proc.does # "self" /\ proc.todo # <<>> /\ Fault
    /\ proc' = [Ended EXCEPT !.code = IF core.watch THEN 1 ELSE 0]
    /\ lost' = IF Removing THEN lost ELSE lost \cup ((files \cup proc.merged) \ (theirs \cup list))
    /\ UNCHANGED <<given, files, list, installation, running, removed, ignored>>

-----------------------------------------------------------------------------
\* The core and its Repair button.
OnlyCore == UNCHANGED <<given, fileVars, installation, service, app, removed, ignored>>
Repairing == core.watch /\ proc.does = "repair"
OffersRepair == core.msg \in {"repairing", "missing", "failed", "trouble"}

\* The service manager starts the core, again and again.
CoreStarts ==
    /\ service.up /\ ~core.on /\ root
    /\ core' = Fresh(disk)
    /\ OnlyCore /\ UNCHANGED <<asked, proc, used>>
\* It ends unexpectedly, and a removal of itself with it.
CoreEnds ==
    /\ core.on /\ Fault
    /\ core' = NoCore /\ asked' = FALSE
    /\ proc' = IF proc.does \in {"self", "ended"} THEN Idle ELSE proc
    /\ OnlyCore

\* An attempt to connect finds a program missing, another problem, or none.  Without a repair
\* before it, that says nothing of one.
Attempts ==
    /\ core.on /\ (core.watch \/ core.reinstall)
    /\ \/ programs /\ core' = [core EXCEPT !.msg = "none"]
       \/ programs /\ core' = [core EXCEPT !.msg = "trouble"]
       \/ /\ ~programs
          /\ core' = [core EXCEPT !.msg = IF core.reinstall THEN "reinstall" ELSE "missing"]
    /\ OnlyCore /\ UNCHANGED <<asked, proc, used>>

\* The installer, or this program's own setup, which leaves the app window open.
RepairCommand == SetupSteps(TRUE)

\* StartRepair: nothing while one runs.  The lock is released for the start, in the folder of the
\* installation.
RequestRepair ==
    /\ core.on /\ ~Repairing /\ ~asked /\ Starts /\ asked' = TRUE
    /\ OnlyCore /\ UNCHANGED <<core, proc>>
StartRepair ==
    /\ asked /\ asked' = FALSE /\ proc.does = "idle"
    /\ \/ /\ root /\ Begins("repair", RepairCommand) /\ UNCHANGED used
          /\ core' = [core EXCEPT !.msg = "repairing", !.watch = TRUE]
       \/ /\ Fault \/ (~root /\ UNCHANGED used)
          /\ core' = [core EXCEPT !.msg = "failed"] /\ UNCHANGED <<proc, ignored>>
    /\ UNCHANGED <<given, fileVars, installation, service, app, removed>>

\* Mutant: what an attempt found meanwhile stays.
AfterRepairAlone(code) ==
    IF code = ReinstallNeededExit /\ core.msg = "repairing" THEN "reinstall"
    ELSE IF core.msg # "repairing" THEN core.msg
    ELSE IF code = 0 THEN "none" ELSE "failed"

\* What the page shows after a repair with this exit code.
AfterRepair(code) ==
    IF code = ReinstallNeededExit /\ core.msg \in {"repairing", "missing"} THEN "reinstall"
    ELSE IF ~OffersRepair THEN core.msg
    ELSE IF code = 0 THEN "none" ELSE "failed"

WatchRepair ==
    /\ proc.does = "ended" /\ proc' = Idle
    /\ core' = [core EXCEPT !.watch = FALSE, !.msg = AfterRepair(proc.code),
                            !.reinstall = @ \/ proc.code = ReinstallNeededExit]
    /\ OnlyCore /\ UNCHANGED <<asked, used>>

\* The assistant writes config.toml.  A removal that failed has left no list to find it in, and a
\* setup that finds the file there does not note it.
AssistantWrites ==
    /\ core.on /\ "config" \notin files /\ ~Removing
    /\ files' = files \cup {"config"}
    /\ lost' = lost \cup {f \in {"config"} \ (list \cup proc.merged) : ~Now("note", f)}
    /\ UNCHANGED <<given, list, installation, running, proc, removed, ignored, used>>

\* The app finds no core for a while, and has the service manager start it.
StartServiceIfDown ==
    /\ app /\ ~core.on /\ ~service.up /\ root
    /\ IF windows THEN service.reg ELSE "unit" \in files
    /\ service' = [reg |-> service.reg \/ mac, up |-> TRUE]
    /\ UNCHANGED <<given, fileVars, installation, core, asked, app, proc, removed, ignored, used>>

\* openconnect is uninstalled.
ProgramGoes ==
    /\ programs /\ Fault /\ programs' = FALSE
    /\ UNCHANGED <<given, fileVars, root, disk, running, proc, removed, ignored>>

-----------------------------------------------------------------------------
Init ==
    /\ system \in Systems /\ desktop \in BOOLEAN /\ native \in BOOLEAN
    /\ theirs \in SUBSET (IF linux THEN {"config", "apport"} ELSE {"config"})
    /\ files = theirs /\ list = {} /\ lost = {}
    /\ root = FALSE /\ disk = 0 /\ programs = TRUE
    /\ service = [reg |-> FALSE, up |-> FALSE] /\ core = NoCore /\ asked = FALSE /\ app = FALSE
    /\ proc = Idle /\ removed = FALSE /\ ignored = FALSE
    /\ used = [runs |-> 0, faults |-> 0]

Step ==
    \/ LooksForPrograms
    \/ WritesConfig \/ InstallCommand \/ EnsureApportIgnore \/ WritesUnit \/ WritesEntry
    \/ WritesLogin \/ RecordReads \/ RecordWrites
    \/ EnableNow \/ Restart \/ Bootout \/ Bootstrap \/ CreateTask \/ EndTask \/ RunTask
    \/ Unregister \/ Forget \/ StopService
    \/ ProxyInstall \/ ProxyUninstall \/ StopsApp \/ StartsApp \/ WaitsForPort \/ AsksSecrets
    \/ Unlinks \/ Deletes \/ RemovesList \/ RemovesRoot \/ Ends

Next ==
    \/ InstallBegins \/ UninstallBegins \/ RemoveBegins \/ Step \/ Killed
    \/ CoreStarts \/ CoreEnds \/ Attempts \/ RequestRepair \/ StartRepair \/ WatchRepair
    \/ AssistantWrites \/ StartServiceIfDown \/ ProgramGoes

Spec == Init /\ [][Next]_vars
=============================================================================
