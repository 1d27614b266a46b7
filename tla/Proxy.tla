------------------------------- MODULE Proxy --------------------------------
(***************************************************************************)
(* The proxy rule in the system's settings (internal/sysproxy): setup puts *)
(* it there and takes it back, the core gives it a new address whenever    *)
(* the rule changes and, on macOS, hands it to network services added      *)
(* later.  Setup and the core are two processes that share the settings    *)
(* and the backup file.                                                    *)
(*                                                                         *)
(* An address is a number: ours with version v is v (0 is the plain one of *)
(* older installers), the others are named below.  A place is a network    *)
(* service of macOS, GNOME, KDE, or the registry of Windows.               *)
(***************************************************************************)
EXTENDS Integers, Sequences, SequencesExt, FiniteSets, FiniteSetsExt, Functions

CONSTANTS
    Systems,     \* the operating systems, of {"macOS", "linux", "windows"}
    Events,      \* what happens to them: see EventNames
    MaxSetups,   \* runs of the installer
    MaxRules,    \* changes of the rule
    MaxChanges,  \* changes from outside
    MaxFaults,   \* crashes and commands that fail
    MaxTroubles  \* the two together, except on macOS

EventNames == {"user", "service", "clock", "fail", "crash", "update"}
ASSUME ProxyAssumption ==
    /\ Systems \subseteq {"macOS", "linux", "windows"}
    /\ Events \subseteq EventNames
    /\ MaxSetups \in Nat /\ MaxRules \in Nat /\ MaxChanges \in Nat /\ MaxFaults \in Nat
    /\ MaxTroubles \in Nat

Nobody == -1    \* no address
Theirs == -2    \* one of the user's own
Manual == -3    \* not an address: a proxy set by hand (GNOME's mode "manual")
Same == -4      \* a command that leaves the address alone
Unset == -5     \* the backup has not been told of this place

IsOurs(addr) == addr >= 0

PlacesOf(os) ==
    CASE os = "macOS" -> {"wifi", "dock"}
      [] os = "linux" -> {"gnome", "kde"}
      [] os = "windows" -> {"registry"}

VARIABLES
    system,   \* the operating system
    places,   \* place -> [there, mode, addr]
    backup,   \* the file: [is: "none", "torn" or "whole", of: place -> [mode, addr]]
    clock,    \* Now, in seconds
    rule,     \* the rule the core answers with, as a number
    told,     \* pac-sum: the rule the browsers were last told about
    seen,     \* place -> the rule the browsers that follow it have loaded
    core,     \* is the core running
    th,       \* its threads: "start" (Run's goroutine, then the ticker) and "edit" (a page)
    setup,    \* the installer
    loaded,   \* macOS: address -> the rule loaded there, kept until the user signs out
    orig,     \* place -> what the backup was first told of it, or Unset
    removed,  \* a removal said that the setting is restored, or was never set
    slip,     \* one of the known windows in which a removal misses a place was met
    missed,   \* one of those in which the browsers are not told was met
    overlap,  \* macOS: two writers of addresses were at work at once
    used      \* how often each bounded thing happened

vars == <<system, places, backup, clock, rule, told, seen, loaded, core, th, setup, orig, removed,
          slip, missed, overlap, used>>
placeVars == <<places, seen, loaded>>

mac == system = "macOS"
Threads == {"start", "edit"}
Here == {p \in DOMAIN places : places[p].there = "on"}       \* what Current can read
Setting(p) == [mode |-> places[p].mode, addr |-> places[p].addr]
Effect(s) == CASE s.mode = "auto" -> s.addr [] s.mode = "manual" -> Manual [] OTHER -> Nobody
OnRule(s) == s.mode = "auto" /\ IsOurs(s.addr)
\* The order of the places, as networksetup lists them; GNOME comes before KDE.
Listed(ps) == SelectSeq(<<"wifi", "dock", "gnome", "kde", "registry">>, LAMBDA p : p \in ps)
Used(what) == used' = [used EXCEPT ![what] = @ + 1]
\* What goes wrong, or changes from outside.
Room == used.changes + used.faults < (IF mac THEN MaxChanges + MaxFaults ELSE MaxTroubles)
Fault(kind) == kind \in Events /\ used.faults < MaxFaults /\ Room /\ Used("faults")
Changes(kind) == kind \in Events /\ used.changes < MaxChanges /\ Room /\ Used("changes")

-----------------------------------------------------------------------------
\* Commands.  Each changes one place; GNOME and KDE take two for a setting.
Command(p, mode, addr) == [at |-> p, mode |-> mode, addr |-> addr]

Point(p, addr) ==
    IF system = "linux" THEN <<Command(p, "same", addr), Command(p, "auto", Same)>>
    ELSE <<Command(p, IF addr = Nobody THEN "off" ELSE "auto", addr)>>

PutBack(p, s) ==
    CASE mac /\ s.mode = "auto" /\ s.addr # Nobody -> <<Command(p, "auto", s.addr)>>
      [] mac /\ ~(s.mode = "auto" /\ s.addr # Nobody) -> <<Command(p, "off", Same)>>
      [] p = "gnome" -> <<Command(p, s.mode, Same), Command(p, "same", s.addr)>>
      [] p = "kde" -> <<Command(p, "same", s.addr), Command(p, s.mode, Same)>>
      [] p = "registry" -> Point(p, s.addr)

After(s, c) ==
    [s EXCEPT !.mode = IF c.mode = "same" THEN @ ELSE c.mode,
              !.addr = IF c.addr = Same THEN @ ELSE c.addr]

\* The command has its effect.  Browsers load the rule again at a new address only; macOS
\* keeps the rule it loaded from an address.
Runs(c) ==
    LET p == c.at
        after == After(places[p], c)
        Kept == mac /\ after.addr \in DOMAIN loaded
    IN /\ places[p].there # "gone"
       /\ places' = [places EXCEPT ![p] = after]
       /\ IF OnRule(after) /\ after # places[p]
          THEN /\ seen' = [seen EXCEPT ![p] = IF Kept THEN loaded[after.addr] ELSE rule]
               /\ loaded' = IF mac /\ ~Kept THEN loaded @@ (after.addr :> rule) ELSE loaded
          ELSE /\ seen' = IF OnRule(after) THEN seen ELSE [seen EXCEPT ![p] = -1]
               /\ UNCHANGED loaded
       /\ UNCHANGED used
\* It does not: its service is gone, or it exits non-zero.
Fails(c) ==
    /\ \/ places[c.at].there = "gone" /\ UNCHANGED used
       \/ Fault("fail")
    /\ UNCHANGED placeVars

-----------------------------------------------------------------------------
\* Mutant: the time alone.
PastIgnored(now, addr) == now

\* past: the time, or past the version in addr when that is as new or newer.
Past(now, addr) == IF addr >= now /\ addr > 0 THEN addr + 1 ELSE now

Fresh(addr) == Past(clock, addr)

\* Current: what the places that are here are set to.
Current == [p \in Here |-> Setting(p)]
AddressesIn(s) == {s[p].addr : p \in DOMAIN s}
NewVersion(s) == Max({Past(clock, a) : a \in {b \in AddressesIn(s) : IsOurs(b)}} \cup {clock})

\* backUpNew: the services the backup does not know, noted as off where they use our rule.
Added(s) == IF ~mac \/ backup.is # "whole" THEN {} ELSE DOMAIN s \ DOMAIN backup.of
Off == [mode |-> "off", addr |-> Nobody]
Blank(there) == Off @@ [there |-> there]
WithAdded(s, ps) ==
    [p \in DOMAIN backup.of \cup ps |->
        IF p \in DOMAIN backup.of THEN backup.of[p] ELSE IF IsOurs(s[p].addr) THEN Off ELSE s[p]]

Whole(content) == [is |-> "whole", of |-> content]
Torn == [is |-> "torn", of |-> <<>>]
NoBackup == [is |-> "none", of |-> <<>>]

Recorded(save) ==
    orig' = [p \in DOMAIN orig |->
                IF orig[p] = Unset /\ p \in DOMAIN save THEN Effect(save[p]) ELSE orig[p]]

Resting == [pc |-> "idle", ask |-> <<>>, todo |-> <<>>, save |-> <<>>]
SetupIdle == [pc |-> "idle", todo |-> <<>>, save |-> <<>>, addr |-> Nobody, ok |-> TRUE]
Saving(t) == th[t].pc = "coverSaves"
Listing == setup.pc \in {"backs", "savesFirst", "savesNew", "lists"}
Removing == setup.pc \in {"restores", "removes", "service"}
\* Killed between the note that the browsers were told and the last command that tells them.
CutShort == \E t \in Threads : th[t].pc = "refresh"

-----------------------------------------------------------------------------
\* The installer.  The service was set up and started before: a core of this version answers,
\* whose rule may be another one.
InstallBegins ==
    /\ setup.pc = "idle" /\ used.setups < MaxSetups /\ Used("setups")
    /\ setup' = [setup EXCEPT !.pc = "reads"]
    /\ core' = TRUE
    /\ th' = [edit |-> Resting, start |-> [Resting EXCEPT !.pc = "checks"]]
    /\ rule' \in {rule} \cup (IF "update" \in Events /\ rule < MaxRules THEN {rule + 1} ELSE {})
    /\ removed' = FALSE /\ orig' = IF removed THEN [p \in DOMAIN orig |-> Unset] ELSE orig
    /\ missed' = (missed \/ CutShort)
    /\ slip' = (slip \/ \E t \in Threads : Saving(t))
    /\ UNCHANGED <<system, placeVars, backup, clock, told>>

SetupOnly == UNCHANGED <<system, clock, rule, told, core, th>>

\* before: all places, or (GNOME or KDE did not answer this time) one of them.
InstallReads ==
    /\ setup.pc = "reads"
    /\ \/ setup' = [setup EXCEPT !.pc = "backs", !.save = Current, !.addr = NewVersion(Current)]
          /\ Here # {} /\ UNCHANGED <<used, slip>>
       \/ /\ Fault("fail")
          /\ \/ setup' = SetupIdle /\ UNCHANGED slip
             \/ \E p \in Here :
                   /\ system = "linux" /\ Here # {p}
                   /\ setup' = [setup EXCEPT !.pc = "backs", !.save = Restrict(Current, {p}),
                                             !.addr = NewVersion(Restrict(Current, {p}))]
                   /\ slip' = TRUE
    /\ SetupOnly /\ UNCHANGED <<placeVars, backup, orig, removed, missed>>

\* Mutant: the backup is written each time.
InstallBacksUpAgain ==
    /\ setup.pc = "backs"
    /\ setup' = [setup EXCEPT !.pc = "savesFirst"] /\ backup' = Torn
    /\ SetupOnly /\ UNCHANGED <<placeVars, orig, removed, slip, missed, used>>

\* The backup: the first one, or (Repair, the installer again) the services it does not know.
InstallBacksUp ==
    /\ setup.pc = "backs"
    /\ LET added == Added(setup.save)
       IN CASE backup.is = "none" ->
                 setup' = [setup EXCEPT !.pc = "savesFirst"] /\ backup' = Torn
            [] backup.is # "none" /\ added # {} ->
                 /\ setup' = [setup EXCEPT !.pc = "savesNew", !.save = WithAdded(@, added)]
                 /\ backup' = Torn
            [] OTHER -> setup' = [setup EXCEPT !.pc = "lists", !.save = <<>>] /\ UNCHANGED backup
    /\ SetupOnly /\ UNCHANGED <<placeVars, orig, removed, slip, missed, used>>

\* The file was emptied; now it is whole, or the disk is full.
InstallSaves ==
    /\ setup.pc \in {"savesFirst", "savesNew"}
    /\ \/ /\ backup' = Whole(setup.save) /\ Recorded(setup.save)
          /\ setup' = [setup EXCEPT !.pc = "lists", !.save = <<>>] /\ UNCHANGED <<slip, used>>
       \/ /\ Fault("fail")
          /\ setup' = IF setup.pc = "savesFirst" THEN SetupIdle ELSE [setup EXCEPT !.pc = "lists", !.save = <<>>]
          /\ slip' = TRUE /\ UNCHANGED <<backup, orig>>
    /\ SetupOnly /\ UNCHANGED <<placeVars, removed, missed>>

\* Apply lists the places once more.
InstallLists ==
    /\ setup.pc = "lists"
    /\ LET ps == Listed(Here)
       IN setup' = [SetupIdle EXCEPT !.pc = IF ps = <<>> THEN "idle" ELSE "applies",
                       !.todo = FlattenSeq([i \in DOMAIN ps |-> Point(ps[i], setup.addr)])]
    /\ SetupOnly /\ UNCHANGED <<placeVars, backup, orig, removed, slip, missed, used>>

InstallApplies ==
    /\ setup.pc = "applies"
    /\ \/ /\ Runs(Head(setup.todo))
          /\ setup' = IF Len(setup.todo) = 1 THEN SetupIdle ELSE [setup EXCEPT !.todo = Tail(@)]
          /\ UNCHANGED missed
       \/ Fails(Head(setup.todo)) /\ setup' = SetupIdle /\ missed' = TRUE
    /\ SetupOnly /\ UNCHANGED <<backup, orig, removed, slip>>

\* Uninstall: without a readable backup "the proxy setting was not set by uni-vpn".  A service
\* gone since has nothing to put back.
UninstallReads ==
    /\ setup.pc = "idle" /\ used.setups < MaxSetups /\ Used("setups")
    /\ IF backup.is = "whole"
       THEN LET ps == Listed({p \in DOMAIN backup.of : ~mac \/ places[p].there # "gone"})
                todo == FlattenSeq([i \in DOMAIN ps |-> PutBack(ps[i], backup.of[ps[i]])])
            IN /\ setup' = [setup EXCEPT !.pc = IF todo = <<>> THEN "removes" ELSE "restores",
                                         !.todo = todo]
               /\ missed' = (missed \/ mac) /\ UNCHANGED <<removed, slip>>
       ELSE /\ setup' = [setup EXCEPT !.pc = "service"]
            /\ removed' = TRUE /\ slip' = (slip \/ Saving("start")) /\ UNCHANGED missed
    /\ SetupOnly /\ UNCHANGED <<placeVars, backup, orig>>

\* On macOS one service that fails keeps none of the others from being restored.
UninstallRestores ==
    /\ setup.pc = "restores"
    /\ LET Done(ok, todo) ==
             setup' = IF todo # <<>> THEN [setup EXCEPT !.todo = todo, !.ok = ok]
                      ELSE [SetupIdle EXCEPT !.pc = IF ok THEN "removes" ELSE "service"]
       IN \/ Runs(Head(setup.todo)) /\ Done(setup.ok, Tail(setup.todo))
          \/ Fails(Head(setup.todo)) /\ Done(FALSE, IF mac THEN Tail(setup.todo) ELSE <<>>)
    /\ SetupOnly /\ UNCHANGED <<backup, orig, removed, slip, missed>>

UninstallRemovesBackup ==
    /\ setup.pc = "removes"
    /\ \/ /\ backup' = NoBackup /\ removed' = TRUE
          /\ setup' = [SetupIdle EXCEPT !.pc = "service"] /\ UNCHANGED used
       \/ /\ Fault("fail")
          /\ setup' = SetupIdle /\ UNCHANGED <<backup, removed>>
    /\ SetupOnly /\ UNCHANGED <<placeVars, orig, slip, missed>>

\* Only now is the service removed, which ends the core.
UninstallEndsCore ==
    /\ setup.pc = "service"
    /\ setup' = SetupIdle /\ core' = FALSE /\ th' = [t \in Threads |-> Resting]
    /\ slip' = (slip \/ Saving("start")) /\ missed' = (missed \/ CutShort)
    /\ UNCHANGED <<system, placeVars, backup, clock, rule, told, orig, removed, used>>

\* The installer is closed or killed.
SetupKilled ==
    /\ setup.pc # "idle" /\ Fault("crash")
    /\ setup' = SetupIdle
    /\ slip' = (slip \/ setup.pc \in {"savesFirst", "savesNew"})
    /\ missed' = (missed \/ setup.pc = "applies")
    /\ SetupOnly /\ UNCHANGED <<placeVars, backup, orig, removed>>

-----------------------------------------------------------------------------
\* The core.  It writes the settings while a removal is on its way, or over.
CoreOnly == UNCHANGED <<system, clock, core, setup, removed>>
Late == Removing \/ removed
Goes(t, pc) == th' = [th EXCEPT ![t] = [Resting EXCEPT !.pc = pc]]

CoreEnds ==
    /\ core /\ Fault("crash")
    /\ core' = FALSE /\ th' = [t \in Threads |-> Resting]
    /\ slip' = (slip \/ Saving("start")) /\ missed' = (missed \/ CutShort)
    /\ UNCHANGED <<system, placeVars, backup, clock, rule, told, setup, orig, removed>>

\* It is started again, perhaps as another version with another rule.
CoreStarts ==
    /\ ~core /\ backup.is # "none"
    /\ core' = TRUE /\ Goes("start", "checks")
    /\ rule' \in {rule} \cup (IF "update" \in Events /\ rule < MaxRules THEN {rule + 1} ELSE {})
    /\ UNCHANGED <<system, placeVars, backup, clock, told, setup, orig, removed, slip, missed,
                   used>>

\* refreshIfRuleChanged.
Unversioned == \E p \in Here : OnRule(places[p]) /\ places[p].addr = 0
StartChecks ==
    /\ th["start"].pc = "checks"
    /\ Goes("start", IF told = rule /\ ~Unversioned THEN "covers" ELSE "tells")
    /\ CoreOnly /\ UNCHANGED <<placeVars, backup, rule, told, orig, slip, missed, used>>

\* The list of websites is saved.
DomainsSaved ==
    /\ core /\ th["edit"].pc = "idle" /\ rule < MaxRules
    /\ rule' = rule + 1 /\ Goes("edit", "tells")
    /\ CoreOnly /\ UNCHANGED <<placeVars, backup, told, orig, slip, missed, used>>

\* refreshProxy: first the note of the rule the browsers are told about, then Refresh, which
\* reads macOS's services at once, GNOME and KDE one after the other.
Groups == CASE mac -> <<{"wifi", "dock"}>> [] system = "linux" -> <<{"gnome"}, {"kde"}>>
            [] OTHER -> <<{"registry"}>>
RefreshTells(t) ==
    /\ th[t].pc = "tells"
    /\ told' = rule
    /\ th' = [th EXCEPT ![t] = [Resting EXCEPT !.pc = "refresh", !.ask = Groups]]
    /\ CoreOnly /\ UNCHANGED <<placeVars, backup, rule, orig, slip, missed, used>>

NewAddress(p) ==
    IF p = "gnome" THEN <<Command(p, "same", Fresh(places[p].addr))>>
    ELSE Point(p, Fresh(places[p].addr))

\* After the last command: Run's goroutine goes on to Cover.
Refreshed(t, ask, todo) ==
    th' = [th EXCEPT ![t] =
             IF ask # <<>> \/ todo # <<>> THEN [th[t] EXCEPT !.ask = ask, !.todo = todo]
             ELSE [Resting EXCEPT !.pc = IF t = "start" THEN "covers" ELSE "idle"]]

RefreshReads(t) ==
    /\ th[t].pc = "refresh" /\ th[t].todo = <<>>
    /\ LET ps == Listed({p \in Head(th[t].ask) \cap Here : OnRule(places[p])})
       IN Refreshed(t, Tail(th[t].ask), FlattenSeq([i \in DOMAIN ps |-> NewAddress(ps[i])]))
    /\ CoreOnly /\ UNCHANGED <<placeVars, backup, rule, told, orig, slip, missed, used>>

\* Errors are ignored, but without gsettings KDE is not asked.
RefreshSets(t) ==
    /\ th[t].pc = "refresh" /\ th[t].todo # <<>>
    /\ \/ /\ Runs(Head(th[t].todo)) /\ Refreshed(t, th[t].ask, Tail(th[t].todo))
          /\ slip' = (slip \/ Late) /\ UNCHANGED missed
       \/ /\ Fails(Head(th[t].todo)) /\ missed' = TRUE /\ UNCHANGED slip
          /\ \/ Refreshed(t, th[t].ask, IF mac THEN Tail(th[t].todo) ELSE <<>>)
             \/ Head(th[t].todo).at = "gnome" /\ Refreshed(t, <<>>, <<>>)
    /\ CoreOnly /\ UNCHANGED <<backup, rule, told, orig>>

\* Cover: our address for services that are new and have none, while another one has it.
NoProxy(s) == s.mode # "auto" /\ s.addr = Nobody
OnOurs == SelectSeq(Listed(Here), LAMBDA p : OnRule(places[p]))
CoverReads ==
    /\ th["start"].pc = "covers"
    /\ LET added == IF OnOurs = <<>> THEN {} ELSE {p \in Added(Current) : NoProxy(places[p])}
           ps == Listed(added)
       IN IF added = {} THEN Goes("start", "idle") /\ UNCHANGED backup
          ELSE /\ backup' = Torn
               /\ th' = [th EXCEPT !["start"] =
                    [Resting EXCEPT !.pc = "coverSaves", !.save = WithAdded(Current, added),
                       !.todo = [i \in DOMAIN ps |->
                                    Command(ps[i], "auto", places[OnOurs[1]].addr)]]]
    /\ CoreOnly /\ UNCHANGED <<placeVars, rule, told, orig, slip, missed, used>>

CoverSaves ==
    /\ Saving("start")
    /\ \/ /\ backup' = Whole(th["start"].save) /\ Recorded(th["start"].save)
          /\ th' = [th EXCEPT !["start"].pc = "coverSets", !["start"].save = <<>>]
          /\ slip' = (slip \/ Late) /\ UNCHANGED used
       \/ /\ Fault("fail")
          /\ Goes("start", "idle") /\ slip' = TRUE /\ UNCHANGED <<backup, orig>>
    /\ CoreOnly /\ UNCHANGED <<placeVars, rule, told, missed>>

CoverSets ==
    /\ th["start"].pc = "coverSets"
    /\ LET c == Head(th["start"].todo)
       IN \/ Runs(c) /\ slip' = (slip \/ Late)
          \/ Fails(c) /\ UNCHANGED slip
    /\ IF Len(th["start"].todo) = 1 THEN Goes("start", "idle")
       ELSE th' = [th EXCEPT !["start"].todo = Tail(@)]
    /\ CoreOnly /\ UNCHANGED <<backup, rule, told, orig, missed>>

\* The ticker looks for new services now and then.
TickerCovers ==
    /\ core /\ th["start"].pc = "idle" /\ mac /\ Goes("start", "covers")
    /\ CoreOnly /\ UNCHANGED <<placeVars, backup, rule, told, orig, slip, missed, used>>

-----------------------------------------------------------------------------
\* What happens to the system from outside.
Outside == UNCHANGED <<system, backup, rule, told, loaded, core, th, setup, removed>>

UserSets(p) ==
    /\ Changes("user") /\ p \in Here
    /\ places' = [places EXCEPT ![p] =
          CASE p = "registry" -> Off @@ @
            [] p = "gnome" -> [mode |-> "manual", addr |-> Nobody] @@ @
            [] OTHER -> [mode |-> "auto", addr |-> Theirs] @@ @]
    /\ orig' = [orig EXCEPT ![p] = IF Late THEN Unset ELSE @]
    /\ missed' = (missed \/ (mac /\ OnRule(places[p])))
    /\ seen' = [seen EXCEPT ![p] = -1]
    /\ Outside /\ UNCHANGED <<clock, slip>>

\* A network service is added, switched off or on, or removed; a session of another desktop.
ServiceChanges(p) ==
    /\ Changes("service") /\ p \in DOMAIN places \cap {"dock", "kde"}
    /\ mac \/ setup.pc = "idle"
    /\ \E there \in {"on", "off", "gone"} \ {places[p].there} :
          /\ mac \/ (there # "gone" /\ places[p].there # "gone")
          /\ places' = [places EXCEPT ![p] =
                           IF @.there = "gone" THEN Blank(there) ELSE [@ EXCEPT !.there = there]]
          /\ orig' = [orig EXCEPT ![p] = IF places[p].there = "gone" /\ Late THEN Unset ELSE @]
          /\ LET new == there = "on"
                 unknown == IF mac THEN Listing ELSE backup.is # "none" /\ orig[p] = Unset
             IN /\ slip' = (slip \/ (new /\ unknown))
                /\ missed' = (missed \/ (new /\ OnRule(places[p])))
    /\ Outside /\ UNCHANGED <<clock, seen>>

\* The clock is set back; time that goes on matters where addresses are remembered.
ClockSet ==
    /\ Changes("clock") /\ clock' \in IF mac THEN {1, 3} ELSE {1}
    /\ Outside /\ UNCHANGED <<places, seen, orig, slip, missed>>

-----------------------------------------------------------------------------
\* A system without uni-vpn, or one that an older installer gave the plain address.
Settings(p) ==
    CASE p = "dock" -> {Blank("on"), Blank("gone")}
      [] p = "kde" -> {Blank("on")}
      [] OTHER -> {[there |-> "on", mode |-> "auto", addr |-> Theirs]}
Before == UNION {{s \in [PlacesOf(os) -> UNION {Settings(p) : p \in PlacesOf(os)}] :
                     \A p \in PlacesOf(os) : s[p] \in Settings(p)} : os \in Systems}
Plain(s) == IF s.there = "on" THEN [s EXCEPT !.mode = "auto", !.addr = 0] ELSE s

Init ==
    \E set \in Before, installed \in BOOLEAN :
        LET ps == {p \in DOMAIN set : set[p].there = "on"}
            was == [p \in ps |-> [mode |-> set[p].mode, addr |-> set[p].addr]]
        IN /\ system \in Systems /\ DOMAIN set = PlacesOf(system)
           /\ places = [p \in DOMAIN set |-> IF installed THEN Plain(set[p]) ELSE set[p]]
           /\ backup = IF installed THEN Whole(was) ELSE NoBackup
           /\ orig = [p \in DOMAIN set |-> IF installed /\ p \in ps THEN Effect(was[p]) ELSE Unset]
           /\ seen = [p \in DOMAIN set |-> IF installed /\ p \in ps THEN 0 ELSE -1]
           /\ loaded = IF installed /\ mac THEN (0 :> 0) ELSE <<>>
           /\ clock = 2 /\ rule = 0 /\ told = IF installed THEN 0 ELSE -1
           /\ core = FALSE /\ th = [t \in Threads |-> Resting] /\ setup = SetupIdle
           /\ removed = FALSE /\ slip = FALSE /\ missed = FALSE /\ overlap = FALSE
           /\ used = [setups |-> 0, changes |-> 0, faults |-> 0]

Writers == {t \in Threads : th[t].todo # <<>>}
           \cup (IF Listing \/ setup.pc = "applies" THEN {"setup"} ELSE {})

Step ==
    \/ InstallBegins \/ InstallReads \/ InstallBacksUp \/ InstallSaves \/ InstallLists
    \/ InstallApplies \/ UninstallReads \/ UninstallRestores \/ UninstallRemovesBackup
    \/ UninstallEndsCore \/ SetupKilled
    \/ CoreEnds \/ CoreStarts \/ StartChecks \/ DomainsSaved
    \/ \E t \in Threads : RefreshTells(t) \/ RefreshReads(t) \/ RefreshSets(t)
    \/ CoverReads \/ CoverSaves \/ CoverSets \/ TickerCovers
    \/ \E p \in DOMAIN places : UserSets(p) \/ ServiceChanges(p)
    \/ ClockSet

\* A behaviour is followed while it can say something of one of the two.
Next ==
    /\ ~(slip /\ (missed \/ overlap)) /\ Step
    /\ overlap' = (overlap \/ (mac /\ Cardinality(Writers') > 1))

Spec == Init /\ [][Next]_vars
=============================================================================
