---------------------- MODULE InstallationProperties ----------------------
(* What updates and the removal leave of an installation. *)
EXTENDS Installation

TypeOK ==
    /\ windows \in BOOLEAN /\ release \in 1..MaxRelease
    /\ disk \in [Files -> Versions] /\ aside \in [Files -> [1..Olds -> Versions]]
    /\ list \subseteq Files /\ commit \in Versions
    /\ slot \in [Programs -> 0..Nowhere] /\ folder \subseteq Files
    /\ core \in [pc: {"off", "over", "wait", "check", "stage", "got", "idle", "apply", "place", "swap",
                      "drop", "commit"}, built: Versions]
    /\ upd \in [r: Versions, todo: SUBSET Files, prev: SUBSET Files, file: Files, at: 0..Olds]
    /\ {stop, restart, removing, auto, used, unit} \subseteq BOOLEAN
    /\ watch \in [pc: {"off", "watch", "gone", "disconnect", "unregister", "delete", "sweep", "stop"},
                  missing: 0..2]
    /\ pkg \in {"there", "away", "gone"} /\ faults \in 0..MaxFaults /\ ends \in 0..MaxEnds
    /\ mine \subseteq Files /\ stuck \subseteq Files

\* What the updater put in place and means to keep or delete later is listed, also after a crash
\* between any two files: the next update or the removal finds it (install).
FilesListed ==
    \A f \in mine \ Own :
        (disk[f] # 0 \/ \E i \in 1..Olds : aside[f][i] # 0) => f \in list

\* A finished update leaves exactly one release, whatever interrupted updates left before it
\* (install); only what the system would not delete stays.  openconnect of the installers stays
\* until the removal (installersOwn).
WholeRelease ==
    /\ commit # 0 => \A f \in Own : disk[f] # 0
    /\ core.pc = "over" /\ restart =>
        /\ list = Ships(commit) /\ \A f \in Ships(commit) : disk[f] = Content(f, commit)
        /\ \A f \in mine \ Own : f \in Ships(commit)

\* The removal starts only when the package is really gone, not while it is updated, and from
\* then on no file comes back (watchPackage; removing, under the daemon's mutex).
RemovalHolds ==
    [][/\ ~removing /\ removing' => pkg = "gone"
       /\ removing \/ commit = 0 => \A f \in Files : disk'[f] \in {0, disk[f]}]_vars

\* With updates on, the package there and nothing in use the newest release runs in the end,
\* unless a crash left no program at all (autoUpdate).
UpdatesArrive ==
    <>[](auto /\ ~used /\ pkg = "there" /\ disk["exe"] # 0) => <>[](core.built = release)

=============================================================================
