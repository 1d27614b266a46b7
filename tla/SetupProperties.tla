-------------------------- MODULE SetupProperties ---------------------------
(***************************************************************************)
(* What setting up, repairing and removing promise.                        *)
(***************************************************************************)
EXTENDS Setup

\* A removal that said so has left nothing of Uni VPN's, whatever setups and repairs before it
\* did, failed or were killed at, except files whose record was lost, and it has kept the files
\* that were there before.  No app is left, nor a service or core unless the code took the failure
\* of the command that ends them for success (`ignored`: Uninstall, internal/service, looks at
\* neither the exit code nor what endTask says, and its comment promises False there).  None of
\* those that are gone comes back.
RemovalIsExact ==
    removed =>
        /\ files \subseteq theirs \cup lost /\ theirs \subseteq files /\ ~app
        /\ ignored \/ (~service.reg /\ ~service.up /\ ~core.on)

\* "Service set up and started": a setup or repair that ends well leaves the service known and
\* meant to run, and no core of an older version, except one that neither ended nor could be
\* asked about (`ignored`: endTask takes a PowerShell that fails for a task that stopped).
SetupIsTrue ==
    Installing /\ proc.todo = <<>> /\ proc.code = 0 =>
        service.reg /\ service.up /\ (core.on /\ ~ignored => core.bits = disk)

\* Once a repair said that a program must be installed again, the page does not offer Repair
\* for it, whatever attempts came in between.
NoFutileRepair == core.reinstall => core.msg # "missing"
=============================================================================
