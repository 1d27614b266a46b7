-------------------------- MODULE ProxyProperties ---------------------------
(***************************************************************************)
(* What internal/sysproxy promises about the system's proxy setting.       *)
(***************************************************************************)
EXTENDS Proxy

\* "The previous state is backed up and restored on removal": once a removal says so (or that
\* uni-vpn had not set it), no place follows the rule and each the backup was told of has the
\* setting it had then, after any installs, repairs, crashes and services coming and going;
\* slip names the windows that break it.
RestoredOnRemoval ==
    removed /\ ~slip =>
        \A p \in DOMAIN places :
            places[p].there # "gone" =>
                /\ ~OnRule(places[p])
                /\ orig[p] # Unset => Effect(places[p]) = orig[p]

\* With the core at rest every browser follows the rule it answers with, not one kept from
\* before a change: neither the clock nor two changes at once give an address a second time.
BrowsersFollow ==
    /\ core /\ setup.pc = "idle" /\ (\A t \in Threads : th[t].pc = "idle") /\ ~missed /\ ~overlap
    => \A p \in Here : OnRule(places[p]) => seen[p] = rule
=============================================================================
