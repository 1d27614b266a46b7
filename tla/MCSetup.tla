------------------------------ MODULE MCSetup -------------------------------
(***************************************************************************)
(* Two things the setup assistant sets off, for TLC: the installation, and *)
(* the job that adds a code generator at the portal.  They share no state: *)
(* each behaviour is one of the two, the other stays as it begins.         *)
(***************************************************************************)
EXTENDS SetupProperties, Enrolment

VARIABLE part

\* Of the files that may be there before, all are or none.
\* What the portal sees does not depend on the machine: one of them is enough for its part.
BothInit ==
    /\ Init /\ EnrolInit /\ part \in {"setup", "portal"}
    /\ theirs \in {{}, {"config"} \cup (IF linux THEN {"apport"} ELSE {})}
    /\ part = "portal" => system = "linux" /\ desktop /\ native /\ theirs = {}
BothNext ==
    \/ part = "setup" /\ Next /\ UNCHANGED <<part, portalVars>>
    \/ part = "portal" /\ EnrolNext /\ UNCHANGED <<part, vars>>
BothSpec == BothInit /\ [][BothNext]_<<part, vars, portalVars>>
=============================================================================
