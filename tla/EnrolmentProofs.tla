--------------------------- MODULE EnrolmentProofs ---------------------------
(***************************************************************************)
(* Safety of Enrolment, for every number of setups, generators and faults: *)
(* no generator in use is deleted, and none is left behind that nobody     *)
(* uses or knows of.                                                       *)
(*                                                                         *)
(* JobsInv is about what a job may hold at each step, SafeInv about what   *)
(* it must not be about to delete while setups keep apart (~met), and      *)
(* HeldInv about who answers for each generator of the portal.             *)
(***************************************************************************)
EXTENDS Enrolment, SequenceTheorems, TLAPS

-----------------------------------------------------------------------------
\* Types and the jobs.

JobPcs == {"connecting", "login", "code", "await", "send", "list", "enroll", "listAgain", "verify",
           "store", "note", "remove", "off"}
JobType == [pc: JobPcs, cancelled: BOOLEAN, code: BOOLEAN, tries: Nat, listed: BOOLEAN,
            earlier: SUBSET Nat, serial: Nat, doomed: SUBSET Nat, ok: BOOLEAN]

Stages == {"connecting", "working", "code", "done", "failed"}

TypeOK ==
    /\ portal \subseteq Nat \ {0} /\ others \subseteq Nat \ {0} /\ clutter \subseteq Nat
    /\ keyring \in Nat /\ noted \in Nat
    /\ jobs \in Seq(JobType) /\ shown \in {0} \cup Ids
    /\ stage \in Stages
    /\ late \in Nat /\ met \in BOOLEAN
    /\ count \in [tokens: Nat, faults: Nat]

\* A job knows the serial of its generator from the portal's answer until it is stored and noted,
\* and has generators to delete at its end only.
Holds(r) ==
    /\ r.serial # 0 => r.pc \in {"listAgain", "verify", "store", "note"}
    /\ r.pc \in {"verify", "store", "note"} => r.serial # 0
    /\ r.doomed # {} => r.pc = "remove"
    /\ r.listed => r.pc \in {"enroll", "listAgain", "remove"}
JobsHold == \A j \in Ids : Holds(jobs[j])

\* A new generator has a number nobody has heard of.
Known == 0..count.tokens
KnownAreOld ==
    /\ portal \cup others \cup {keyring, noted} \subseteq Known
    /\ \A j \in Ids : /\ jobs[j].serial \in Known /\ jobs[j].doomed \subseteq Known \ {0}
                      /\ jobs[j].listed => jobs[j].earlier \subseteq Known

JobsInv == TypeOK /\ JobsHold /\ KnownAreOld

-----------------------------------------------------------------------------
\* While no generator was added next to another setup.

\* The generator of the job whose answer was lost.
Unseen(r) == portal \ r.earlier
Listed(r) == r.listed /\ r.pc \in {"enroll", "listAgain"}

\* One job has a generator of its own, which is in the portal until it deletes it itself.
OneOwner == \A j, k \in Ids : j # k => jobs[j].serial = 0 \/ jobs[k].serial = 0
OwnIsThere == \A j \in Ids : jobs[j].serial # 0 => jobs[j].serial \in portal \ others

\* Before it is stored it is not what the keyring has; after that it is, or the user's own secret.
KeyringFollows ==
    \A j \in Ids : /\ jobs[j].serial # 0 /\ jobs[j].pc # "note" => keyring # jobs[j].serial
                   /\ jobs[j].pc = "note" => keyring \in {0, jobs[j].serial}

\* What a job deletes, or would by comparing the lists, belongs to nobody else.
MayDelete(j, which) ==
    /\ which \cap (others \cup {keyring}) = {}
    /\ \A k \in Ids \ {j} : jobs[k].serial \notin which
DeletesOwn ==
    \A j \in Ids : /\ MayDelete(j, jobs[j].doomed)
                   /\ Listed(jobs[j]) => MayDelete(j, Unseen(jobs[j]))
NotedIsOurs == noted \notin others

Apart == OneOwner /\ OwnIsThere /\ KeyringFollows /\ DeletesOwn /\ NotedIsOurs
SafeInv == ~met => Apart /\ UsedStays

-----------------------------------------------------------------------------
\* Whose a generator is: somebody's who uses it, a job's, or clutter.
Answers(r, s) ==
    \/ s = r.serial \/ s \in r.doomed
    \/ r.pc = "listAgain" /\ (r.listed => s \notin r.earlier)
HeldInv == \A s \in portal : s \in Used \cup clutter \/ \E j \in Ids : Answers(jobs[j], s)

Inv == JobsInv /\ SafeInv /\ HeldInv

-----------------------------------------------------------------------------
\* What the operators on jobs do.

Outside == {"connecting", "login", "code", "await", "send", "list", "off"}

LEMMA OffType ==
  Off \in JobType /\ Off.pc = "off" /\ Off.serial = 0 /\ Off.doomed = {}
  BY DEF Off, Job, JobType, JobPcs

LEMMA JobAt == ASSUME TypeOK, NEW j \in Ids PROVE jobs[j] \in JobType
  BY ElementOfSeq DEF TypeOK, Ids

\* Job j is r now, the others are as before.
IsNow(j, r) ==
    /\ jobs' \in Seq(JobType) /\ Ids' = Ids /\ jobs'[j] = r
    /\ \A k \in Ids \ {j} : jobs'[k] = jobs[k]

LEMMA BecomesJob ==
  ASSUME TypeOK, NEW j \in Ids, NEW r \in JobType, Becomes(j, r)
  PROVE  IsNow(j, r)
  BY ExceptSeq DEF TypeOK, Ids, Becomes, IsNow

LEMMA GoesToJob ==
  ASSUME TypeOK, NEW j \in Ids, NEW pc \in JobPcs, GoesTo(j, pc)
  PROVE  IsNow(j, [jobs[j] EXCEPT !.pc = pc])
<1>1. [jobs[j] EXCEPT !.pc = pc] \in JobType
  BY JobAt DEF JobType
<1> QED BY <1>1, BecomesJob DEF GoesTo

LEMMA FailsJob ==
  ASSUME TypeOK, NEW j \in Ids, JobFails(j) PROVE IsNow(j, Off)
  BY OffType, BecomesJob DEF JobFails

Removing(r, which, ok) ==
    [r EXCEPT !.pc = "remove", !.doomed = which, !.ok = ok, !.earlier = {}, !.serial = 0]

LEMMA RemovesJob ==
  ASSUME TypeOK, NEW j \in Ids, NEW which \in SUBSET Nat, NEW ok \in BOOLEAN,
         Removes(j, which, ok)
  PROVE  IsNow(j, Removing(jobs[j], which, ok))
<1>1. Removing(jobs[j], which, ok) \in JobType
  BY JobAt DEF JobType, JobPcs, Removing
<1> QED BY <1>1, BecomesJob DEF Removes, Removing

LEMMA StageType ==
  ASSUME TypeOK, NEW j, NEW to \in Stages, EnrollStage(j, to) PROVE stage' \in Stages
  BY DEF TypeOK, EnrollStage

LEMMA MishapType ==
  ASSUME TypeOK, Mishap \/ NoMishap
  PROVE  count' \in [tokens: Nat, faults: Nat] /\ count'.tokens = count.tokens
  BY DEF TypeOK, Mishap, NoMishap

-----------------------------------------------------------------------------
\* Steps that no generator depends on.

\* The job goes on outside the portal, or changes nothing of what its generators depend on.
Keeps(r, q) ==
    /\ q.serial = r.serial /\ q.doomed = r.doomed
    /\ \/ q.pc = r.pc /\ q.listed = r.listed /\ q.earlier = r.earlier
       \/ r.pc \in Outside \cup {"remove"} /\ r.doomed = {} /\ q.pc \in Outside /\ ~q.listed
Quiet ==
    /\ UNCHANGED <<elsewhere, keyring, noted>> /\ count'.tokens = count.tokens
    /\ Ids \subseteq Ids'
    /\ \A j \in Ids : Keeps(jobs[j], jobs'[j])
    /\ \A j \in Ids' \ Ids : /\ jobs'[j].pc \in Outside /\ jobs'[j].serial = 0
                            /\ jobs'[j].doomed = {} /\ ~jobs'[j].listed

LEMMA QuietStep ==
  ASSUME Inv, TypeOK', Quiet PROVE Inv'
<1>1. JobsHold'
  BY DEF Inv, JobsInv, JobsHold, Holds, Quiet, Keeps, Outside
<1>2. KnownAreOld'
  <2>1. Known' = Known /\ 0 \in Known
    BY DEF Inv, JobsInv, TypeOK, Known, Quiet
  <2>2. \A j \in Ids' : jobs'[j].listed =>
            j \in Ids /\ jobs[j].listed /\ jobs'[j].earlier = jobs[j].earlier
    BY DEF Quiet, Keeps
  <2> QED BY <2>1, <2>2 DEF Inv, JobsInv, KnownAreOld, Quiet, Keeps, elsewhere
<1>3. \A j \in Ids' : Listed(jobs'[j]) =>
          j \in Ids /\ Listed(jobs[j]) /\ jobs'[j].earlier = jobs[j].earlier
  BY DEF Quiet, Keeps, Listed, Outside
<1>4. \A j \in Ids' : jobs'[j].serial # 0 =>
          j \in Ids /\ jobs[j].serial = jobs'[j].serial /\ jobs'[j].pc = jobs[j].pc
  BY DEF Inv, JobsInv, JobsHold, Holds, Quiet, Keeps, Outside
<1>5. \A j \in Ids' : jobs'[j].doomed # {} => j \in Ids /\ jobs[j].doomed = jobs'[j].doomed
  BY DEF Quiet, Keeps
<1>6. ASSUME ~met, Apart PROVE Apart'
  <2>1. OneOwner' /\ OwnIsThere' /\ NotedIsOurs'
    BY <1>4, <1>6 DEF Apart, OneOwner, OwnIsThere, NotedIsOurs, Quiet, elsewhere
  <2>2. KeyringFollows'
    BY <1>1, <1>4, <1>6 DEF Apart, KeyringFollows, JobsHold, Holds, Quiet, elsewhere
  <2>3. ASSUME NEW j \in Ids, NEW which, 0 \notin which, MayDelete(j, which)
        PROVE  /\ which \cap (others' \cup {keyring'}) = {}
               /\ \A k \in Ids' \ {j} : jobs'[k].serial \notin which
    BY <1>4, <2>3 DEF MayDelete, Quiet, elsewhere
  <2>4. ASSUME NEW j \in Ids PROVE 0 \notin jobs[j].doomed /\ 0 \notin Unseen(jobs[j])
    BY DEF Inv, JobsInv, TypeOK, Unseen, KnownAreOld
  <2>5. ASSUME NEW j \in Ids'
        PROVE  /\ jobs'[j].doomed \cap (others' \cup {keyring'}) = {}
               /\ \A k \in Ids' \ {j} : jobs'[k].serial \notin jobs'[j].doomed
    BY <1>5, <1>6, <2>3, <2>4 DEF Apart, DeletesOwn
  <2>6. ASSUME NEW j \in Ids', Listed(jobs'[j])
        PROVE  /\ Unseen(jobs[j])' \cap (others' \cup {keyring'}) = {}
               /\ \A k \in Ids' \ {j} : jobs'[k].serial \notin Unseen(jobs[j])'
    <3>1. j \in Ids /\ Listed(jobs[j]) /\ Unseen(jobs[j])' = Unseen(jobs[j])
      BY <1>3, <2>6 DEF Unseen, Quiet, elsewhere
    <3> QED BY <1>6, <2>3, <2>4, <3>1 DEF Apart, DeletesOwn
  <2>7. DeletesOwn'
    BY <2>5, <2>6 DEF DeletesOwn, MayDelete, Listed, Unseen
  <2> QED BY <2>1, <2>2, <2>7 DEF Apart
<1>7. SafeInv'
  BY <1>6 DEF Inv, SafeInv, UsedStays, Quiet, elsewhere
<1>8. HeldInv'
  <2>1. ASSUME NEW s, NEW j \in Ids, Answers(jobs[j], s), s # 0 PROVE Answers(jobs'[j], s)
    BY <2>1 DEF Answers, Quiet, Keeps, Outside, Inv, JobsInv, JobsHold, Holds
  <2> QED BY <2>1 DEF Inv, JobsInv, TypeOK, HeldInv, Used, Quiet, elsewhere
<1> QED BY <1>1, <1>2, <1>7, <1>8 DEF Inv, JobsInv

-----------------------------------------------------------------------------
\* One job's step, which adds no generator.

\* What j deletes, or would, is neither used nor another job's after the step.
MayDeleteNow(j, which) ==
    /\ which \cap (others \cup {keyring'}) = {}
    /\ \A k \in Ids \ {j} : jobs[k].serial \notin which

JobStep(j, r) ==
    /\ IsNow(j, r) /\ UNCHANGED <<others, met>> /\ count'.tokens = count.tokens
    /\ portal' \subseteq portal /\ portal \ portal' \subseteq jobs[j].doomed
    /\ keyring' \in {keyring, jobs[j].serial} /\ noted' \in {noted, 0, jobs[j].serial}
    /\ Holds(r) /\ r.serial \in {0, jobs[j].serial} /\ r.doomed \subseteq Known \ {0}
    /\ r.listed => r.earlier \subseteq Known

LEMMA JobStepKeeps ==
  ASSUME Inv, TypeOK', NEW j \in Ids, NEW r, JobStep(j, r),
         ~met /\ Apart =>
            /\ r.serial # 0 /\ r.pc # "note" => keyring' # r.serial
            /\ r.pc = "note" => keyring' \in {0, r.serial}
            /\ MayDeleteNow(j, r.doomed)
            /\ Listed(r) => MayDeleteNow(j, portal' \ r.earlier),
         \A s \in portal' : s \in Used \cup clutter \/ Answers(jobs[j], s)
                           => s \in Used' \cup clutter' \/ Answers(r, s)
  PROVE  Inv'
<1>1. JobsHold'
  BY DEF Inv, JobsInv, JobsHold, JobStep, IsNow
<1>2. KnownAreOld'
  <2>1. Known' = Known /\ 0 \in Known
    BY DEF Inv, JobsInv, TypeOK, Known, JobStep
  <2>2. jobs[j].serial \in Known
    BY DEF Inv, JobsInv, KnownAreOld
  <2> QED BY <2>1, <2>2 DEF Inv, JobsInv, KnownAreOld, JobStep, IsNow
<1>3. ASSUME ~met, Apart, UsedStays PROVE Apart' /\ UsedStays'
  <2>1. OneOwner'
    BY <1>3 DEF Apart, OneOwner, JobStep, IsNow
  <2>2. \A k \in Ids : jobs[k].serial # 0 => jobs[k].serial \notin jobs[j].doomed
    BY <1>3 DEF Apart, DeletesOwn, MayDelete, Inv, JobsInv, JobsHold, Holds
  <2>3. OwnIsThere'
    BY <1>3, <2>2 DEF Apart, OwnIsThere, JobStep, IsNow
  <2>4. KeyringFollows'
    <3>1. ASSUME NEW k \in Ids \ {j}, jobs[k].serial # 0 PROVE keyring' \in {keyring, 0}
      BY <1>3, <3>1 DEF Apart, OneOwner, JobStep
    <3>2. \A k \in Ids : jobs[k].pc = "note" => jobs[k].serial # 0
      BY DEF Inv, JobsInv, JobsHold, Holds
    <3> QED BY <1>3, <3>1, <3>2 DEF Apart, KeyringFollows, JobStep, IsNow
  <2>5. NotedIsOurs'
    BY <1>3 DEF Apart, NotedIsOurs, OwnIsThere, JobStep, Inv, JobsInv, TypeOK
  <2>6. ASSUME NEW k \in Ids \ {j}, NEW which, 0 \notin which, MayDelete(k, which)
        PROVE  /\ which \cap (others' \cup {keyring'}) = {}
               /\ \A i \in Ids' \ {k} : jobs'[i].serial \notin which
    BY <2>6 DEF MayDelete, JobStep, IsNow
  <2>7. ASSUME NEW k \in Ids PROVE 0 \notin jobs[k].doomed /\ 0 \notin Unseen(jobs[k])
    BY DEF Inv, JobsInv, TypeOK, Unseen, KnownAreOld
  <2>8. ASSUME NEW k \in Ids \ {j} PROVE MayDelete(k, jobs[k].doomed)'
    BY <1>3, <2>6, <2>7 DEF Apart, DeletesOwn, MayDelete, JobStep, IsNow
  <2>9. ASSUME NEW k \in Ids \ {j}, Listed(jobs[k])' PROVE MayDelete(k, Unseen(jobs[k]))'
    <3>1. Listed(jobs[k]) /\ Unseen(jobs[k])' \subseteq Unseen(jobs[k])
      BY <2>9 DEF Listed, Unseen, JobStep, IsNow
    <3>2. MayDelete(k, Unseen(jobs[k]))
      BY <1>3, <3>1 DEF Apart, DeletesOwn
    <3> QED BY <2>6, <2>7, <3>1, <3>2 DEF MayDelete
  <2>10. MayDelete(j, jobs[j].doomed)' /\ (Listed(jobs[j])' => MayDelete(j, Unseen(jobs[j]))')
    BY <1>3 DEF MayDelete, MayDeleteNow, Listed, Unseen, JobStep, IsNow
  <2>11. DeletesOwn'
    BY <2>8, <2>9, <2>10 DEF DeletesOwn, JobStep, IsNow
  <2>12. UsedStays'
    <3>1. (others \cup {keyring, jobs[j].serial}) \ {0} \subseteq portal
      BY <1>3 DEF UsedStays, Apart, OwnIsThere, Inv, JobsInv, TypeOK
    <3>2. ((others \cup {keyring, jobs[j].serial}) \ {0}) \cap jobs[j].doomed = {}
      BY <1>3, <2>2 DEF Apart, DeletesOwn, MayDelete
    <3> QED BY <3>1, <3>2 DEF UsedStays, JobStep, Inv, JobsInv, TypeOK
  <2> QED BY <2>1, <2>3, <2>4, <2>5, <2>11, <2>12 DEF Apart
<1>4. SafeInv'
  BY <1>3 DEF Inv, SafeInv, JobStep
<1>5. HeldInv'
  BY DEF Inv, HeldInv, Used, JobStep, IsNow
<1> QED BY <1>1, <1>2, <1>4, <1>5 DEF Inv, JobsInv

-----------------------------------------------------------------------------
\* The page of the app, and the jobs until they have signed in.

\* Steps that no generator depends on.
LEMMA OneQuiet ==
  ASSUME Inv, NEW j \in Ids, NEW r, IsNow(j, r), Keeps(jobs[j], r),
         UNCHANGED <<elsewhere, keyring, noted>>, Mishap \/ NoMishap,
         shown' \in {0} \cup Ids, stage' \in Stages
  PROVE  Inv'
<1>1. TypeOK'
  BY MishapType DEF Inv, JobsInv, TypeOK, IsNow, elsewhere
<1>2. Quiet
  BY MishapType DEF Inv, JobsInv, Quiet, IsNow, Keeps
<1> QED BY <1>1, <1>2, QuietStep

LEMMA StartEnrollKeeps == ASSUME Inv, StartEnroll PROVE Inv'
<1> DEFINE old == [j \in Ids |-> [jobs[j] EXCEPT !.cancelled = @ \/ (j = shown /\ StageRuns)]]
<1>1. PICK connected \in BOOLEAN :
        /\ jobs' = Append(old, [Job EXCEPT !.code = connected])
        /\ stage' = IF connected THEN "working" ELSE "connecting"
  BY DEF StartEnroll
<1> DEFINE new == [Job EXCEPT !.code = connected]
<1>2. \A j \in Ids : old[j] \in JobType /\ Keeps(jobs[j], old[j])
  BY JobAt DEF Inv, JobsInv, JobType, Keeps
<1>3. old \in Seq(JobType) /\ Len(old) = Len(jobs)
  <2>1. Len(jobs) \in Nat
    BY LenProperties DEF Inv, JobsInv, TypeOK
  <2>2. old \in [1..Len(jobs) -> JobType]
    BY <1>2 DEF Ids
  <2> HIDE DEF old
  <2>3. old \in Seq(JobType)
    BY <2>1, <2>2, SeqDef
  <2>4. Len(old) \in Nat /\ 1..Len(old) = 1..Len(jobs)
    BY <2>2, <2>3, LenProperties
  <2> QED BY <2>1, <2>3, <2>4
<1>4. new \in JobType /\ new.pc \in Outside /\ new.serial = 0 /\ new.doomed = {} /\ ~new.listed
  BY DEF Job, JobType, JobPcs, Outside
<1> HIDE DEF old, new
<1>5. /\ jobs' \in Seq(JobType) /\ Len(jobs') = Len(jobs) + 1
      /\ \A j \in Ids : jobs'[j] = old[j]
      /\ jobs'[Len(jobs) + 1] = new
  BY <1>1, <1>3, <1>4, AppendProperties DEF new, Ids
<1>6. Ids' = Ids \cup {Len(jobs) + 1}
  <2>1. Len(jobs) \in Nat
    BY LenProperties DEF Inv, JobsInv, TypeOK
  <2> QED BY <1>5, <2>1 DEF Ids
<1>7. TypeOK'
  BY <1>1, <1>5, <1>6 DEF Inv, JobsInv, TypeOK, Stages, StartEnroll, elsewhere
<1>8. Quiet
  BY <1>2, <1>4, <1>5, <1>6 DEF Quiet, StartEnroll
<1> QED BY <1>7, <1>8, QuietStep

LEMMA PageKeeps == ASSUME Inv, GiveCode \/ CancelEnroll PROVE Inv'
<1>1. CASE GiveCode
  <2> DEFINE r == [jobs[shown] EXCEPT !.code = TRUE]
  <2>1. shown \in Ids
    BY <1>1 DEF GiveCode, StageRuns, Inv, JobsInv, TypeOK
  <2>2. r \in JobType /\ Keeps(jobs[shown], r)
    BY <2>1, JobAt DEF Inv, JobsInv, JobType, Keeps
  <2> HIDE DEF r
  <2>3. IsNow(shown, r)
    BY <1>1, <2>1, <2>2, BecomesJob DEF GiveCode, r, Inv, JobsInv
  <2>4. stage' \in Stages /\ shown' \in {0} \cup Ids /\ NoMishap
    BY <1>1 DEF GiveCode, Stages, NoMishap, Inv, JobsInv, TypeOK
  <2> QED BY <1>1, <2>1, <2>2, <2>3, <2>4, OneQuiet DEF GiveCode
<1>2. CASE CancelEnroll
  <2> DEFINE r == [jobs[shown] EXCEPT !.cancelled = @ \/ StageRuns]
  <2>1. shown \in Ids
    BY <1>2 DEF CancelEnroll, Inv, JobsInv, TypeOK
  <2>2. r \in JobType /\ Keeps(jobs[shown], r)
    BY <2>1, JobAt DEF Inv, JobsInv, JobType, Keeps
  <2>3. Becomes(shown, r)
    BY <1>2 DEF CancelEnroll, Becomes
  <2> HIDE DEF r
  <2>4. IsNow(shown, r)
    BY <2>1, <2>2, <2>3, BecomesJob DEF Inv, JobsInv
  <2>5. stage' \in Stages /\ shown' \in {0} \cup Ids /\ NoMishap
    BY <1>2 DEF CancelEnroll, Stages, NoMishap
  <2> QED BY <1>2, <2>1, <2>2, <2>4, <2>5, OneQuiet DEF CancelEnroll
<1> QED BY <1>1, <1>2

\* A job outside the portal that goes on outside it.
LEMMA OutsideStep ==
  ASSUME Inv, NEW j \in Ids, NEW r \in JobType, Becomes(j, r),
         jobs[j].pc \in Outside, r.pc \in Outside,
         r.serial = jobs[j].serial, r.doomed = jobs[j].doomed, ~r.listed,
         UNCHANGED <<elsewhere, keyring, noted, shown>>, Mishap \/ NoMishap, stage' \in Stages
  PROVE  Inv'
<1>1. IsNow(j, r)
  BY BecomesJob DEF Inv, JobsInv
<1>2. Keeps(jobs[j], r)
  BY DEF Keeps, Inv, JobsInv, JobsHold, Holds, Outside
<1> QED BY <1>1, <1>2, OneQuiet DEF Inv, JobsInv, TypeOK

LEMMA FailsKeeps ==
  ASSUME Inv, NEW j \in Ids, jobs[j].pc \in Outside, JobFails(j),
         UNCHANGED <<elsewhere, keyring, noted, shown>>, Mishap \/ NoMishap
  PROVE  Inv'
<1>1. jobs[j].serial = 0 /\ jobs[j].doomed = {}
  BY DEF Inv, JobsInv, JobsHold, Holds, Outside
<1>2. ~Off.listed
  BY DEF Off, Job
<1>3. stage' \in Stages
  BY StageType DEF JobFails, Inv, JobsInv, Stages
<1> QED BY <1>1, <1>2, <1>3, OffType, OutsideStep DEF JobFails, Outside

LEMMA SignInKeeps ==
  ASSUME Inv, NEW j \in Ids,
         WaitConnected(j) \/ Login(j) \/ AsksCode(j) \/ AwaitsCode(j) \/ SendsCode(j)
  PROVE  Inv'
<1>1. PICK pc \in {"connecting", "login", "code", "await", "send"} : jobs[j].pc = pc
  BY DEF WaitConnected, Login, AsksCode, AwaitsCode, SendsCode
<1>2. jobs[j].pc \in Outside /\ jobs[j] \in JobType /\ ~jobs[j].listed
  BY <1>1, JobAt DEF Inv, JobsInv, JobsHold, Holds, Outside
<1>3. UNCHANGED <<elsewhere, keyring, noted, shown>> /\ (Mishap \/ NoMishap)
  BY DEF WaitConnected, Login, AsksCode, AwaitsCode, SendsCode, page, NoMishap
<1>4. CASE JobFails(j)
  BY <1>2, <1>3, <1>4, FailsKeeps
<1>5. ASSUME NEW to \in {"login", "code", "await", "send", "list"}, stage' \in Stages,
             \/ GoesTo(j, to)
             \/ \E code \in BOOLEAN : Becomes(j, [jobs[j] EXCEPT !.pc = to, !.code = code])
             \/ \E n \in Nat : Becomes(j, [jobs[j] EXCEPT !.pc = to, !.tries = n])
      PROVE  Inv'
  <2>1. PICK r \in JobType : /\ Becomes(j, r) /\ r.pc = to /\ ~r.listed
                            /\ r.serial = jobs[j].serial /\ r.doomed = jobs[j].doomed
    <3>1. CASE GoesTo(j, to)
      <4> DEFINE r == [jobs[j] EXCEPT !.pc = to]
      <4>1. r \in JobType /\ r.pc = to /\ ~r.listed /\ r.serial = jobs[j].serial
            /\ r.doomed = jobs[j].doomed
        BY <1>2 DEF JobType, JobPcs
      <4>2. Becomes(j, r)
        BY <3>1 DEF GoesTo
      <4> QED BY <4>1, <4>2
    <3>2. ASSUME NEW code \in BOOLEAN, Becomes(j, [jobs[j] EXCEPT !.pc = to, !.code = code])
          PROVE  \E r \in JobType : /\ Becomes(j, r) /\ r.pc = to /\ ~r.listed
                                    /\ r.serial = jobs[j].serial /\ r.doomed = jobs[j].doomed
      <4> DEFINE r == [jobs[j] EXCEPT !.pc = to, !.code = code]
      <4>1. r \in JobType /\ r.pc = to /\ ~r.listed /\ r.serial = jobs[j].serial
            /\ r.doomed = jobs[j].doomed
        BY <1>2 DEF JobType, JobPcs
      <4> QED BY <3>2, <4>1
    <3>3. ASSUME NEW n \in Nat, Becomes(j, [jobs[j] EXCEPT !.pc = to, !.tries = n])
          PROVE  \E r \in JobType : /\ Becomes(j, r) /\ r.pc = to /\ ~r.listed
                                    /\ r.serial = jobs[j].serial /\ r.doomed = jobs[j].doomed
      <4> DEFINE r == [jobs[j] EXCEPT !.pc = to, !.tries = n]
      <4>1. r \in JobType /\ r.pc = to /\ ~r.listed /\ r.serial = jobs[j].serial
            /\ r.doomed = jobs[j].doomed
        BY <1>2 DEF JobType, JobPcs
      <4> QED BY <3>3, <4>1
    <3> QED BY <1>5, <3>1, <3>2, <3>3
  <2> QED BY <1>2, <1>3, <1>5, <2>1, OutsideStep DEF Outside
<1>6. stage \in Stages /\ (\A to \in {"code", "working"} : EnrollStage(j, to) => stage' \in Stages)
  BY StageType DEF Inv, JobsInv, TypeOK, Stages
<1>7. CASE WaitConnected(j)
  <2>1. jobs[j].code \in BOOLEAN /\ (jobs[j].code \/ shown = j) \in BOOLEAN
    BY <1>2 DEF JobType
  <2> QED BY <1>4, <1>5, <1>6, <1>7, <2>1 DEF WaitConnected, page
<1>8. CASE Login(j)
  BY <1>4, <1>5, <1>6, <1>8 DEF Login, page
<1>9. CASE AsksCode(j)
  BY <1>5, <1>6, <1>9 DEF AsksCode
<1>10. CASE AwaitsCode(j)
  BY <1>4, <1>5, <1>6, <1>10 DEF AwaitsCode
<1>11. CASE SendsCode(j)
  <2>1. jobs[j].tries + 1 \in Nat
    BY <1>2 DEF JobType
  <2> QED BY <1>4, <1>5, <1>6, <1>11, <2>1 DEF SendsCode
<1> QED BY <1>7, <1>8, <1>9, <1>10, <1>11

LEMMA TimesOutKeeps == ASSUME Inv, NEW j \in Ids, TimesOut(j) PROVE Inv'
<1> DEFINE r == [jobs[j] EXCEPT !.cancelled = TRUE]
<1>1. r \in JobType /\ Keeps(jobs[j], r)
  BY JobAt DEF Inv, JobsInv, JobType, Keeps
<1> HIDE DEF r
<1>2. IsNow(j, r)
  BY <1>1, BecomesJob DEF TimesOut, r, Inv, JobsInv
<1> QED BY <1>1, <1>2, OneQuiet DEF TimesOut, page, Inv, JobsInv, TypeOK

LEMMA RunEnrollEndsKeeps == ASSUME Inv, NEW j \in Ids, RunEnrollEnds(j) PROVE Inv'
<1>1. IsNow(j, Off)
  BY OffType, BecomesJob DEF RunEnrollEnds, Inv, JobsInv
<1>2. jobs[j].serial = 0 /\ ~Off.listed
  BY DEF RunEnrollEnds, Inv, JobsInv, JobsHold, Holds, Off, Job
<1>3. Keeps(jobs[j], Off)
  BY <1>2, OffType DEF RunEnrollEnds, Keeps, Outside
<1>4. stage' \in Stages
  BY StageType DEF RunEnrollEnds, Inv, JobsInv, Stages
<1> QED BY <1>1, <1>3, <1>4, OneQuiet DEF RunEnrollEnds, NoMishap, Inv, JobsInv, TypeOK

-----------------------------------------------------------------------------
\* The job at the portal.

\* The types after a step of one job.
LEMMA OneJobType ==
  ASSUME TypeOK, NEW j \in Ids, NEW r, IsNow(j, r), Mishap \/ NoMishap,
         portal' \subseteq portal, UNCHANGED <<others, late, met, shown>>, stage' \in Stages,
         keyring' \in Nat, noted' \in Nat, clutter' \subseteq Nat
  PROVE  TypeOK'
  BY MishapType DEF TypeOK, IsNow

\* A job about to sign off has given up its generator.
LEMMA RemovingHolds ==
  ASSUME NEW r \in JobType, NEW which \in SUBSET Nat, NEW ok \in BOOLEAN
  PROVE  LET q == Removing(r, which, ok) IN
           /\ Holds(q) /\ q.serial = 0 /\ q.doomed = which /\ q.pc = "remove" /\ ~Listed(q)
           /\ q.earlier = {}
  BY DEF Removing, JobType, Holds, Listed

LEMMA ListsKeeps == ASSUME Inv, NEW j \in Ids, Lists(j) PROVE Inv'
<1>1. jobs[j] \in JobType /\ jobs[j].serial = 0 /\ jobs[j].doomed = {} /\ ~jobs[j].listed
  BY JobAt DEF Lists, Inv, JobsInv, JobsHold, Holds
<1>2. PICK r \in JobType :
        /\ Becomes(j, r) /\ r.pc = "enroll" /\ r.serial = 0 /\ r.doomed = {}
        /\ r.listed => r.earlier = portal
  <2>1. CASE Becomes(j, [jobs[j] EXCEPT !.pc = "enroll", !.listed = TRUE, !.earlier = portal])
    <3> DEFINE r == [jobs[j] EXCEPT !.pc = "enroll", !.listed = TRUE, !.earlier = portal]
    <3>1. r \in JobType /\ r.pc = "enroll" /\ r.serial = 0 /\ r.doomed = {} /\ r.earlier = portal
      BY <1>1 DEF JobType, JobPcs, Inv, JobsInv, TypeOK
    <3> QED BY <2>1, <3>1
  <2>2. CASE GoesTo(j, "enroll")
    <3> DEFINE r == [jobs[j] EXCEPT !.pc = "enroll"]
    <3>1. r \in JobType /\ r.pc = "enroll" /\ r.serial = 0 /\ r.doomed = {} /\ ~r.listed
      BY <1>1 DEF JobType, JobPcs
    <3> QED BY <2>2, <3>1 DEF GoesTo
  <2> QED BY <2>1, <2>2 DEF Lists
<1>3. IsNow(j, r)
  BY <1>2, BecomesJob DEF Inv, JobsInv
<1>4. Mishap \/ NoMishap
  BY DEF Lists
<1>5. stage' \in Stages
  BY StageType DEF Lists, Inv, JobsInv, Stages
<1>6. TypeOK'
  BY <1>3, <1>4, <1>5, OneJobType DEF Lists, elsewhere, Inv, JobsInv, TypeOK
<1>7. JobStep(j, r)
  BY <1>1, <1>2, <1>3, <1>4, MishapType
  DEF JobStep, Lists, elsewhere, Holds, Inv, JobsInv, KnownAreOld
<1>8. MayDeleteNow(j, {}) /\ (Listed(r) => portal' \ r.earlier = {})
  BY <1>2 DEF MayDeleteNow, Listed, Lists, elsewhere
<1>9. \A s \in portal' : s \in Used \cup clutter \/ Answers(jobs[j], s) => s \in Used' \cup clutter'
  BY <1>1 DEF Answers, Used, Lists, elsewhere, Inv, JobsInv, TypeOK
<1> QED BY <1>2, <1>6, <1>7, <1>8, <1>9, JobStepKeeps

\* A job that gives up deletes its own generator, and what it does not know of is clutter.
LEMMA ListsAgainKeeps == ASSUME Inv, NEW j \in Ids, ListsAgain(j) PROVE Inv'
<1> DEFINE lost == Lost(j, portal)
           left == portal \ (Used \cup Own(j))
<1>1. /\ jobs[j] \in JobType /\ jobs[j].pc = "listAgain" /\ jobs[j].doomed = {}
      /\ jobs[j].serial \in Known
  BY JobAt DEF ListsAgain, Inv, JobsInv, JobsHold, Holds, KnownAreOld
<1>2. lost \subseteq Known \ {0} /\ Own(j) \subseteq Known \ {0} /\ Known \subseteq Nat
  <2>1. Known \subseteq Nat
    BY DEF Known, Inv, JobsInv, TypeOK
  <2>2. portal \subseteq Known /\ 0 \notin portal
    BY DEF Inv, JobsInv, TypeOK, KnownAreOld
  <2> QED BY <1>1, <2>1, <2>2 DEF Lost, Own
<1>3. PICK which \in {lost, Own(j)} :
        /\ Removes(j, which, FALSE)
        /\ \/ which = lost /\ jobs[j].listed /\ clutter' = clutter
           \/ which = Own(j) /\ clutter' = clutter \cup left
  BY DEF ListsAgain
<1> DEFINE r == Removing(jobs[j], which, FALSE)
<1>4. IsNow(j, r)
  BY <1>2, <1>3, RemovesJob DEF Inv, JobsInv
<1>5. Mishap \/ NoMishap
  BY DEF ListsAgain
<1>6. TypeOK'
  BY <1>2, <1>3, <1>4, <1>5, OneJobType DEF ListsAgain, page, Inv, JobsInv, TypeOK
<1>7. /\ Holds(r) /\ r.serial = 0 /\ r.doomed = which /\ r.pc = "remove" /\ ~Listed(r)
      /\ r.earlier = {}
  BY <1>1, <1>2, <1>3, RemovingHolds
<1> HIDE DEF r, lost, left
<1>8. JobStep(j, r)
  BY <1>1, <1>2, <1>3, <1>4, <1>5, <1>7, MishapType DEF JobStep, ListsAgain, Inv, JobsInv
<1>9. ASSUME ~met, Apart PROVE MayDeleteNow(j, which)
  <2>1. keyring' = keyring
    BY DEF ListsAgain
  <2>2. MayDelete(j, Own(j))
    BY <1>1, <1>9
    DEF MayDelete, Own, Apart, OwnIsThere, KeyringFollows, OneOwner
  <2>3. jobs[j].listed => MayDelete(j, Unseen(jobs[j]))
    BY <1>1, <1>9 DEF Apart, DeletesOwn, Listed
  <2>4. which = Own(j) \/ (which = lost /\ MayDelete(j, Unseen(jobs[j])))
    BY <1>3, <2>3
  <2>5. lost = Own(j) \cup Unseen(jobs[j])
    BY DEF lost, Lost, Unseen
  <2>6. MayDelete(j, which)
    BY <2>2, <2>4, <2>5 DEF MayDelete
  <2> QED BY <2>1, <2>6 DEF MayDelete, MayDeleteNow
<1>10. ASSUME NEW s \in portal', s \in Used \cup clutter \/ Answers(jobs[j], s)
       PROVE  s \in Used' \cup clutter' \/ Answers(r, s)
  <2>1. portal' = portal /\ Used' = Used
    BY DEF ListsAgain, Used
  <2>2. s # 0
    BY <2>1 DEF Inv, JobsInv, TypeOK
  <2> QED BY <1>1, <1>3, <1>7, <1>10, <2>1, <2>2 DEF Answers, Lost, Own, lost, left
<1> QED BY <1>6, <1>7, <1>8, <1>9, <1>10, JobStepKeeps

LEMMA VerifyKeeps == ASSUME Inv, NEW j \in Ids, Verify(j) PROVE Inv'
<1>1. /\ jobs[j] \in JobType /\ jobs[j].pc = "verify" /\ jobs[j].doomed = {} /\ ~jobs[j].listed
      /\ jobs[j].serial # 0 /\ jobs[j].serial \in Known
  BY JobAt DEF Verify, Inv, JobsInv, JobsHold, Holds, KnownAreOld
<1>2. Own(j) \subseteq Known \ {0} /\ Known \subseteq Nat /\ Own(j) = {jobs[j].serial}
  BY <1>1 DEF Own, Known
<1>3. Mishap \/ NoMishap
  BY DEF Verify
<1>4. CASE GoesTo(j, "store")
  <2> DEFINE r == [jobs[j] EXCEPT !.pc = "store"]
  <2>1. r.pc = "store" /\ r.serial = jobs[j].serial /\ r.doomed = {} /\ ~r.listed
    BY <1>1 DEF JobType
  <2>2. IsNow(j, r)
    BY <1>4, GoesToJob DEF Inv, JobsInv, JobPcs
  <2> HIDE DEF r
  <2>3. TypeOK'
    BY <1>3, <2>2, OneJobType DEF Verify, elsewhere, page, Inv, JobsInv, TypeOK
  <2>4. JobStep(j, r)
    BY <1>1, <1>3, <2>1, <2>2, MishapType DEF JobStep, Holds, Verify, elsewhere, Inv, JobsInv
  <2>5. ~met /\ Apart => keyring' # r.serial
    BY <1>1, <2>1 DEF Apart, KeyringFollows, Verify
  <2>6. MayDeleteNow(j, {})
    BY DEF MayDeleteNow
  <2>7. Used' \cup clutter' = Used \cup clutter
    BY DEF Verify, elsewhere, Used
  <2> QED BY <1>1, <2>1, <2>3, <2>4, <2>5, <2>6, <2>7, JobStepKeeps DEF Answers, Listed
<1>5. CASE Removes(j, Own(j), FALSE)
  <2> DEFINE r == Removing(jobs[j], Own(j), FALSE)
  <2>1. IsNow(j, r)
    BY <1>2, <1>5, RemovesJob DEF Inv, JobsInv
  <2>2. /\ Holds(r) /\ r.serial = 0 /\ r.doomed = Own(j) /\ r.pc = "remove" /\ ~Listed(r)
        /\ r.earlier = {}
    BY <1>1, <1>2, RemovingHolds
  <2> HIDE DEF r
  <2>3. TypeOK'
    BY <1>3, <2>1, OneJobType DEF Verify, elsewhere, page, Inv, JobsInv, TypeOK
  <2>4. JobStep(j, r)
    BY <1>1, <1>2, <1>3, <2>1, <2>2, MishapType DEF JobStep, Verify, elsewhere, Inv, JobsInv
  <2>5. ~met /\ Apart => MayDeleteNow(j, Own(j))
    BY <1>1, <1>2
    DEF MayDeleteNow, Apart, OwnIsThere, KeyringFollows, OneOwner, Verify
  <2>6. Used' \cup clutter' = Used \cup clutter
    BY DEF Verify, elsewhere, Used
  <2>7. \A s : Answers(jobs[j], s) => Answers(r, s)
    BY <1>1, <1>2, <2>2 DEF Answers
  <2> QED BY <2>2, <2>3, <2>4, <2>5, <2>6, <2>7, JobStepKeeps
<1> QED BY <1>4, <1>5 DEF Verify

LEMMA KeepTokenKeeps == ASSUME Inv, NEW j \in Ids, KeepToken(j) PROVE Inv'
<1>1. /\ jobs[j] \in JobType /\ jobs[j].pc = "store" /\ jobs[j].doomed = {} /\ ~jobs[j].listed
      /\ jobs[j].serial # 0 /\ jobs[j].serial \in Known /\ jobs[j].serial \in Nat
  BY JobAt DEF KeepToken, Inv, JobsInv, JobsHold, Holds, KnownAreOld, JobType
<1>2. Own(j) \subseteq Known \ {0} /\ Known \subseteq Nat /\ Own(j) = {jobs[j].serial}
  BY <1>1 DEF Own, Known
<1>3. clutter' \subseteq Nat
  BY DEF KeepToken, Replaced, Inv, JobsInv, TypeOK
<1>4. CASE keyring' = jobs[j].serial /\ GoesTo(j, "note") /\ NoMishap
  <2> DEFINE r == [jobs[j] EXCEPT !.pc = "note"]
  <2>1. r.pc = "note" /\ r.serial = jobs[j].serial /\ r.doomed = {} /\ ~r.listed
    BY <1>1 DEF JobType
  <2>2. IsNow(j, r)
    BY <1>4, GoesToJob DEF Inv, JobsInv, JobPcs
  <2> HIDE DEF r
  <2>3. TypeOK'
    BY <1>1, <1>3, <1>4, <2>2, OneJobType DEF KeepToken, page, Inv, JobsInv, TypeOK
  <2>4. JobStep(j, r)
    BY <1>1, <1>4, <2>1, <2>2, MishapType DEF JobStep, Holds, KeepToken, Inv, JobsInv
  <2>5. MayDeleteNow(j, {})
    BY DEF MayDeleteNow
  <2>6. \A s \in portal' : s \in Used \cup clutter => s \in Used' \cup clutter'
    BY DEF KeepToken, Replaced, Used, Inv, JobsInv, TypeOK
  <2>7. \A s : Answers(jobs[j], s) => Answers(r, s)
    BY <1>1, <2>1 DEF Answers
  <2> QED BY <1>4, <2>1, <2>3, <2>4, <2>5, <2>6, <2>7, JobStepKeeps DEF Listed
<1>5. CASE Mishap /\ Removes(j, Own(j), FALSE) /\ UNCHANGED keyring
  <2> DEFINE r == Removing(jobs[j], Own(j), FALSE)
  <2>1. IsNow(j, r)
    BY <1>2, <1>5, RemovesJob DEF Inv, JobsInv
  <2>2. /\ Holds(r) /\ r.serial = 0 /\ r.doomed = Own(j) /\ r.pc = "remove" /\ ~Listed(r)
        /\ r.earlier = {}
    BY <1>1, <1>2, RemovingHolds
  <2> HIDE DEF r
  <2>3. TypeOK'
    BY <1>3, <1>5, <2>1, OneJobType DEF KeepToken, page, Inv, JobsInv, TypeOK
  <2>4. JobStep(j, r)
    BY <1>1, <1>2, <1>5, <2>1, <2>2, MishapType DEF JobStep, KeepToken, Inv, JobsInv
  <2>5. ~met /\ Apart => MayDeleteNow(j, Own(j))
    BY <1>1, <1>2, <1>5 DEF MayDeleteNow, Apart, OwnIsThere, KeyringFollows, OneOwner
  <2>6. Used' \cup clutter' = Used \cup clutter
    BY <1>5 DEF KeepToken, Replaced, Used
  <2>7. \A s : Answers(jobs[j], s) => Answers(r, s)
    BY <1>1, <1>2, <2>2 DEF Answers
  <2> QED BY <2>2, <2>3, <2>4, <2>5, <2>6, <2>7, JobStepKeeps
<1> QED BY <1>4, <1>5 DEF KeepToken, StoreSecret

LEMMA ReplaceOwnTokenKeeps == ASSUME Inv, NEW j \in Ids, ReplaceOwnToken(j) PROVE Inv'
<1> DEFINE which == {noted} \ {0, jobs[j].serial}
           r == Removing(jobs[j], which, TRUE)
<1>1. /\ jobs[j] \in JobType /\ jobs[j].pc = "note" /\ jobs[j].doomed = {} /\ ~jobs[j].listed
      /\ jobs[j].serial # 0 /\ jobs[j].serial \in Known /\ jobs[j].serial \in Nat
  BY JobAt DEF ReplaceOwnToken, Inv, JobsInv, JobsHold, Holds, KnownAreOld, JobType
<1>2. which \subseteq Known \ {0} /\ which \in SUBSET Nat
  BY DEF Inv, JobsInv, TypeOK, KnownAreOld
<1>3. (Mishap \/ NoMishap) /\ noted' \in {noted, 0, jobs[j].serial} /\ keyring' = keyring
  BY DEF ReplaceOwnToken
<1>4. IsNow(j, r)
  BY <1>2, RemovesJob DEF ReplaceOwnToken, Inv, JobsInv
<1>5. /\ Holds(r) /\ r.serial = 0 /\ r.doomed = which /\ r.pc = "remove" /\ ~Listed(r)
      /\ r.earlier = {}
  BY <1>1, <1>2, RemovingHolds
<1> HIDE DEF r, which
<1>6. clutter' \subseteq Nat /\ noted' \in Nat
  <2>1. noted' \in Nat /\ clutter \subseteq Nat
    BY <1>1, <1>3 DEF Inv, JobsInv, TypeOK
  <2>2. clutter' \subseteq clutter \cup {jobs[j].serial}
    BY DEF ReplaceOwnToken
  <2> QED BY <1>1, <2>1, <2>2
<1>7. TypeOK'
  BY <1>3, <1>4, <1>6, OneJobType DEF ReplaceOwnToken, page, Inv, JobsInv, TypeOK
<1>8. JobStep(j, r)
  BY <1>2, <1>3, <1>4, <1>5, MishapType DEF JobStep, ReplaceOwnToken, Inv, JobsInv
<1>9. ASSUME ~met, Apart PROVE MayDeleteNow(j, which)
  <2>1. noted \notin others /\ keyring' \in {0, jobs[j].serial}
    BY <1>1, <1>3, <1>9 DEF Apart, NotedIsOurs, KeyringFollows
  <2>2. \A k \in Ids \ {j} : jobs[k].serial = 0
    BY <1>1, <1>9 DEF Apart, OneOwner
  <2> QED BY <2>1, <2>2 DEF MayDeleteNow, which
<1>10. ASSUME NEW s \in portal', s \in Used \cup clutter \/ Answers(jobs[j], s)
       PROVE  s \in Used' \cup clutter' \/ Answers(r, s)
  <2>1. s # 0
    BY DEF ReplaceOwnToken, Inv, JobsInv, TypeOK
  <2>2. s \in which => Answers(r, s)
    BY <1>5 DEF Answers
  <2>3. Answers(jobs[j], s) => s = jobs[j].serial
    BY <1>1 DEF Answers
  <2>4. CASE noted' = jobs[j].serial
    BY <1>3, <1>10, <2>1, <2>2, <2>3, <2>4 DEF ReplaceOwnToken, Used, which
  <2>5. CASE noted' # jobs[j].serial
    BY <1>3, <1>10, <2>1, <2>2, <2>3, <2>5 DEF ReplaceOwnToken, Used, which
  <2> QED BY <2>4, <2>5
<1> QED BY <1>5, <1>7, <1>8, <1>9, <1>10, JobStepKeeps

LEMMA RemoveTokensKeeps == ASSUME Inv, NEW j \in Ids, RemoveTokens(j) PROVE Inv'
<1>1. /\ jobs[j] \in JobType /\ jobs[j].pc = "remove" /\ jobs[j].serial = 0
      /\ jobs[j].doomed \subseteq Known \ {0} /\ jobs[j].doomed \subseteq Nat
      /\ jobs[j].listed => jobs[j].earlier \subseteq Known
  BY JobAt DEF RemoveTokens, Inv, JobsInv, JobsHold, Holds, KnownAreOld, JobType
<1>2. PICK s \in jobs[j].doomed :
        /\ Becomes(j, [jobs[j] EXCEPT !.doomed = @ \ {s}])
        /\ \/ portal' = portal \ {s} /\ NoMishap /\ UNCHANGED clutter
           \/ Mishap /\ clutter' = clutter \cup {s} /\ UNCHANGED portal
  BY DEF RemoveTokens
<1> DEFINE r == [jobs[j] EXCEPT !.doomed = @ \ {s}]
<1>3. /\ r \in JobType /\ r.pc = "remove" /\ r.serial = 0 /\ r.doomed = jobs[j].doomed \ {s}
      /\ r.listed = jobs[j].listed /\ r.earlier = jobs[j].earlier
  BY <1>1 DEF JobType
<1>4. IsNow(j, r)
  BY <1>2, <1>3, BecomesJob DEF Inv, JobsInv
<1> HIDE DEF r
<1>5. Holds(r) /\ ~Listed(r)
  BY <1>1, <1>3, <1>4 DEF Holds, Listed, Inv, JobsInv, JobsHold
<1>6. TypeOK'
  BY <1>1, <1>2, <1>4, OneJobType DEF RemoveTokens, page, Inv, JobsInv, TypeOK
<1>7. JobStep(j, r)
  BY <1>1, <1>2, <1>3, <1>4, <1>5, MishapType DEF JobStep, RemoveTokens, Inv, JobsInv
<1>8. ~met /\ Apart => MayDeleteNow(j, r.doomed)
  BY <1>3 DEF Apart, DeletesOwn, MayDelete, MayDeleteNow, RemoveTokens
<1>9. ASSUME NEW t \in portal', t \in Used \cup clutter \/ Answers(jobs[j], t)
      PROVE  t \in Used' \cup clutter' \/ Answers(r, t)
  <2>1. Used' = Used /\ t # 0
    BY <1>2 DEF RemoveTokens, Used, Inv, JobsInv, TypeOK
  <2>2. Answers(jobs[j], t) => t = s \/ t \in r.doomed
    BY <1>1, <1>3, <2>1 DEF Answers
  <2> QED BY <1>2, <1>9, <2>1, <2>2 DEF Answers
<1> QED BY <1>3, <1>5, <1>6, <1>7, <1>8, <1>9, JobStepKeeps

-----------------------------------------------------------------------------
\* A generator is added.

\* Its number is new, and the device's own job is the only one at the portal, or nothing is said.
LEMMA NewIsNew ==
  ASSUME Inv, NEW s, s = count.tokens + 1
  PROVE  /\ s \in Nat \ {0} /\ s \notin Known
         /\ s \notin portal \cup others \cup {keyring, noted}
         /\ \A j \in Ids : /\ jobs[j].serial # s /\ s \notin jobs[j].doomed
                           /\ jobs[j].listed => s \notin jobs[j].earlier
<1>1. s \in Nat \ {0} /\ s \notin Known
  BY DEF Known, Inv, JobsInv, TypeOK
<1> QED BY <1>1 DEF Inv, JobsInv, KnownAreOld

LEMMA NotAtPortal ==
  ASSUME Inv, NEW j \in Ids, ~AtPortal(j)
  PROVE  jobs[j].serial = 0 /\ jobs[j].doomed = {} /\ ~Listed(jobs[j])
  BY DEF Inv, JobsInv, JobsHold, Holds, AtPortal, Listed

\* Somebody else's, or one whose request came late.
LEMMA GrowsElsewhere ==
  ASSUME Inv, TypeOK', NEW s, s = count.tokens + 1, portal' = portal \cup {s}, count'.tokens = s,
         UNCHANGED <<keyring, noted, jobs>>, met' = (met \/ \E k \in Ids : AtPortal(k)),
         \/ others' = others /\ clutter' = clutter \cup {s}
         \/ others' = others \cup {s} /\ clutter' = clutter
  PROVE  Inv'
<1>1. Ids' = Ids /\ JobsHold'
  BY DEF Ids, Inv, JobsInv, JobsHold
<1>2. s \in Nat \ {0} /\ s \notin portal \cup others \cup {keyring, noted} /\ s \notin Known
  BY NewIsNew
<1>3. KnownAreOld'
  <2>1. Known \subseteq Known' /\ s \in Known'
    BY <1>2 DEF Known, Inv, JobsInv, TypeOK
  <2> QED BY <1>1, <2>1 DEF Inv, JobsInv, KnownAreOld
<1>4. ASSUME ~met' PROVE Apart' /\ UsedStays'
  <2>1. ~met /\ Apart /\ UsedStays
    BY <1>4 DEF Inv, SafeInv
  <2>2. \A k \in Ids : jobs[k].serial = 0 /\ jobs[k].doomed = {} /\ ~Listed(jobs[k])
    BY <1>4, NotAtPortal
  <2>3. OneOwner' /\ OwnIsThere'
    BY <1>1, <2>2 DEF OneOwner, OwnIsThere
  <2>4. KeyringFollows'
    BY <1>1, <2>1, <2>2 DEF KeyringFollows, Apart
  <2>5. DeletesOwn'
    BY <1>1, <2>2 DEF DeletesOwn, MayDelete, Listed
  <2>6. NotedIsOurs' /\ UsedStays'
    BY <1>2, <2>1 DEF NotedIsOurs, Apart, UsedStays
  <2> QED BY <2>3, <2>4, <2>5, <2>6 DEF Apart
<1>5. HeldInv'
  BY <1>1 DEF Inv, HeldInv, Used
<1> QED BY <1>1, <1>3, <1>4, <1>5 DEF Inv, JobsInv, SafeInv

LEMMA OthersKeep == ASSUME Inv, EnrollsLate \/ TheyEnroll PROVE Inv'
<1>1. PICK s \in Nat :
        /\ s = count.tokens + 1 /\ portal' = portal \cup {s}
        /\ count' = [count EXCEPT !.tokens = s]
        /\ \/ others' = others /\ clutter' = clutter \cup {s}
           \/ others' = others \cup {s} /\ clutter' = clutter
  BY DEF EnrollsLate, TheyEnroll, Adds
<1>2. /\ UNCHANGED <<keyring, noted, jobs, page>>
      /\ met' = (met \/ \E k \in Ids : AtPortal(k))
      /\ late' \in Nat
  BY DEF EnrollsLate, TheyEnroll, Inv, JobsInv, TypeOK
<1>3. count'.tokens = s /\ count' \in [tokens: Nat, faults: Nat]
  BY <1>1 DEF Inv, JobsInv, TypeOK
<1>4. s \in Nat \ {0}
  BY <1>1, NewIsNew
<1>5. met' \in BOOLEAN
  BY <1>2
<1>6. TypeOK'
  BY <1>1, <1>2, <1>3, <1>4, <1>5 DEF TypeOK, page, Ids, Inv, JobsInv
<1> QED BY <1>1, <1>2, <1>3, <1>6, GrowsElsewhere

LEMMA EnrollKeeps == ASSUME Inv, NEW j \in Ids, Enroll(j) PROVE Inv'
<1>1. /\ jobs[j] \in JobType /\ jobs[j].pc = "enroll" /\ jobs[j].serial = 0
      /\ jobs[j].doomed = {}
      /\ jobs[j].listed => jobs[j].earlier \subseteq Known
  BY JobAt DEF Enroll, Inv, JobsInv, JobsHold, Holds, KnownAreOld
\* Nothing is added, or only later.
<1>2. ASSUME GoesTo(j, "listAgain"), Mishap \/ NoMishap, UNCHANGED <<portal, met>>, late' \in Nat
      PROVE  Inv'
  <2> DEFINE r == [jobs[j] EXCEPT !.pc = "listAgain"]
  <2>1. /\ r \in JobType /\ r.pc = "listAgain" /\ r.serial = 0 /\ r.doomed = {}
        /\ r.listed = jobs[j].listed /\ r.earlier = jobs[j].earlier
    BY <1>1 DEF JobType, JobPcs
  <2>2. IsNow(j, r)
    BY <1>2, GoesToJob DEF Inv, JobsInv, JobPcs
  <2> HIDE DEF r
  <2>3. TypeOK'
    BY <1>2, <2>2, MishapType DEF Enroll, page, Inv, JobsInv, TypeOK, IsNow
  <2>4. JobStep(j, r)
    BY <1>1, <1>2, <2>1, <2>2, MishapType DEF JobStep, Holds, Enroll, Inv, JobsInv
  <2>5. ~met /\ Apart => MayDeleteNow(j, {}) /\ (Listed(r) => MayDeleteNow(j, portal' \ r.earlier))
    BY <1>1, <1>2, <2>1 DEF Apart, DeletesOwn, Listed, MayDelete, MayDeleteNow, Unseen, Enroll
  <2>6. \A s \in portal' : ~Answers(jobs[j], s)
    BY <1>1, <1>2 DEF Answers, Inv, JobsInv, TypeOK
  <2>7. Used' \cup clutter' = Used \cup clutter
    BY DEF Enroll, Used
  <2> QED BY <2>1, <2>3, <2>4, <2>5, <2>6, <2>7, JobStepKeeps
\* It is added.
<1>3. ASSUME NEW s, Adds(s), met' = (met \/ \E k \in Ids \ {j} : AtPortal(k)), UNCHANGED late,
             count'.tokens = s, count' \in [tokens: Nat, faults: Nat],
             NEW r \in JobType, Becomes(j, r), r.doomed = {},
             \/ r.pc = "verify" /\ r.serial = s /\ ~r.listed
             \/ /\ r.pc = "listAgain" /\ r.serial \in {0, s}
                /\ r.listed = jobs[j].listed /\ r.earlier = jobs[j].earlier
      PROVE  Inv'
  <2>1. IsNow(j, r)
    BY <1>3, BecomesJob DEF Inv, JobsInv
  <2>2. /\ s = count.tokens + 1 /\ portal' = portal \cup {s}
        /\ UNCHANGED <<others, clutter, keyring, noted, page>>
    BY <1>3 DEF Adds, Enroll
  <2>3. /\ s \in Nat \ {0} /\ s \notin portal \cup others \cup {keyring, noted} /\ s \notin Known
        /\ jobs[j].listed => s \notin jobs[j].earlier
    BY <2>2, NewIsNew
  <2>4. met' \in BOOLEAN
    BY <1>3
  <2>5. TypeOK'
    BY <1>3, <2>1, <2>2, <2>3, <2>4 DEF IsNow, page, Inv, JobsInv, TypeOK
  <2>6. JobsHold'
    BY <1>3, <2>1, <2>3 DEF Inv, JobsInv, JobsHold, Holds, IsNow
  <2>7. KnownAreOld'
    <3>1. Known \subseteq Known' /\ s \in Known' /\ 0 \in Known'
      BY <1>3, <2>2, <2>3 DEF Known, Inv, JobsInv, TypeOK
    <3>2. r.serial \in Known' /\ r.doomed = {} /\ (r.listed => r.earlier \subseteq Known')
      BY <1>1, <1>3, <3>1
    <3> QED BY <2>1, <2>2, <3>1, <3>2 DEF Inv, JobsInv, KnownAreOld, IsNow
  <2>8. ASSUME ~met' PROVE Apart' /\ UsedStays'
    <3>1. ~met /\ Apart /\ UsedStays
      BY <1>3, <2>8 DEF Inv, SafeInv
    <3>2. \A k \in Ids \ {j} : /\ jobs[k].serial = 0 /\ jobs[k].doomed = {} /\ ~Listed(jobs[k])
                               /\ jobs[k].pc # "note"
      BY <1>3, <2>8, NotAtPortal DEF AtPortal
    <3>3. OneOwner' /\ OwnIsThere'
      BY <1>3, <2>1, <2>2, <2>3, <3>2 DEF OneOwner, OwnIsThere, IsNow
    <3>4. KeyringFollows'
      BY <1>3, <2>1, <2>2, <2>3, <3>2 DEF KeyringFollows, IsNow
    <3>5. Listed(r) => MayDelete(j, Unseen(jobs[j]))
      BY <1>1, <1>3, <3>1 DEF Apart, DeletesOwn, Listed
    <3>6. Listed(r) => (portal' \ r.earlier) \cap (others' \cup {keyring'}) = {}
      BY <1>3, <2>2, <2>3, <3>5 DEF MayDelete, Unseen, Listed
    <3>7. 0 \notin portal'
      BY <2>2, <2>3 DEF Inv, JobsInv, TypeOK
    <3>8. DeletesOwn'
      BY <1>3, <2>1, <3>2, <3>6, <3>7 DEF DeletesOwn, MayDelete, Listed, Unseen, IsNow
    <3>9. NotedIsOurs' /\ UsedStays'
      BY <2>2, <3>1 DEF NotedIsOurs, Apart, UsedStays
    <3> QED BY <3>3, <3>4, <3>8, <3>9 DEF Apart
  <2>9. HeldInv'
    <3>1. Answers(r, s)
      BY <1>3, <2>3 DEF Answers
    <3>2. \A t \in portal : ~Answers(jobs[j], t)
      BY <1>1 DEF Answers, Inv, JobsInv, TypeOK
    <3>3. Used' \cup clutter' = Used \cup clutter
      BY <2>2 DEF Used
    <3> QED BY <2>1, <2>2, <3>1, <3>2, <3>3 DEF Inv, HeldInv, IsNow
  <2> QED BY <2>5, <2>6, <2>7, <2>8, <2>9 DEF Inv, JobsInv, SafeInv
<1>4. CASE \E s \in 1..MaxTokens :
             /\ Adds(s) /\ met' = (met \/ \E k \in Ids \ {j} : AtPortal(k))
             /\ \/ /\ ~jobs[j].cancelled
                   /\ Becomes(j, [jobs[j] EXCEPT !.pc = "verify", !.serial = s,
                                                  !.listed = FALSE, !.earlier = {}])
                   /\ count' = [count EXCEPT !.tokens = s]
                \/ /\ count.faults < MaxMishaps
                   /\ count' = [tokens |-> s, faults |-> count.faults + 1]
                   /\ \E known \in {0, s} :
                         /\ jobs[j].cancelled => known = 0
                         /\ Becomes(j, [jobs[j] EXCEPT !.pc = "listAgain", !.serial = known])
             /\ UNCHANGED late
  <2>1. PICK s \in 1..MaxTokens :
             /\ Adds(s) /\ met' = (met \/ \E k \in Ids \ {j} : AtPortal(k))
             /\ \/ /\ Becomes(j, [jobs[j] EXCEPT !.pc = "verify", !.serial = s,
                                                  !.listed = FALSE, !.earlier = {}])
                   /\ count' = [count EXCEPT !.tokens = s]
                \/ /\ count' = [tokens |-> s, faults |-> count.faults + 1]
                   /\ \E known \in {0, s} :
                         Becomes(j, [jobs[j] EXCEPT !.pc = "listAgain", !.serial = known])
             /\ UNCHANGED late
    BY <1>4
  <2>2. s \in Nat
    BY <2>1, NewIsNew DEF Adds
  <2>3. count'.tokens = s /\ count' \in [tokens: Nat, faults: Nat]
    BY <2>1, <2>2 DEF Inv, JobsInv, TypeOK
  <2>4. CASE Becomes(j, [jobs[j] EXCEPT !.pc = "verify", !.serial = s,
                                         !.listed = FALSE, !.earlier = {}])
    <3> DEFINE r == [jobs[j] EXCEPT !.pc = "verify", !.serial = s, !.listed = FALSE, !.earlier = {}]
    <3>1. r \in JobType /\ r.pc = "verify" /\ r.serial = s /\ ~r.listed /\ r.doomed = {}
      BY <1>1, <2>2 DEF JobType, JobPcs
    <3> HIDE DEF r
    <3>2. Becomes(j, r)
      BY <2>4 DEF r
    <3> QED BY <1>3, <2>1, <2>3, <3>1, <3>2
  <2>5. ASSUME NEW known \in {0, s},
               Becomes(j, [jobs[j] EXCEPT !.pc = "listAgain", !.serial = known])
        PROVE  Inv'
    <3> DEFINE r == [jobs[j] EXCEPT !.pc = "listAgain", !.serial = known]
    <3>1. /\ r \in JobType /\ r.pc = "listAgain" /\ r.serial \in {0, s} /\ r.doomed = {}
          /\ r.listed = jobs[j].listed /\ r.earlier = jobs[j].earlier
      BY <1>1, <2>2 DEF JobType, JobPcs
    <3> HIDE DEF r
    <3>2. Becomes(j, r)
      BY <2>5 DEF r
    <3> QED BY <1>3, <2>1, <2>3, <3>1, <3>2
  <2> QED BY <2>1, <2>4, <2>5
<1>5. late \in Nat /\ late + 1 \in Nat
  BY DEF Inv, JobsInv, TypeOK
<1> QED BY <1>2, <1>4, <1>5 DEF Enroll

-----------------------------------------------------------------------------
\* The user and the core.

LEMMA TypesSecretKeeps == ASSUME Inv, TypesSecret PROVE Inv'
<1>1. /\ keyring' = 0 /\ UNCHANGED <<portal, others, late, met, noted, jobs, page, count>>
      /\ clutter' = IF keyring = 0 THEN clutter ELSE clutter \cup ({keyring} \ {0, noted})
  BY DEF TypesSecret, Replaced
<1>2. Ids' = Ids /\ Known' = Known /\ 0 \in Known
  BY <1>1 DEF Ids, Known, Inv, JobsInv, TypeOK
<1>3. TypeOK'
  BY <1>1 DEF Inv, JobsInv, TypeOK, page, Ids
<1>4. JobsHold' /\ KnownAreOld'
  BY <1>1, <1>2 DEF Inv, JobsInv, JobsHold, KnownAreOld
<1>5. ASSUME ~met, Apart, UsedStays PROVE Apart' /\ UsedStays'
  <2>1. \A k \in Ids : 0 \notin jobs[k].doomed /\ 0 \notin Unseen(jobs[k])
    BY DEF Inv, JobsInv, TypeOK, Unseen, KnownAreOld
  <2>2. \A k \in Ids : MayDelete(k, jobs[k].doomed)' /\ (Listed(jobs[k]) => MayDelete(k, Unseen(jobs[k]))')
    BY <1>1, <1>2, <1>5, <2>1 DEF Apart, DeletesOwn, MayDelete, Unseen
  <2>3. DeletesOwn'
    BY <1>1, <1>2, <2>2 DEF DeletesOwn, Listed
  <2>4. OneOwner' /\ OwnIsThere' /\ KeyringFollows' /\ NotedIsOurs' /\ UsedStays'
    BY <1>1, <1>2, <1>5
    DEF Apart, OneOwner, OwnIsThere, KeyringFollows, NotedIsOurs, UsedStays
  <2> QED BY <2>3, <2>4 DEF Apart
<1>6. HeldInv'
  BY <1>1, <1>2 DEF Inv, JobsInv, TypeOK, HeldInv, Used
<1> QED BY <1>1, <1>3, <1>4, <1>5, <1>6 DEF Inv, JobsInv, SafeInv

LEMMA CoreStopsKeeps == ASSUME Inv, CoreStops PROVE Inv'
<1>1. /\ UNCHANGED <<portal, others, late, met, keyring, noted>> /\ Mishap
      /\ clutter' = clutter \cup (portal \ Used) /\ shown' = 0 /\ stage' = "failed"
  BY DEF CoreStops
<1>2. jobs' \in Seq(JobType) /\ Ids' = Ids /\ \A k \in Ids : jobs'[k] = Off
  <2>1. Len(jobs) \in Nat
    BY LenProperties DEF Inv, JobsInv, TypeOK
  <2>2. jobs' \in [1..Len(jobs) -> JobType] /\ \A k \in Ids : jobs'[k] = Off
    BY OffType DEF CoreStops, Ids
  <2>3. jobs' \in Seq(JobType)
    BY <2>1, <2>2, SeqDef
  <2>4. Ids' = Ids
    BY <2>2, <2>3, LenProperties DEF Ids
  <2> QED BY <2>2, <2>3, <2>4
<1>3. ~Off.listed /\ Off.pc = "off" /\ Off.serial = 0 /\ Off.doomed = {}
  BY OffType DEF Off, Job
<1>4. TypeOK'
  BY <1>1, <1>2, MishapType DEF Inv, JobsInv, TypeOK, Stages
<1>5. JobsHold'
  BY <1>2, <1>3 DEF JobsHold, Holds
<1>6. Known' = Known /\ 0 \in Known
  BY <1>1, MishapType DEF Known, Inv, JobsInv, TypeOK
<1>7. KnownAreOld'
  BY <1>1, <1>2, <1>3, <1>6 DEF Inv, JobsInv, KnownAreOld
<1>8. ASSUME ~met, Apart, UsedStays PROVE Apart' /\ UsedStays'
  BY <1>1, <1>2, <1>3, <1>8
  DEF Apart, OneOwner, OwnIsThere, KeyringFollows, DeletesOwn, MayDelete, Listed, NotedIsOurs, UsedStays
<1>9. HeldInv'
  BY <1>1 DEF Inv, HeldInv, Used
<1> QED BY <1>1, <1>4, <1>5, <1>7, <1>8, <1>9 DEF Inv, JobsInv, SafeInv

-----------------------------------------------------------------------------
LEMMA InitInv == EnrolInit => Inv
<1> SUFFICES ASSUME EnrolInit PROVE Inv
  OBVIOUS
<1>1. jobs = <<>> /\ Ids = {}
  BY DEF EnrolInit, Ids
<1>2. TypeOK
  <2>1. met \in BOOLEAN /\ jobs \in Seq(JobType)
    BY <1>1, EmptySeq DEF EnrolInit
  <2> QED BY <2>1 DEF EnrolInit, TypeOK, Stages
<1>3. KnownAreOld
  BY <1>1 DEF EnrolInit, KnownAreOld, Known
<1> QED
  BY <1>1, <1>2, <1>3
  DEF EnrolInit, Inv, JobsInv, JobsHold, SafeInv, Apart, OneOwner, OwnIsThere, KeyringFollows, DeletesOwn,
      NotedIsOurs, UsedStays, HeldInv

LEMMA JobStepsKeep == ASSUME Inv, NEW j \in Ids, JobSteps(j) PROVE Inv'
  BY SignInKeeps, ListsKeeps, EnrollKeeps, ListsAgainKeeps, VerifyKeeps, KeepTokenKeeps,
     ReplaceOwnTokenKeeps, RemoveTokensKeeps, RunEnrollEndsKeeps, TimesOutKeeps
  DEF JobSteps

LEMMA NextInv == Inv /\ [EnrolNext]_portalVars => Inv'
<1> SUFFICES ASSUME Inv, [EnrolNext]_portalVars PROVE Inv'
  OBVIOUS
<1>1. CASE EnrolNext
  BY <1>1, StartEnrollKeeps, PageKeeps, JobStepsKeep, OthersKeep, TypesSecretKeeps, CoreStopsKeeps
  DEF EnrolNext
<1>2. CASE UNCHANGED portalVars
  BY <1>2
  DEF portalVars, Inv, JobsInv, TypeOK, JobsHold, KnownAreOld, Known, SafeInv, Apart, OneOwner, OwnIsThere,
      KeyringFollows, DeletesOwn, MayDelete, Unseen, NotedIsOurs, UsedStays, HeldInv, Used, Ids
<1> QED BY <1>1, <1>2

LEMMA InvAlways == EnrolSpec => []Inv
  BY InitInv, NextInv, PTL DEF EnrolSpec

\* No setup deletes a generator whose secret is in the keyring or that another device uses
\* (enroll.go, cleanUpLost, keepToken and replaceOwnToken), whatever is lost, late or cut short.
THEOREM UsedStaysAlways == EnrolSpec => []UsedStays
<1>1. Inv => UsedStays
  BY DEF Inv, SafeInv, UsedStays
<1> QED BY <1>1, InvAlways, PTL

\* A setup that has ended, in whatever way, leaves no generator in the portal that nobody uses,
\* knows of or could have known of (enroll.go, cleanUpLost and the note in mfa-token-serial).
THEOREM NothingLeftAlways == EnrolSpec => []NothingLeft
<1>1. Inv => NothingLeft
  <2> SUFFICES ASSUME Inv, \A j \in Ids : ~On(j), NEW s \in portal PROVE s \in Used \cup clutter
    BY DEF NothingLeft
  <2>1. s # 0
    BY DEF Inv, JobsInv, TypeOK
  <2>2. \A j \in Ids : jobs[j].pc = "off" /\ jobs[j].serial = 0 /\ jobs[j].doomed = {}
    BY DEF On, Inv, JobsInv, JobsHold, Holds
  <2> QED BY <2>1, <2>2 DEF Inv, HeldInv, Answers
<1> QED BY <1>1, InvAlways, PTL
=============================================================================
