---------------------------- MODULE SetupProofs -----------------------------
(***************************************************************************)
(* Safety of Setup, for every number of runs and of faults and every set   *)
(* of the three operating systems: a removal is exact, a setup that ends   *)
(* well has set up, and Repair is not offered where it cannot help.  The   *)
(* steps a process has ahead are a sequence: the proofs use only which     *)
(* step follows which and what is not ahead any more.                      *)
(***************************************************************************)
EXTENDS SetupProperties, SequenceTheorems, TLAPS

-----------------------------------------------------------------------------
\* The steps a process has ahead.

Files == {"config", "command", "apport", "unit", "entry", "login"}
\* Those of the user's that Uni VPN may find there.
Kept == {"config", "apport"}

LoadOps == {"enable", "restart", "bootout", "bootstrap", "create", "end", "run"}
FileOps == {"write", "note", "noted"}
\* The steps of a setup up to the proxy, and those after it.
Early ==
    (FileOps \X {"config", "command", "apport", "unit"})
        \cup (({"programs", "proxy"} \cup LoadOps) \X {""})
Late == (FileOps \X {"entry", "login"}) \cup ({"stopApp", "startApp", "port", "asks"} \X {""})

\* A file is noted right after it is written, the unit later; what is taken out of the service
\* manager is put there again at once.
NextIs(s, i, step) == i < Len(s) /\ s[i + 1] = step
Follows(s) ==
    \A i \in 1..Len(s) :
        /\ s[i][1] = "write" /\ s[i][2] # "unit" => NextIs(s, i, <<"note", s[i][2]>>)
        /\ s[i][1] = "bootout" => NextIs(s, i, Do("bootstrap"))
        /\ s[i][1] = "end" => NextIs(s, i, Do("run"))

\* A file the user may have is noted only after it was written.
NotesOwn(s) ==
    \A i \in 2..Len(s) :
        s[i][1] = "note" /\ s[i][2] \in Kept => s[i - 1] = <<"write", s[i][2]>>
LateLast(s) == \A i, j \in 1..Len(s) : i < j /\ s[i] \in Late => s[j] \in Late
InstallOrder(s) ==
    /\ s \in Seq(Early \cup Late)
    /\ Follows(s) /\ NotesOwn(s) /\ LateLast(s)
    /\ \A i \in 2..Len(s) : s[i][1] # "noted"

\* A removal, in the order of its steps.
Place(op) ==
    CASE op = "unproxy" -> 1
      [] op = "stopApp" -> 2
      [] op = "end" -> 3
      [] op \in {"unregister", "forget"} -> 4
      [] op = "unlink" -> 5
      [] op = "delete" -> 6
      [] op = "unlist" -> 7
      [] op = "unroot" -> 8
      [] op = "stop" -> 9
RemoveOps ==
    {"unproxy", "stopApp", "end", "unregister", "forget", "unlink", "delete", "unlist", "unroot",
     "stop"}
Removals == RemoveOps \X {""}
RemoveOrder(s) ==
    /\ s \in Seq(Removals)
    /\ \A i, j \in 1..Len(s) : i < j => Place(s[i][1]) < Place(s[j][1])

\* One of these operations is among the steps.
Has(s, ops) == \E i \in 1..Len(s) : s[i][1] \in ops
Ahead(ops) == Has(proc.todo, ops)

-----------------------------------------------------------------------------
(* What setup does is in this order. *)

Steps == Early \cup Late
KnownSystem == system \in {"linux", "macOS", "windows"}

\* A part of what setup does, of the steps S.
Part(s, S) ==
    /\ s \in Seq(S) /\ S \subseteq Steps
    /\ Follows(s)
    /\ \A i \in 1..Len(s) :
          /\ s[i][1] # "noted"
          /\ s[i][1] = "note" /\ s[i][2] \in Kept => i > 1 /\ s[i - 1] = <<"write", s[i][2]>>

LEMMA DoIs == \A op : Do(op)[1] = op /\ Do(op)[2] = ""
BY DEF Do

LEMMA CatIndex ==
  ASSUME NEW S, NEW s \in Seq(S), NEW t \in Seq(S)
  PROVE  /\ s \o t \in Seq(S) /\ Len(s \o t) = Len(s) + Len(t)
         /\ \A i \in 1..Len(s) : (s \o t)[i] = s[i]
         /\ \A i \in 1..Len(t) : (s \o t)[Len(s) + i] = t[i]
OBVIOUS

LEMMA CatPart ==
  ASSUME NEW S, NEW s, NEW t, Part(s, S), Part(t, S)
  PROVE  Part(s \o t, S)
<1> DEFINE u == s \o t
<1> s \in Seq(S) /\ t \in Seq(S)
  BY DEF Part
<1>1. /\ u \in Seq(S) /\ Len(u) = Len(s) + Len(t)
      /\ \A i \in 1..Len(s) : u[i] = s[i]
      /\ \A i \in 1..Len(t) : u[Len(s) + i] = t[i]
  BY CatIndex
<1>2. Len(s) \in Nat /\ Len(t) \in Nat
  OBVIOUS
<1> HIDE DEF u
<1>3. ASSUME NEW i \in 1..Len(u)
      PROVE  \/ i \in 1..Len(s) /\ u[i] = s[i] /\ (i < Len(s) => u[i + 1] = s[i + 1])
                /\ (i > 1 => u[i - 1] = s[i - 1])
             \/ \E k \in 1..Len(t) :
                   /\ i = Len(s) + k /\ u[i] = t[k]
                   /\ (k < Len(t) => u[i + 1] = t[k + 1]) /\ (k > 1 => u[i - 1] = t[k - 1])
  <2>1. CASE i <= Len(s)
    <3>1. i \in 1..Len(s)
      BY <1>2, <2>1
    <3>2. i < Len(s) => i + 1 \in 1..Len(s)
      BY <1>2, <3>1
    <3>3. i > 1 => i - 1 \in 1..Len(s)
      BY <1>2, <3>1
    <3> QED
      BY <1>1, <3>1, <3>2, <3>3
  <2>2. CASE i > Len(s)
    <3> DEFINE k == i - Len(s)
    <3>1. k \in 1..Len(t) /\ i = Len(s) + k
      BY <1>1, <1>2, <2>2
    <3>2. k < Len(t) => k + 1 \in 1..Len(t) /\ i + 1 = Len(s) + (k + 1)
      BY <1>2, <3>1
    <3>3. k > 1 => k - 1 \in 1..Len(t) /\ i - 1 = Len(s) + (k - 1)
      BY <1>2, <3>1
    <3> HIDE DEF k
    <3>4. u[i] = t[k] /\ (k < Len(t) => u[i + 1] = t[k + 1]) /\ (k > 1 => u[i - 1] = t[k - 1])
      BY <1>1, <3>1, <3>2, <3>3
    <3> QED
      BY <3>1, <3>4
  <2> QED
    BY <1>1, <1>2, <2>1, <2>2
<1>4. ASSUME NEW i \in 1..Len(u)
      PROVE  /\ u[i][1] = "write" /\ u[i][2] # "unit" => NextIs(u, i, <<"note", u[i][2]>>)
             /\ u[i][1] = "bootout" => NextIs(u, i, Do("bootstrap"))
             /\ u[i][1] = "end" => NextIs(u, i, Do("run"))
             /\ u[i][1] # "noted"
             /\ u[i][1] = "note" /\ u[i][2] \in Kept => i > 1 /\ u[i - 1] = <<"write", u[i][2]>>
  <2>1. CASE i \in 1..Len(s) /\ u[i] = s[i] /\ (i < Len(s) => u[i + 1] = s[i + 1])
             /\ (i > 1 => u[i - 1] = s[i - 1])
    BY <1>1, <1>2, <2>1 DEF Part, Follows, NextIs
  <2>2. CASE \E k \in 1..Len(t) :
                /\ i = Len(s) + k /\ u[i] = t[k]
                /\ (k < Len(t) => u[i + 1] = t[k + 1]) /\ (k > 1 => u[i - 1] = t[k - 1])
    <3> PICK k \in 1..Len(t) :
                /\ i = Len(s) + k /\ u[i] = t[k]
                /\ (k < Len(t) => u[i + 1] = t[k + 1]) /\ (k > 1 => u[i - 1] = t[k - 1])
      BY <2>2
    <3>1. k < Len(t) => i < Len(u)
      BY <1>1, <1>2
    <3>2. k > 1 => i > 1
      BY <1>2
    <3> QED
      BY <3>1, <3>2 DEF Part, Follows, NextIs
  <2> QED
    BY <1>3, <2>1, <2>2
<1>5. S \subseteq Steps
  BY DEF Part
<1>6. Part(u, S)
  BY <1>1, <1>4, <1>5 DEF Part, Follows
<1> QED
  BY <1>6 DEF u

\* The parts of SetupSteps.
LEMMA CreatesPart ==
  /\ \A f \in {"config", "command", "apport"} : Part(Creates(f), Early)
  /\ \A f \in {"entry", "login"} : Part(Creates(f), Late)
<1>1. ASSUME NEW f \in Files, NEW S, S \in {Early, Late},
             {<<"write", f>>, <<"note", f>>} \subseteq S
      PROVE  Part(Creates(f), S)
  <2>1. Creates(f) \in Seq(S) /\ Len(Creates(f)) = 2
        /\ Creates(f)[1] = <<"write", f>> /\ Creates(f)[2] = <<"note", f>>
    BY <1>1 DEF Creates
  <2>2. ASSUME NEW i \in 1..2 PROVE i = 1 \/ i = 2
    OBVIOUS
  <2> QED
    BY <1>1, <2>1, <2>2 DEF Part, Follows, NextIs, Steps
<1>2. ASSUME NEW f \in {"config", "command", "apport"}
      PROVE  {<<"write", f>>, <<"note", f>>} \subseteq Early
  <2>1. {"write", "note"} \subseteq FileOps /\ f \in {"config", "command", "apport", "unit"}
    BY DEF FileOps
  <2>2. {<<"write", f>>, <<"note", f>>} \subseteq
            FileOps \X {"config", "command", "apport", "unit"}
    BY <2>1
  <2> QED
    BY <2>2 DEF Early
<1>3. ASSUME NEW f \in {"entry", "login"} PROVE {<<"write", f>>, <<"note", f>>} \subseteq Late
  <2>1. {"write", "note"} \subseteq FileOps
    BY DEF FileOps
  <2>2. {<<"write", f>>, <<"note", f>>} \subseteq FileOps \X {"entry", "login"}
    BY <2>1
  <2> QED
    BY <2>2 DEF Late
<1> QED
  BY <1>1, <1>2, <1>3 DEF Files

LEMMA OnePart ==
  /\ \A S \in {Early, Late} : Part(<<>>, S)
  /\ \A op \in {"programs", "proxy"} : Part(<<Do(op)>>, Early)
  /\ \A op \in {"stopApp", "startApp", "port", "asks"} : Part(<<Do(op)>>, Late)
  /\ Part(<<<<"write", "unit">>>>, Early)
<1>1. ASSUME NEW step, NEW S, S \in {Early, Late}, step \in S,
             step[1] \notin {"note", "noted", "bootout", "end"},
             step[1] = "write" => step[2] = "unit"
      PROVE  Part(<<step>>, S)
  <2>1. <<step>> \in Seq(S) /\ Len(<<step>>) = 1 /\ <<step>>[1] = step
    BY <1>1
  <2>2. \A i \in 1..1 : i = 1
    OBVIOUS
  <2> QED
    BY <1>1, <2>1, <2>2 DEF Part, Follows, NextIs, Steps
<1>2. ASSUME NEW S \in {Early, Late} PROVE Part(<<>>, S)
  BY DEF Part, Follows, Steps
<1>3. ASSUME NEW op \in {"programs", "proxy"} PROVE Part(<<Do(op)>>, Early)
  <2>1. Do(op) \in Early /\ Do(op)[1] = op
    BY DEF Early, Do
  <2> QED
    BY <1>1, <2>1
<1>4. ASSUME NEW op \in {"stopApp", "startApp", "port", "asks"} PROVE Part(<<Do(op)>>, Late)
  <2>1. Do(op) \in Late /\ Do(op)[1] = op
    BY DEF Late, Do
  <2> QED
    BY <1>1, <2>1
<1>5. Part(<<<<"write", "unit">>>>, Early)
  <2>1. <<"write", "unit">> \in Early
    BY DEF Early, FileOps
  <2> QED
    BY <1>1, <2>1
<1> QED
  BY <1>2, <1>3, <1>4, <1>5

LEMMA LoadsPart ==
  ASSUME KnownSystem
  PROVE  /\ Part(Loads, Early)
         /\ Has(Loads, {"enable", "bootstrap", "create"})
         /\ Has(Loads, {"enable", "bootstrap", "run"})
         /\ Has(Loads, {"restart", "bootout", "end"})
<1>1. ASSUME NEW op \in LoadOps PROVE Do(op) \in Early /\ Do(op)[1] = op
  BY DEF Early, Do
<1>2. /\ Do("enable") \in Early /\ Do("restart") \in Early
      /\ Do("bootout") \in Early /\ Do("bootstrap") \in Early
      /\ Do("create") \in Early /\ Do("end") \in Early /\ Do("run") \in Early
      /\ Do("enable")[1] = "enable" /\ Do("restart")[1] = "restart"
      /\ Do("bootout")[1] = "bootout" /\ Do("bootstrap")[1] = "bootstrap"
      /\ Do("create")[1] = "create" /\ Do("end")[1] = "end" /\ Do("run")[1] = "run"
  BY <1>1 DEF LoadOps
<1>3. \A i \in 1..2 : i = 1 \/ i = 2
  OBVIOUS
<1>4. \A i \in 1..3 : i = 1 \/ i = 2 \/ i = 3
  OBVIOUS
<1>5. CASE linux
  <2>1. Loads = <<Do("enable"), Do("restart")>>
    BY <1>5 DEF Loads, EnableAndRestart, linux, mac, windows
  <2>2. /\ Loads \in Seq(Early) /\ Len(Loads) = 2
        /\ Loads[1] = Do("enable") /\ Loads[2] = Do("restart")
    BY <1>2, <2>1
  <2>3. Part(Loads, Early)
    BY <1>2, <1>3, <2>2 DEF Part, Follows, NextIs, Steps
  <2> QED
    BY <1>2, <2>2, <2>3 DEF Has
<1>6. CASE mac
  <2>1. Loads = <<Do("bootout"), Do("bootstrap")>>
    BY <1>6 DEF Loads, linux, mac, windows
  <2>2. /\ Loads \in Seq(Early) /\ Len(Loads) = 2
        /\ Loads[1] = Do("bootout") /\ Loads[2] = Do("bootstrap")
    BY <1>2, <2>1
  <2>3. Part(Loads, Early)
    BY <1>2, <1>3, <2>2 DEF Part, Follows, NextIs, Steps
  <2> QED
    BY <1>2, <2>2, <2>3 DEF Has
<1>7. CASE windows
  <2>1. Loads = <<Do("create"), Do("end"), Do("run")>>
    BY <1>7 DEF Loads, linux, mac, windows
  <2>2. /\ Loads \in Seq(Early) /\ Len(Loads) = 3
        /\ Loads[1] = Do("create") /\ Loads[2] = Do("end") /\ Loads[3] = Do("run")
    BY <1>2, <2>1
  <2>3. Part(Loads, Early)
    BY <1>2, <1>4, <2>2 DEF Part, Follows, NextIs, Steps
  <2> QED
    BY <1>2, <2>2, <2>3 DEF Has
<1> QED
  BY <1>5, <1>6, <1>7 DEF KnownSystem, linux, mac, windows

LEMMA AppPart ==
  ASSUME KnownSystem, native \in BOOLEAN, NEW keep \in BOOLEAN
  PROVE  Part(AppInstall(keep), Late)
<1>1. Part(Stops(keep), Late)
  BY OnePart DEF Stops
<1>2. Part(Creates("entry"), Late) /\ Part(Creates("login"), Late)
  BY CreatesPart
<1>3. Part(<<Do("startApp")>>, Late) /\ Part(<<>>, Late)
  BY OnePart
<1>4. Part(InstallLinux(keep), Late)
  <2>1. Part(Creates("entry") \o Stops(keep), Late)
    BY <1>1, <1>2, CatPart
  <2>2. Part(Creates("entry") \o Stops(keep) \o Creates("login"), Late)
    BY <1>2, <2>1, CatPart
  <2> QED
    BY <1>3, <2>2, CatPart DEF InstallLinux
<1>5. Part(InstallMacOS(keep), Late)
  <2>1. Part(Stops(keep) \o Creates("login"), Late)
    BY <1>1, <1>2, CatPart
  <2> QED
    BY <1>3, <2>1, CatPart DEF InstallMacOS
<1>6. Part(InstallWindows(keep), Late)
  <2>1. Part(Stops(keep) \o Creates("entry"), Late)
    BY <1>1, <1>2, CatPart
  <2>2. Part(Stops(keep) \o Creates("entry") \o Creates("login"), Late)
    BY <1>2, <2>1, CatPart
  <2> QED
    BY <1>3, <2>2, CatPart DEF InstallWindows
<1>7. Part(BrowserEntry, Late)
  <2>1. Part(IF linux THEN Creates("login") ELSE <<>>, Late)
    BY <1>2, <1>3
  <2> QED
    BY <1>2, <2>1, CatPart DEF BrowserEntry
<1>8. AppInstall(keep) \in
        {InstallLinux(keep), InstallMacOS(keep), InstallWindows(keep), BrowserEntry}
  BY DEF AppInstall, KnownSystem, linux, mac, windows
<1> QED
  BY <1>4, <1>5, <1>6, <1>7, <1>8

LEMMA CatHas ==
  ASSUME NEW S, NEW s \in Seq(S), NEW t \in Seq(S), NEW ops
  PROVE  Has(s \o t, ops) <=> Has(s, ops) \/ Has(t, ops)
<1> DEFINE u == s \o t
<1>1. /\ Len(u) = Len(s) + Len(t) /\ Len(s) \in Nat /\ Len(t) \in Nat
      /\ \A i \in 1..Len(s) : u[i] = s[i]
      /\ \A i \in 1..Len(t) : u[Len(s) + i] = t[i]
  BY CatIndex
<1> HIDE DEF u
<1>2. ASSUME Has(s, ops) PROVE Has(u, ops)
  <2> PICK i \in 1..Len(s) : s[i][1] \in ops
    BY <1>2 DEF Has
  <2> QED
    BY <1>1 DEF Has
<1>3. ASSUME Has(t, ops) PROVE Has(u, ops)
  <2> PICK i \in 1..Len(t) : t[i][1] \in ops
    BY <1>3 DEF Has
  <2>1. Len(s) + i \in 1..Len(u)
    BY <1>1
  <2> QED
    BY <1>1, <2>1 DEF Has
<1>4. ASSUME Has(u, ops) PROVE Has(s, ops) \/ Has(t, ops)
  <2> PICK i \in 1..Len(u) : u[i][1] \in ops
    BY <1>4 DEF Has
  <2>1. CASE i \in 1..Len(s)
    BY <1>1, <2>1 DEF Has
  <2>2. CASE i \notin 1..Len(s)
    <3> DEFINE k == i - Len(s)
    <3>1. k \in 1..Len(t) /\ i = Len(s) + k
      BY <1>1, <2>2
    <3> HIDE DEF k
    <3> QED
      BY <1>1, <3>1 DEF Has
  <2> QED
    BY <2>1, <2>2
<1>5. Has(u, ops) <=> Has(s, ops) \/ Has(t, ops)
  BY <1>2, <1>3, <1>4
<1> QED
  BY <1>5 DEF u

LEMMA EarlyIsNotLate == Early \cap Late = {}
BY DEF Early, Late, FileOps, LoadOps

\* The early part and then the late one are in order.
LEMMA PartsInOrder ==
  ASSUME NEW s, NEW t, Part(s, Early), Part(t, Late)
  PROVE  InstallOrder(s \o t)
<1> DEFINE u == s \o t
<1> s \in Seq(Early) /\ t \in Seq(Late)
  BY DEF Part
<1>1. s \in Seq(Steps) /\ t \in Seq(Steps)
  BY DEF Steps
<1>2. Part(s, Steps) /\ Part(t, Steps)
  BY <1>1 DEF Part
<1>3. Part(u, Steps)
  BY <1>2, CatPart
<1>4. /\ Len(u) = Len(s) + Len(t) /\ Len(s) \in Nat /\ Len(t) \in Nat
      /\ \A i \in 1..Len(s) : u[i] = s[i]
      /\ \A i \in 1..Len(t) : u[Len(s) + i] = t[i]
  BY <1>1, CatIndex
<1> HIDE DEF u
<1>5. ASSUME NEW i \in 1..Len(u) PROVE u[i] \in Late <=> i > Len(s)
  <2>1. CASE i <= Len(s)
    <3>1. i \in 1..Len(s)
      BY <1>4, <2>1
    <3>2. u[i] \in Early
      BY <1>4, <3>1
    <3> QED
      BY <1>4, <2>1, <3>2, EarlyIsNotLate
  <2>2. CASE i > Len(s)
    <3> DEFINE k == i - Len(s)
    <3>1. k \in 1..Len(t) /\ i = Len(s) + k
      BY <1>4, <2>2
    <3> HIDE DEF k
    <3>2. u[i] = t[k]
      BY <1>4, <3>1
    <3> QED
      BY <2>2, <3>1, <3>2
  <2> QED
    BY <1>4, <2>1, <2>2
<1>6. LateLast(u)
  BY <1>4, <1>5 DEF LateLast
<1>7. InstallOrder(u)
  BY <1>3, <1>6 DEF InstallOrder, Part, NotesOwn, Steps
<1> QED
  BY <1>7 DEF u

LEMMA SetupOrder ==
  ASSUME KnownSystem, native \in BOOLEAN, NEW keep \in BOOLEAN
  PROVE  /\ InstallOrder(SetupSteps(keep))
         /\ SetupSteps(keep) # <<>> /\ Head(SetupSteps(keep)) = Do("programs")
         /\ Has(SetupSteps(keep), {"enable", "bootstrap", "create"})
         /\ Has(SetupSteps(keep), {"enable", "bootstrap", "run"})
         /\ Has(SetupSteps(keep), {"restart", "bootout", "end"})
<1> DEFINE a == <<Do("programs")>> \o Creates("config") \o Creates("command")
           b == a \o (IF linux THEN Creates("apport") ELSE <<>>)
           c == b \o <<<<"write", "unit">>>>
           d == c \o Loads
           n == <<<<"note", "unit">>, Do("proxy")>>
           e == d \o n
           l == AppInstall(keep)
           z == <<Do(IF desktop THEN "port" ELSE "asks")>>
<1>1. SetupSteps(keep) = e \o l \o z
  BY DEF SetupSteps
<1>2. Part(a, Early)
  <2>1. Part(<<Do("programs")>> \o Creates("config"), Early)
    BY OnePart, CreatesPart, CatPart
  <2> QED
    BY <2>1, CreatesPart, CatPart
<1>3. Part(b, Early)
  <2>1. Part(IF linux THEN Creates("apport") ELSE <<>>, Early)
    BY OnePart, CreatesPart
  <2> HIDE DEF a
  <2> QED
    BY <1>2, <2>1, CatPart
<1>4. Part(c, Early)
  <2> HIDE DEF b
  <2> QED
    BY <1>3, OnePart, CatPart
<1>5. Part(d, Early)
  <2> HIDE DEF c
  <2> QED
    BY <1>4, LoadsPart, CatPart
<1>6. Part(n, Early)
  <2>1. <<"note", "unit">> \in Early /\ Do("proxy") \in Early
    BY DEF Early, FileOps, Do
  <2>2. /\ n \in Seq(Early) /\ Len(n) = 2
        /\ n[1][1] = "note" /\ n[1][2] = "unit" /\ n[2][1] = "proxy"
    <3>1. n \in Seq(Early) /\ Len(n) = 2 /\ n[1] = <<"note", "unit">> /\ n[2] = Do("proxy")
      BY <2>1
    <3>2. Do("proxy") = <<"proxy", "">>
      BY DEF Do
    <3> HIDE DEF n
    <3>3. n[1][1] = "note" /\ n[1][2] = "unit" /\ n[2][1] = "proxy"
      <4>1. n[1][1] = "note" /\ n[1][2] = "unit"
        BY <3>1
      <4>2. n[2][1] = "proxy"
        BY <3>1, DoIs
      <4> QED
        BY <4>1, <4>2
    <3> QED
      BY <3>1, <3>3
  <2>3. \A i \in 1..2 : i = 1 \/ i = 2
    OBVIOUS
  <2> HIDE DEF n
  <2> QED
    BY <2>2, <2>3 DEF Part, Follows, NextIs, Steps, Kept
<1>7. Part(e, Early)
  <2> HIDE DEF d, n
  <2> QED
    BY <1>5, <1>6, CatPart
<1>8. Part(l, Late)
  BY AppPart
<1>9. Part(z, Late)
  BY OnePart
<1>10. Part(l \o z, Late)
  <2> HIDE DEF l, z
  <2> QED
    BY <1>8, <1>9, CatPart
<1> HIDE DEF a, b, c, d, n, e, l, z
<1>11. /\ e \in Seq(Steps) /\ l \in Seq(Steps) /\ z \in Seq(Steps)
       /\ d \in Seq(Steps) /\ n \in Seq(Steps)
  BY <1>5, <1>6, <1>7, <1>8, <1>9 DEF Part, Steps
<1>12. SetupSteps(keep) = e \o (l \o z)
  BY <1>1, <1>11
<1>13. InstallOrder(SetupSteps(keep))
  BY <1>7, <1>10, <1>12, PartsInOrder
<1>14. ASSUME NEW ops, Has(Loads, ops) PROVE Has(SetupSteps(keep), ops)
  <2>1. c \in Seq(Steps) /\ Loads \in Seq(Steps) /\ (l \o z) \in Seq(Steps)
    BY <1>4, <1>10, LoadsPart DEF Part, Steps
  <2>2. Has(d, ops)
    BY <1>14, <2>1, CatHas DEF d
  <2>3. Has(e, ops)
    BY <1>11, <2>2, CatHas DEF e
  <2>4. Has(e \o (l \o z), ops)
    BY <1>11, <2>1, <2>3, CatHas
  <2> QED
    BY <1>12, <2>4
<1>15. SetupSteps(keep) # <<>> /\ Head(SetupSteps(keep)) = Do("programs")
  <2>1. ASSUME NEW s \in Seq(Steps), NEW t \in Seq(Steps), s # <<>>
        PROVE  s \o t # <<>> /\ Head(s \o t) = Head(s)
    BY <2>1, CatIndex
  <2>2. <<Do("programs")>> \in Seq(Steps) /\ <<Do("programs")>> # <<>>
        /\ Head(<<Do("programs")>>) = Do("programs")
    BY OnePart DEF Part, Steps
  <2>3. /\ Creates("config") \in Seq(Steps) /\ Creates("command") \in Seq(Steps)
        /\ (IF linux THEN Creates("apport") ELSE <<>>) \in Seq(Steps)
        /\ <<<<"write", "unit">>>> \in Seq(Steps) /\ Loads \in Seq(Steps)
    BY CreatesPart, OnePart, LoadsPart DEF Part, Steps
  <2>4. <<Do("programs")>> \o Creates("config") \in Seq(Steps)
        /\ <<Do("programs")>> \o Creates("config") # <<>>
        /\ Head(<<Do("programs")>> \o Creates("config")) = Do("programs")
    BY <2>1, <2>2, <2>3
  <2>5. a \in Seq(Steps) /\ a # <<>> /\ Head(a) = Do("programs")
    BY <2>1, <2>3, <2>4 DEF a
  <2>6. b \in Seq(Steps) /\ b # <<>> /\ Head(b) = Do("programs")
    BY <2>1, <2>3, <2>5 DEF b
  <2>7. c \in Seq(Steps) /\ c # <<>> /\ Head(c) = Do("programs")
    BY <2>1, <2>3, <2>6 DEF c
  <2>8. d \in Seq(Steps) /\ d # <<>> /\ Head(d) = Do("programs")
    BY <2>1, <2>3, <2>7 DEF d
  <2>9. e # <<>> /\ Head(e) = Do("programs")
    BY <1>11, <2>1, <2>8 DEF e
  <2> QED
    BY <1>11, <1>12, <2>1, <2>9
<1> QED
  BY <1>13, <1>14, <1>15, LoadsPart

\* A part of what a removal does, its operations from one place to another.
Stretch(s, first, last) ==
    /\ RemoveOrder(s)
    /\ \A i \in 1..Len(s) : first <= Place(s[i][1]) /\ Place(s[i][1]) <= last

LEMMA PlaceType ==
  /\ \A op \in RemoveOps : Place(op) \in 1..9
  /\ \A step \in Removals : step[1] \in RemoveOps
<1>1. ASSUME NEW op \in RemoveOps PROVE Place(op) \in 1..9
  BY DEF Place, RemoveOps
<1>2. ASSUME NEW step \in Removals PROVE step[1] \in RemoveOps
  BY DEF Removals
<1> QED
  BY <1>1, <1>2

LEMMA Places ==
  /\ Place("unproxy") = 1 /\ Place("stopApp") = 2 /\ Place("end") = 3
  /\ Place("unregister") = 4 /\ Place("forget") = 4 /\ Place("unlink") = 5
  /\ Place("delete") = 6 /\ Place("unlist") = 7 /\ Place("unroot") = 8 /\ Place("stop") = 9
  /\ {"unproxy", "stopApp", "end", "unregister", "forget"} \subseteq RemoveOps
  /\ {"unlink", "delete", "unlist", "unroot", "stop"} \subseteq RemoveOps
<1>1. /\ Place("unproxy") = 1 /\ Place("stopApp") = 2 /\ Place("end") = 3
      /\ Place("unregister") = 4 /\ Place("forget") = 4 /\ Place("unlink") = 5
      /\ Place("delete") = 6 /\ Place("unlist") = 7 /\ Place("unroot") = 8 /\ Place("stop") = 9
  BY DEF Place
<1> QED
  BY <1>1 DEF RemoveOps

LEMMA CatStretch ==
  ASSUME NEW a \in Nat, NEW b \in Nat, NEW c \in Nat, NEW d \in Nat, b < c, a <= b, c <= d,
         NEW s, NEW t, Stretch(s, a, b), Stretch(t, c, d)
  PROVE  Stretch(s \o t, a, d)
<1> DEFINE u == s \o t
<1> s \in Seq(Removals) /\ t \in Seq(Removals)
  BY DEF Stretch, RemoveOrder
<1>1. /\ u \in Seq(Removals)
      /\ Len(u) = Len(s) + Len(t) /\ Len(s) \in Nat /\ Len(t) \in Nat
      /\ \A i \in 1..Len(s) : u[i] = s[i]
      /\ \A i \in 1..Len(t) : u[Len(s) + i] = t[i]
  BY CatIndex
<1> HIDE DEF u
<1>2. ASSUME NEW i \in 1..Len(s)
      PROVE  a <= Place(u[i][1]) /\ Place(u[i][1]) <= b /\ Place(u[i][1]) \in 1..9
  <2>1. s[i][1] \in RemoveOps
    BY PlaceType
  <2> QED
    BY <1>1, <2>1, PlaceType DEF Stretch
<1>3. ASSUME NEW i \in 1..Len(u), i \notin 1..Len(s)
      PROVE  /\ c <= Place(u[i][1]) /\ Place(u[i][1]) <= d /\ Place(u[i][1]) \in 1..9
             /\ i - Len(s) \in 1..Len(t) /\ u[i] = t[i - Len(s)]
  <2>1. i - Len(s) \in 1..Len(t) /\ i = Len(s) + (i - Len(s))
    BY <1>1, <1>3
  <2>2. u[i] = t[i - Len(s)] /\ t[i - Len(s)][1] \in RemoveOps
    BY <1>1, <2>1, PlaceType
  <2> QED
    BY <2>1, <2>2, PlaceType DEF Stretch
<1>4. ASSUME NEW i \in 1..Len(u), NEW j \in 1..Len(u), i < j
      PROVE  Place(u[i][1]) < Place(u[j][1])
  <2>1. CASE j \in 1..Len(s)
    <3>1. i \in 1..Len(s)
      BY <1>1, <1>4, <2>1
    <3> QED
      BY <1>1, <1>4, <2>1, <3>1 DEF Stretch, RemoveOrder
  <2>2. CASE i \in 1..Len(s) /\ j \notin 1..Len(s)
    <3>1. Place(u[i][1]) <= b /\ Place(u[i][1]) \in 1..9
      BY <1>2, <2>2
    <3>2. c <= Place(u[j][1]) /\ Place(u[j][1]) \in 1..9
      BY <1>3, <2>2
    <3>3. ASSUME NEW x \in 1..9, NEW y \in 1..9, x <= b, c <= y PROVE x < y
      BY <3>3
    <3> QED
      BY <3>1, <3>2, <3>3
  <2>3. CASE i \notin 1..Len(s) /\ j \notin 1..Len(s)
    <3>1. /\ i - Len(s) \in 1..Len(t) /\ u[i] = t[i - Len(s)]
          /\ j - Len(s) \in 1..Len(t) /\ u[j] = t[j - Len(s)]
      BY <1>3, <2>3
    <3>2. i - Len(s) < j - Len(s)
      BY <1>1, <1>4
    <3> QED
      BY <3>1, <3>2 DEF Stretch, RemoveOrder
  <2> QED
    BY <1>1, <2>1, <2>2, <2>3
<1>5. ASSUME NEW i \in 1..Len(u) PROVE a <= Place(u[i][1]) /\ Place(u[i][1]) <= d
  <2>1. CASE i \in 1..Len(s)
    <3>1. a <= Place(u[i][1]) /\ Place(u[i][1]) <= b /\ Place(u[i][1]) \in 1..9
      BY <1>2, <2>1
    <3> QED
      BY <3>1
  <2>2. CASE i \notin 1..Len(s)
    <3>1. c <= Place(u[i][1]) /\ Place(u[i][1]) <= d /\ Place(u[i][1]) \in 1..9
      BY <1>3, <2>2
    <3> QED
      BY <3>1
  <2> QED
    BY <2>1, <2>2
<1>6. Stretch(u, a, d)
  BY <1>1, <1>4, <1>5 DEF Stretch, RemoveOrder
<1> QED
  BY <1>6 DEF u

LEMMA OneStretch ==
  ASSUME NEW op \in RemoveOps
  PROVE  /\ Stretch(<<Do(op)>>, Place(op), Place(op))
         /\ \A ops : Has(<<Do(op)>>, ops) <=> op \in ops
         /\ <<Do(op)>> \in Seq(Removals)
<1>1. Do(op) \in Removals /\ Do(op)[1] = op
  BY DEF Do, Removals
<1>2. <<Do(op)>> \in Seq(Removals) /\ Len(<<Do(op)>>) = 1 /\ <<Do(op)>>[1] = Do(op)
  BY <1>1
<1>3. \A i \in 1..1 : i = 1
  OBVIOUS
<1>4. Place(op) \in Nat
  BY PlaceType
<1> QED
  BY <1>1, <1>2, <1>3, <1>4 DEF Stretch, RemoveOrder, Has

\* A sequence of single steps.
LEMMA Singly ==
  /\ \A x, y : <<x, y>> = <<x>> \o <<y>>
  /\ \A x, y, z : <<x, y, z>> = (<<x>> \o <<y>>) \o <<z>>
<1>1. ASSUME NEW x, NEW y PROVE <<x, y>> = <<x>> \o <<y>>
  <2> DEFINE S == {x, y}
             u == <<x>> \o <<y>>
  <2>1. <<x>> \in Seq(S) /\ <<y>> \in Seq(S) /\ <<x, y>> \in Seq(S)
    OBVIOUS
  <2>2. u \in Seq(S) /\ Len(u) = 2 /\ u[1] = x /\ u[2] = y
    BY <2>1
  <2>3. Len(<<x, y>>) = 2 /\ <<x, y>>[1] = x /\ <<x, y>>[2] = y
    OBVIOUS
  <2>4. \A i \in 1..2 : i = 1 \/ i = 2
    OBVIOUS
  <2> HIDE DEF u, S
  <2>5. <<x, y>> = u
    BY <2>1, <2>2, <2>3, <2>4, SeqEqual
  <2> QED
    BY <2>5 DEF u
<1>2. ASSUME NEW x, NEW y, NEW z PROVE <<x, y, z>> = (<<x>> \o <<y>>) \o <<z>>
  <2> DEFINE S == {x, y, z}
             u == <<x, y>> \o <<z>>
  <2>1. <<x, y>> \in Seq(S) /\ <<z>> \in Seq(S) /\ <<x, y, z>> \in Seq(S)
    OBVIOUS
  <2>2. u \in Seq(S) /\ Len(u) = 3 /\ u[1] = x /\ u[2] = y /\ u[3] = z
    BY <2>1
  <2>3. Len(<<x, y, z>>) = 3 /\ <<x, y, z>>[1] = x /\ <<x, y, z>>[2] = y /\ <<x, y, z>>[3] = z
    OBVIOUS
  <2>4. <<x, y, z>> = u
    BY <2>1, <2>2, <2>3, SeqEqual
  <2> QED
    BY <1>1, <2>4
<1> QED
  BY <1>1, <1>2

LEMMA RemovalOrder ==
  ASSUME KnownSystem
  PROVE  /\ RemoveOrder(UninstallSteps(ServiceUninstall))
         /\ RemoveOrder(RemoveSteps)
         /\ ~Has(UninstallSteps(ServiceUninstall), {"forget", "stop"})
         /\ ~Has(RemoveSteps, {"unregister", "end"})
         /\ \A op \in {"stopApp", "unlink", "delete", "unlist", "unroot"} :
               Has(UninstallSteps(ServiceUninstall), {op}) /\ Has(RemoveSteps, {op})
         /\ Has(UninstallSteps(ServiceUninstall), {"unregister"})
         /\ windows => Has(UninstallSteps(ServiceUninstall), {"end"})
         /\ Has(RemoveSteps, {"forget"})
<1> DEFINE a == <<Do("unproxy"), Do("stopApp")>>
           p == <<Do("end")>>
           q == <<Do("unregister"), Do("unlink")>>
           r == <<Do("forget"), Do("unlink")>>
           z == <<Do("stop")>>
<1>1. \A op \in RemoveOps : /\ Stretch(<<Do(op)>>, Place(op), Place(op))
                            /\ \A ops : Has(<<Do(op)>>, ops) <=> op \in ops
                            /\ <<Do(op)>> \in Seq(Removals)
  BY OneStretch
<1>4. Stretch(a, 1, 2) /\ \A ops : Has(a, ops) <=> "unproxy" \in ops \/ "stopApp" \in ops
  <2>1. a = <<Do("unproxy")>> \o <<Do("stopApp")>>
    BY Singly
  <2>4. <<Do("unproxy")>> \in Seq(Removals) /\ <<Do("stopApp")>> \in Seq(Removals)
    BY <1>1, Places
  <2>2. Stretch(<<Do("unproxy")>>, 1, 1) /\ Stretch(<<Do("stopApp")>>, 2, 2)
    BY <1>1, Places
  <2>3. Stretch(<<Do("unproxy")>> \o <<Do("stopApp")>>, 1, 2)
    BY <2>2, CatStretch
  <2>5. \A ops : Has(<<Do("unproxy")>> \o <<Do("stopApp")>>, ops) <=>
                    Has(<<Do("unproxy")>>, ops) \/ Has(<<Do("stopApp")>>, ops)
    BY <2>4, CatHas
  <2> QED
    BY <1>1, Places, <2>1, <2>3, <2>5
<1>5. Stretch(q, 4, 5) /\ \A ops : Has(q, ops) <=> "unregister" \in ops \/ "unlink" \in ops
  <2>1. q = <<Do("unregister")>> \o <<Do("unlink")>>
    BY Singly
  <2>4. <<Do("unregister")>> \in Seq(Removals) /\ <<Do("unlink")>> \in Seq(Removals)
    BY <1>1, Places
  <2>2. Stretch(<<Do("unregister")>>, 4, 4) /\ Stretch(<<Do("unlink")>>, 5, 5)
    BY <1>1, Places
  <2>3. Stretch(<<Do("unregister")>> \o <<Do("unlink")>>, 4, 5)
    BY <2>2, CatStretch
  <2>5. \A ops : Has(<<Do("unregister")>> \o <<Do("unlink")>>, ops) <=>
                    Has(<<Do("unregister")>>, ops) \/ Has(<<Do("unlink")>>, ops)
    BY <2>4, CatHas
  <2> QED
    BY <1>1, Places, <2>1, <2>3, <2>5
<1>6. Stretch(r, 4, 5) /\ \A ops : Has(r, ops) <=> "forget" \in ops \/ "unlink" \in ops
  <2>1. r = <<Do("forget")>> \o <<Do("unlink")>>
    BY Singly
  <2>4. <<Do("forget")>> \in Seq(Removals) /\ <<Do("unlink")>> \in Seq(Removals)
    BY <1>1, Places
  <2>2. Stretch(<<Do("forget")>>, 4, 4) /\ Stretch(<<Do("unlink")>>, 5, 5)
    BY <1>1, Places
  <2>3. Stretch(<<Do("forget")>> \o <<Do("unlink")>>, 4, 5)
    BY <2>2, CatStretch
  <2>5. \A ops : Has(<<Do("forget")>> \o <<Do("unlink")>>, ops) <=>
                    Has(<<Do("forget")>>, ops) \/ Has(<<Do("unlink")>>, ops)
    BY <2>4, CatHas
  <2> QED
    BY <1>1, Places, <2>1, <2>3, <2>5
<1>7. /\ Stretch(Deletions, 6, 8)
      /\ \A ops : Has(Deletions, ops) <=>
                    "delete" \in ops \/ "unlist" \in ops \/ "unroot" \in ops
  <2> DEFINE d == <<Do("delete")>> \o <<Do("unlist")>>
  <2>1. Deletions = d \o <<Do("unroot")>>
    BY Singly DEF Deletions
  <2>2. Stretch(<<Do("delete")>>, 6, 6) /\ Stretch(<<Do("unlist")>>, 7, 7)
        /\ Stretch(<<Do("unroot")>>, 8, 8)
    BY <1>1, Places
  <2>3. Stretch(d, 6, 7)
    BY <2>2, CatStretch
  <2>6. <<Do("delete")>> \in Seq(Removals) /\ <<Do("unlist")>> \in Seq(Removals)
        /\ <<Do("unroot")>> \in Seq(Removals)
    BY <1>1, Places
  <2>7. \A ops : Has(d, ops) <=> Has(<<Do("delete")>>, ops) \/ Has(<<Do("unlist")>>, ops)
    BY <2>6, CatHas
  <2>4. d \in Seq(Removals) /\ \A ops : Has(d, ops) <=> "delete" \in ops \/ "unlist" \in ops
    BY <1>1, Places, <2>6, <2>7
  <2> HIDE DEF d
  <2>5. Stretch(d \o <<Do("unroot")>>, 6, 8)
    BY <2>2, <2>3, CatStretch
  <2> QED
    BY <1>1, Places, <2>1, <2>4, <2>5, <2>6, CatHas
<1>8. Stretch(z, 9, 9) /\ \A ops : Has(z, ops) <=> "stop" \in ops
  BY <1>1, Places
<1>9. Stretch(p, 3, 3) /\ \A ops : Has(p, ops) <=> "end" \in ops
  BY <1>1, Places
<1>10. Stretch(<<>>, 3, 3) /\ \A ops : ~Has(<<>>, ops)
  BY DEF Stretch, RemoveOrder, Has
<1> HIDE DEF a, p, q, r, z
<1>11. ASSUME NEW x, NEW y, NEW i \in Nat, NEW j \in Nat, Stretch(x, i, j) PROVE x \in Seq(Removals)
  BY <1>11 DEF Stretch, RemoveOrder
<1>12. /\ Stretch(ServiceUninstall, 3, 5) /\ Has(ServiceUninstall, {"unregister"})
       /\ \A ops : Has(ServiceUninstall, ops) => ops \cap {"end", "unregister", "unlink"} # {}
       /\ \A ops : "unlink" \in ops => Has(ServiceUninstall, ops)
       /\ windows => Has(ServiceUninstall, {"end"})
  <2> DEFINE w == IF windows THEN p ELSE <<>>
  <2>1. ServiceUninstall = w \o q
    BY DEF ServiceUninstall, p, q
  <2>2. /\ Stretch(w, 3, 3)
        /\ windows => Has(w, {"end"})
        /\ \A ops : Has(w, ops) => "end" \in ops
    BY <1>9, <1>10
  <2> HIDE DEF w
  <2>3. Stretch(w \o q, 3, 5)
    BY <1>5, <2>2, CatStretch
  <2>4. \A ops : Has(w \o q, ops) <=> Has(w, ops) \/ Has(q, ops)
    BY <1>5, <2>2, CatHas DEF Stretch, RemoveOrder
  <2> QED
    BY <1>5, <2>1, <2>2, <2>3, <2>4
<1>13. ASSUME NEW x, Stretch(x, 3, 5)
       PROVE  /\ Stretch(UninstallSteps(x), 1, 8)
              /\ \A ops : Has(UninstallSteps(x), ops) <=>
                            Has(a, ops) \/ Has(x, ops) \/ Has(Deletions, ops)
  <2>1. UninstallSteps(x) = a \o x \o Deletions
    BY DEF UninstallSteps, a
  <2>2. Stretch(a \o x, 1, 5)
    BY <1>4, <1>13, CatStretch
  <2>3. Stretch((a \o x) \o Deletions, 1, 8)
    BY <1>7, <2>2, CatStretch
  <2>4. \A ops : Has(a \o x, ops) <=> Has(a, ops) \/ Has(x, ops)
    BY <1>4, <1>13, CatHas DEF Stretch, RemoveOrder
  <2>5. \A ops : Has((a \o x) \o Deletions, ops) <=> Has(a \o x, ops) \/ Has(Deletions, ops)
    BY <1>7, <2>2, CatHas DEF Stretch, RemoveOrder
  <2> QED
    BY <2>1, <2>3, <2>4, <2>5
<1>14. Stretch(r, 3, 5)
  BY <1>6, PlaceType DEF Stretch, RemoveOrder
<1>15. /\ Stretch(RemoveSteps, 1, 9)
       /\ \A ops : Has(RemoveSteps, ops) <=>
                     Has(a, ops) \/ Has(r, ops) \/ Has(Deletions, ops) \/ Has(z, ops)
  <2> DEFINE w == UninstallSteps(r)
  <2>1. RemoveSteps = w \o z
    BY DEF RemoveSteps, r, z
  <2>2. Stretch(w, 1, 8) /\ \A ops : Has(w, ops) <=>
                               Has(a, ops) \/ Has(r, ops) \/ Has(Deletions, ops)
    BY <1>13, <1>14
  <2> HIDE DEF w
  <2>3. Stretch(w \o z, 1, 9)
    BY <1>8, <2>2, CatStretch
  <2>4. \A ops : Has(w \o z, ops) <=> Has(w, ops) \/ Has(z, ops)
    BY <1>8, <2>2, CatHas DEF Stretch, RemoveOrder
  <2> QED
    BY <2>1, <2>2, <2>3, <2>4
<1>16. /\ Stretch(UninstallSteps(ServiceUninstall), 1, 8)
       /\ \A ops : Has(UninstallSteps(ServiceUninstall), ops) <=>
                     Has(a, ops) \/ Has(ServiceUninstall, ops) \/ Has(Deletions, ops)
  BY <1>12, <1>13
<1>17. RemoveOrder(UninstallSteps(ServiceUninstall)) /\ RemoveOrder(RemoveSteps)
  BY <1>15, <1>16 DEF Stretch
<1>18. ~Has(UninstallSteps(ServiceUninstall), {"forget", "stop"})
  BY <1>4, <1>7, <1>12, <1>16
<1>19. ~Has(RemoveSteps, {"unregister", "end"})
  BY <1>4, <1>6, <1>7, <1>8, <1>15
<1>20. ASSUME NEW op \in {"stopApp", "unlink", "delete", "unlist", "unroot"}
       PROVE  Has(UninstallSteps(ServiceUninstall), {op}) /\ Has(RemoveSteps, {op})
  BY <1>4, <1>6, <1>7, <1>12, <1>15, <1>16
<1>21. Has(RemoveSteps, {"forget"})
  BY <1>6, <1>15
<1> QED
  BY <1>12, <1>16, <1>17, <1>18, <1>19, <1>20, <1>21

-----------------------------------------------------------------------------
(* Types. *)

Doings == {"idle", "install", "repair", "remove", "self", "ended"}
Codes == {0, 1, ReinstallNeededExit}
AllSteps == Steps \cup Removals
ProcType ==
    /\ proc \in [does: Doings, todo: Seq(AllSteps), merged: SUBSET Files, code: Codes]
    /\ Installing => InstallOrder(proc.todo)
    /\ Removing => RemoveOrder(proc.todo)
    /\ ~AtWork => proc.todo = <<>>
GivenType == KnownSystem /\ desktop \in BOOLEAN /\ native \in BOOLEAN /\ theirs \subseteq Kept
FileType == files \subseteq Files /\ list \subseteq Files /\ lost \subseteq Files
Versions == {0, 1}
Messages == {"none", "missing", "trouble", "repairing", "failed", "reinstall"}
CoreType ==
    core \in [on: BOOLEAN, bits: Versions, msg: Messages, reinstall: BOOLEAN, watch: BOOLEAN]
ServiceType == service \in [reg: BOOLEAN, up: BOOLEAN]
FlagType ==
    /\ root \in BOOLEAN /\ programs \in BOOLEAN /\ asked \in BOOLEAN /\ app \in BOOLEAN
    /\ removed \in BOOLEAN
TypeInv ==
    /\ ProcType /\ GivenType /\ FileType /\ CoreType /\ ServiceType /\ FlagType
    /\ disk \in Versions /\ ignored \in BOOLEAN

\* What is left of the steps is in order.
LEMMA TailOrder ==
  ASSUME NEW s, s # <<>>
  PROVE  /\ InstallOrder(s) => InstallOrder(Tail(s))
         /\ RemoveOrder(s) => RemoveOrder(Tail(s))
<1>1. ASSUME NEW S, s \in Seq(S)
      PROVE  /\ Tail(s) \in Seq(S) /\ Len(Tail(s)) = Len(s) - 1 /\ Len(s) \in Nat \ {0}
             /\ \A i \in 1..Len(Tail(s)) : Tail(s)[i] = s[i + 1]
  BY <1>1
<1>2. ASSUME InstallOrder(s) PROVE InstallOrder(Tail(s))
  <2> DEFINE t == Tail(s)
  <2>1. s \in Seq(Early \cup Late)
    BY <1>2 DEF InstallOrder
  <2>2. /\ t \in Seq(Early \cup Late) /\ Len(t) = Len(s) - 1 /\ Len(s) \in Nat \ {0}
        /\ \A i \in 1..Len(t) : t[i] = s[i + 1]
    BY <1>1, <2>1
  <2> HIDE DEF t
  <2>3. Follows(t)
    <3> SUFFICES ASSUME NEW i \in 1..Len(t)
                 PROVE  /\ t[i][1] = "write" /\ t[i][2] # "unit" =>
                             NextIs(t, i, <<"note", t[i][2]>>)
                        /\ t[i][1] = "bootout" => NextIs(t, i, Do("bootstrap"))
                        /\ t[i][1] = "end" => NextIs(t, i, Do("run"))
      BY DEF Follows
    <3>1. i + 1 \in 1..Len(s) /\ t[i] = s[i + 1]
      BY <2>2
    <3>2. ASSUME NEW step, NextIs(s, i + 1, step) PROVE NextIs(t, i, step)
      <4>1. i + 1 < Len(s) /\ s[(i + 1) + 1] = step
        BY <3>2 DEF NextIs
      <4>2. i + 1 \in 1..Len(t) /\ i < Len(t)
        BY <2>2, <4>1
      <4> QED
        BY <2>2, <4>1, <4>2 DEF NextIs
    <3>3. /\ s[i + 1][1] = "write" /\ s[i + 1][2] # "unit" =>
               NextIs(s, i + 1, <<"note", s[i + 1][2]>>)
          /\ s[i + 1][1] = "bootout" => NextIs(s, i + 1, Do("bootstrap"))
          /\ s[i + 1][1] = "end" => NextIs(s, i + 1, Do("run"))
      BY <1>2, <3>1 DEF InstallOrder, Follows
    <3> QED
      BY <3>1, <3>2, <3>3, Zenon
  <2>4. NotesOwn(t)
    <3> SUFFICES ASSUME NEW i \in 2..Len(t), t[i][1] = "note", t[i][2] \in Kept
                 PROVE  t[i - 1] = <<"write", t[i][2]>>
      BY DEF NotesOwn
    <3>1. /\ i \in 1..Len(t) /\ i - 1 \in 1..Len(t) /\ i + 1 \in 2..Len(s)
          /\ (i - 1) + 1 = (i + 1) - 1
      BY <2>2
    <3>2. t[i] = s[i + 1]
      BY <2>2, <3>1
    <3>3. t[i - 1] = s[(i - 1) + 1]
      BY <2>2, <3>1
    <3>4. i + 1 \in 2..Len(s) /\ t[i] = s[i + 1] /\ t[i - 1] = s[(i + 1) - 1]
      BY <3>1, <3>2, <3>3
    <3> QED
      BY <1>2, <3>4 DEF InstallOrder, NotesOwn
  <2>5. LateLast(t)
    <3> SUFFICES ASSUME NEW i \in 1..Len(t), NEW j \in 1..Len(t), i < j, t[i] \in Late
                 PROVE  t[j] \in Late
      BY DEF LateLast
    <3>1. i + 1 \in 1..Len(s) /\ j + 1 \in 1..Len(s) /\ i + 1 < j + 1
      BY <2>2
    <3> QED
      BY <1>2, <2>2, <3>1 DEF InstallOrder, LateLast
  <2>6. ASSUME NEW i \in 2..Len(t) PROVE t[i][1] # "noted"
    <3>1. i + 1 \in 2..Len(s) /\ t[i] = s[i + 1]
      BY <2>2
    <3> QED
      BY <1>2, <3>1 DEF InstallOrder
  <2>7. InstallOrder(t)
    BY <2>2, <2>3, <2>4, <2>5, <2>6 DEF InstallOrder
  <2> QED
    BY <2>7 DEF t
<1>3. ASSUME RemoveOrder(s) PROVE RemoveOrder(Tail(s))
  <2>1. s \in Seq(Removals)
    BY <1>3 DEF RemoveOrder
  <2>2. /\ Tail(s) \in Seq(Removals) /\ Len(Tail(s)) = Len(s) - 1 /\ Len(s) \in Nat \ {0}
        /\ \A i \in 1..Len(Tail(s)) : Tail(s)[i] = s[i + 1]
    BY <1>1, <2>1
  <2>3. ASSUME NEW i \in 1..Len(Tail(s)), NEW j \in 1..Len(Tail(s)), i < j
        PROVE  Place(Tail(s)[i][1]) < Place(Tail(s)[j][1])
    <3>1. i + 1 \in 1..Len(s) /\ j + 1 \in 1..Len(s) /\ i + 1 < j + 1
      BY <2>2, <2>3
    <3> QED
      BY <1>3, <2>2, <3>1 DEF RemoveOrder
  <2> QED
    BY <2>2, <2>3 DEF RemoveOrder
<1> QED
  BY <1>2, <1>3

\* The short sequences of a process that gives up.
LEMMA ShortOrder ==
  /\ InstallOrder(<<>>) /\ RemoveOrder(<<>>) /\ RemoveOrder(<<Do("stop")>>)
  /\ InstallOrder(<<<<"note", "unit">>>>)
<1>1. InstallOrder(<<>>)
  BY DEF InstallOrder, Follows, NotesOwn, LateLast
<1>2. RemoveOrder(<<>>)
  BY DEF RemoveOrder
<1>3. RemoveOrder(<<Do("stop")>>)
  BY OneStretch DEF RemoveOps, Stretch
<1>4. InstallOrder(<<<<"note", "unit">>>>)
  <2>1. <<"note", "unit">> \in Early
    <3>1. <<"note", "unit">> \in FileOps \X {"config", "command", "apport", "unit"}
      BY DEF FileOps
    <3> QED
      BY <3>1 DEF Early
  <2>2. \A step \in Early : <<step>> \in Seq(Early \cup Late)
                            /\ Len(<<step>>) = 1 /\ <<step>>[1] = step
    OBVIOUS
  <2>3. \A i \in 1..1 : i = 1
    OBVIOUS
  <2>4. <<"note", "unit">>[1] = "note"
    OBVIOUS
  <2> DEFINE x == <<"note", "unit">>
             s == <<x>>
  <2> HIDE DEF x
  <2>5. s \in Seq(Early \cup Late) /\ Len(s) = 1 /\ s[1] = x /\ x[1] = "note"
    BY <2>1, <2>2, <2>4 DEF x
  <2> HIDE DEF s
  <2>6. InstallOrder(s)
    BY <2>3, <2>5 DEF InstallOrder, Follows, NotesOwn, LateLast
  <2> QED
    BY <2>6 DEF s, x
<1> QED
  BY <1>1, <1>2, <1>3, <1>4

\* The last step of a setup is no writing.
LEMMA LastOrder ==
  ASSUME NEW s, InstallOrder(s), s # <<>>, Head(s) \in Late
  PROVE  /\ InstallOrder(<<Last(s)>>)
         /\ Last(s) \in Late /\ (Last(s)[1] # "noted" \/ Last(s) = Head(s))
<1> DEFINE x == Last(s)
           t == <<x>>
<1>1. s \in Seq(Early \cup Late)
  BY DEF InstallOrder
<1>2. Len(s) \in Nat \ {0} /\ x = s[Len(s)] /\ Head(s) = s[1]
  BY <1>1 DEF Last
<1> HIDE DEF x
<1>3. x \in Late /\ x \in Early \cup Late
  <2>1. CASE Len(s) = 1
    BY <1>2, <2>1
  <2>2. CASE Len(s) > 1
    BY <1>2, <2>2 DEF InstallOrder, LateLast
  <2> QED
    BY <1>2, <2>1, <2>2
<1>4. x[1] \notin {"bootout", "end"} /\ (x[1] = "write" => x[2] = "unit")
  <2>1. Len(s) \in 1..Len(s)
    BY <1>2
  <2> QED
    BY <1>2, <2>1 DEF InstallOrder, Follows, NextIs
<1>5. x[1] # "noted" \/ x = Head(s)
  <2>1. Len(s) = 1 \/ Len(s) \in 2..Len(s)
    BY <1>2
  <2> QED
    BY <1>2, <2>1 DEF InstallOrder
<1>6. t \in Seq(Early \cup Late) /\ Len(t) = 1 /\ t[1] = x
  BY <1>3
<1>7. \A i \in 1..1 : i = 1
  OBVIOUS
<1> HIDE DEF t
<1>8. InstallOrder(t)
  BY <1>4, <1>6, <1>7 DEF InstallOrder, Follows, NotesOwn, LateLast
<1> QED
  BY <1>3, <1>5, <1>8 DEF t, x

\* Who is at work, by the step it is at.
SetupOps == FileOps \cup LoadOps \cup {"programs", "proxy", "stopApp", "startApp", "port", "asks"}

LEMMA AtIs ==
  ASSUME ProcType, NEW op, At(op)
  PROVE  /\ proc.todo # <<>> /\ Head(proc.todo)[1] = op /\ proc.todo \in Seq(AllSteps)
         /\ AtWork
         /\ Installing => op \in SetupOps /\ InstallOrder(proc.todo)
         /\ Removing => op \in RemoveOps /\ RemoveOrder(proc.todo)
<1>1. proc.todo # <<>> /\ Head(proc.todo)[1] = op /\ proc.todo \in Seq(AllSteps)
  BY DEF At, ProcType
<1>2. AtWork
  BY <1>1 DEF ProcType
<1>3. ASSUME Installing PROVE op \in SetupOps /\ InstallOrder(proc.todo)
  <2>1. InstallOrder(proc.todo)
    BY <1>3 DEF ProcType
  <2>2. proc.todo \in Seq(Early \cup Late)
    BY <2>1 DEF InstallOrder
  <2>3. Head(proc.todo) \in Early \cup Late
    BY <1>1, <2>2
  <2>4. \A step \in Early \cup Late : step[1] \in SetupOps
    BY DEF Early, Late, SetupOps
  <2> QED
    BY <1>1, <2>1, <2>3, <2>4
<1>4. ASSUME Removing PROVE op \in RemoveOps /\ RemoveOrder(proc.todo)
  <2>1. RemoveOrder(proc.todo)
    BY <1>4 DEF ProcType
  <2>2. proc.todo \in Seq(Removals)
    BY <2>1 DEF RemoveOrder
  <2>3. Head(proc.todo) \in Removals
    BY <1>1, <2>2
  <2> QED
    BY <1>1, <2>1, <2>3, PlaceType
<1> QED
  BY <1>1, <1>2, <1>3, <1>4

LEMMA NowIsAt == ASSUME NEW op, NEW f, Now(op, f) PROVE At(op)
BY DEF Now, At

LEMMA OpsApart ==
  /\ SetupOps \cap RemoveOps = {"stopApp", "end"}
  /\ "write" \in SetupOps /\ "write" \notin RemoveOps
BY DEF SetupOps, RemoveOps, FileOps, LoadOps

\* What a process does to itself, field by field.
NewProc(does, todo, merged, code) ==
    proc' = [does |-> does, todo |-> todo, merged |-> merged, code |-> code]

LEMMA Moves ==
  ASSUME ProcType
  PROVE  /\ GoesOn => NewProc(proc.does, Tail(proc.todo), proc.merged, proc.code)
         /\ Skips => NewProc(proc.does, Tail(Tail(proc.todo)), proc.merged, proc.code)
         /\ \A c : Exits(c) => NewProc(proc.does, <<>>, proc.merged, c)
         /\ Fails => NewProc(proc.does, Tail(proc.todo), proc.merged, 1)
         /\ GivesUp => NewProc(proc.does, IF proc.does = "self" THEN <<Do("stop")>> ELSE <<>>,
                               proc.merged, 1)
         /\ \A d, s : Begins(d, s) => NewProc(d, s, {}, 0)
         /\ proc' = [proc EXCEPT !.todo = <<Last(@)>>] =>
              NewProc(proc.does, <<Last(proc.todo)>>, proc.merged, proc.code)
         /\ LoadFails => NewProc(proc.does, <<<<"note", "unit">>>>, proc.merged, 1)
         /\ \A f : proc' = [proc EXCEPT !.merged = list \cup {f},
                                        !.todo = <<<<"noted", f>>>> \o Tail(@)] =>
              NewProc(proc.does, <<<<"noted", f>>>> \o Tail(proc.todo), list \cup {f}, proc.code)
         /\ proc' = [proc EXCEPT !.code = 1, !.todo = Tail(@)] =>
              NewProc(proc.does, Tail(proc.todo), proc.merged, 1)
         /\ proc' = [proc EXCEPT !.merged = {}, !.todo = Tail(@)] =>
              NewProc(proc.does, Tail(proc.todo), {}, proc.code)
         /\ proc' = [proc EXCEPT !.merged = {}, !.code = 1, !.todo = Tail(@)] =>
              NewProc(proc.does, Tail(proc.todo), {}, 1)
         /\ \A f : proc' = [proc EXCEPT !.merged = @ \cup {f}] =>
              NewProc(proc.does, proc.todo, proc.merged \cup {f}, proc.code)
         /\ proc' = Idle => NewProc("idle", <<>>, {}, 0)
         /\ proc' = Ended => \/ core.watch /\ NewProc("ended", <<>>, {}, proc.code)
                             \/ ~core.watch /\ NewProc("idle", <<>>, {}, 0)
         /\ \A c : proc' = [Ended EXCEPT !.code = c] =>
              NewProc(IF core.watch THEN "ended" ELSE "idle", <<>>, {}, c)
<1>1. proc \in [does: Doings, todo: Seq(AllSteps), merged: SUBSET Files, code: Codes]
  BY DEF ProcType
<1>2. proc = [does |-> proc.does, todo |-> proc.todo, merged |-> proc.merged, code |-> proc.code]
  BY <1>1
<1>3. /\ GoesOn => NewProc(proc.does, Tail(proc.todo), proc.merged, proc.code)
      /\ Skips => NewProc(proc.does, Tail(Tail(proc.todo)), proc.merged, proc.code)
      /\ \A c : Exits(c) => NewProc(proc.does, <<>>, proc.merged, c)
      /\ Fails => NewProc(proc.does, Tail(proc.todo), proc.merged, 1)
  BY <1>2 DEF NewProc, GoesOn, Skips, Exits, Fails
<1>4. /\ GivesUp => NewProc(proc.does, IF proc.does = "self" THEN <<Do("stop")>> ELSE <<>>,
                            proc.merged, 1)
      /\ \A d, s : Begins(d, s) => NewProc(d, s, {}, 0)
      /\ LoadFails => NewProc(proc.does, <<<<"note", "unit">>>>, proc.merged, 1)
  BY <1>2 DEF NewProc, GivesUp, Begins, Idle, LoadFails
<1>5. /\ proc' = [proc EXCEPT !.todo = <<Last(@)>>] =>
           NewProc(proc.does, <<Last(proc.todo)>>, proc.merged, proc.code)
      /\ \A f : proc' = [proc EXCEPT !.merged = list \cup {f},
                                     !.todo = <<<<"noted", f>>>> \o Tail(@)] =>
           NewProc(proc.does, <<<<"noted", f>>>> \o Tail(proc.todo), list \cup {f}, proc.code)
      /\ proc' = [proc EXCEPT !.code = 1, !.todo = Tail(@)] =>
           NewProc(proc.does, Tail(proc.todo), proc.merged, 1)
  BY <1>2 DEF NewProc
<1>6. /\ proc' = [proc EXCEPT !.merged = {}, !.todo = Tail(@)] =>
           NewProc(proc.does, Tail(proc.todo), {}, proc.code)
      /\ proc' = [proc EXCEPT !.merged = {}, !.code = 1, !.todo = Tail(@)] =>
           NewProc(proc.does, Tail(proc.todo), {}, 1)
      /\ \A f : proc' = [proc EXCEPT !.merged = @ \cup {f}] =>
           NewProc(proc.does, proc.todo, proc.merged \cup {f}, proc.code)
  BY <1>2 DEF NewProc
<1>7. /\ proc' = Idle => NewProc("idle", <<>>, {}, 0)
      /\ proc' = Ended => \/ core.watch /\ NewProc("ended", <<>>, {}, proc.code)
                          \/ ~core.watch /\ NewProc("idle", <<>>, {}, 0)
      /\ \A c : proc' = [Ended EXCEPT !.code = c] =>
           NewProc(IF core.watch THEN "ended" ELSE "idle", <<>>, {}, c)
  BY <1>2 DEF NewProc, Idle, Ended
<1> QED
  BY <1>3, <1>4, <1>5, <1>6, <1>7

LEMMA NewProcIs ==
  ASSUME NEW d, NEW t, NEW m, NEW c, NewProc(d, t, m, c)
  PROVE  /\ proc'.does = d /\ proc'.todo = t /\ proc'.merged = m /\ proc'.code = c
         /\ d \in Doings /\ t \in Seq(AllSteps) /\ m \subseteq Files /\ c \in Codes =>
              proc' \in [does: Doings, todo: Seq(AllSteps), merged: SUBSET Files, code: Codes]
BY DEF NewProc

\* A process that goes on with steps in order is of its type.
LEMMA ProcTypeNext ==
  ASSUME NEW d \in Doings, NEW t, NEW m \in SUBSET Files, NEW c \in Codes, NewProc(d, t, m, c),
         d \in {"install", "repair"} => InstallOrder(t),
         d \in {"remove", "self"} => RemoveOrder(t),
         d \in {"idle", "ended"} => t = <<>>
  PROVE  ProcType'
<1>1. t \in Seq(AllSteps)
  <2>1. InstallOrder(t) => t \in Seq(AllSteps)
    BY DEF InstallOrder, AllSteps, Steps
  <2>2. RemoveOrder(t) => t \in Seq(AllSteps)
    BY DEF RemoveOrder, AllSteps
  <2>3. t = <<>> => t \in Seq(AllSteps)
    OBVIOUS
  <2> QED
    BY <2>1, <2>2, <2>3 DEF Doings
<1> QED
  BY <1>1, NewProcIs DEF ProcType, Doings, Installing, Removing, AtWork

LEMMA SkipOrder ==
  ASSUME NEW s, InstallOrder(s), s # <<>>, Head(s)[1] = "write", Head(s)[2] # "unit"
  PROVE  /\ Tail(s) # <<>> /\ Head(Tail(s)) = <<"note", Head(s)[2]>>
         /\ InstallOrder(Tail(s)) /\ InstallOrder(Tail(Tail(s)))
<1>1. s \in Seq(Early \cup Late)
  BY DEF InstallOrder
<1>2. Len(s) \in Nat \ {0} /\ Head(s) = s[1]
  BY <1>1
<1>3. NextIs(s, 1, <<"note", Head(s)[2]>>)
  BY <1>2 DEF InstallOrder, Follows
<1>4. Len(s) > 1 /\ s[2] = <<"note", Head(s)[2]>>
  BY <1>3 DEF NextIs
<1>5. Tail(s) # <<>> /\ Head(Tail(s)) = s[2]
  BY <1>1, <1>4
<1>6. InstallOrder(Tail(s))
  BY TailOrder
<1>7. InstallOrder(Tail(Tail(s)))
  BY <1>5, <1>6, TailOrder
<1> QED
  BY <1>4, <1>5, <1>6, <1>7

\* The file a setup notes is one of Uni VPN's.
LEMMA NoteFile ==
  ASSUME ProcType, NEW op \in FileOps, At(op)
  PROVE  /\ Installing /\ InstallOrder(proc.todo) /\ Head(proc.todo)[2] \in Files
         /\ Head(proc.todo) = <<op, Head(proc.todo)[2]>>
<1>1. op \in SetupOps /\ op \notin RemoveOps
  BY DEF SetupOps, RemoveOps, FileOps
<1>2. /\ Installing /\ InstallOrder(proc.todo) /\ proc.todo # <<>>
      /\ Head(proc.todo)[1] = op
  BY <1>1, AtIs DEF AtWork
<1>3. Head(proc.todo) \in Early \cup Late
  <2>1. proc.todo \in Seq(Early \cup Late)
    BY <1>2 DEF InstallOrder
  <2> QED
    BY <1>2, <2>1
<1>4. \A step \in Early \cup Late :
         step[1] \in FileOps => step[2] \in Files /\ step = <<step[1], step[2]>>
  <2>1. ASSUME NEW step \in Early, step[1] \in FileOps
        PROVE  step[2] \in Files /\ step = <<step[1], step[2]>>
    <3>1. step \in FileOps \X {"config", "command", "apport", "unit"}
      BY <2>1 DEF Early, FileOps, LoadOps
    <3> QED
      BY <3>1 DEF Files
  <2>2. ASSUME NEW step \in Late, step[1] \in FileOps
        PROVE  step[2] \in Files /\ step = <<step[1], step[2]>>
    <3>1. step \in FileOps \X {"entry", "login"}
      BY <2>2 DEF Late, FileOps
    <3> QED
      BY <3>1 DEF Files
  <2> QED
    BY <2>1, <2>2
<1> QED
  BY <1>2, <1>3, <1>4

\* With a file noted, the rest is as it was.
LEMMA NotedOrder ==
  ASSUME NEW s, InstallOrder(s), s # <<>>, Head(s)[1] = "note", NEW f \in Files,
         Head(s) = <<"note", f>>
  PROVE  InstallOrder(<<<<"noted", f>>>> \o Tail(s))
<1> DEFINE x == <<"noted", f>>
           t == <<x>> \o Tail(s)
<1>1. s \in Seq(Early \cup Late)
  BY DEF InstallOrder
<1>2. Head(s) \in Early \cup Late
  BY <1>1
<1>3. (x \in Early <=> Head(s) \in Early) /\ (x \in Late <=> Head(s) \in Late)
  <2>1. /\ x \in FileOps \X {"config", "command", "apport", "unit"} <=>
             Head(s) \in FileOps \X {"config", "command", "apport", "unit"}
        /\ x \in FileOps \X {"entry", "login"} <=> Head(s) \in FileOps \X {"entry", "login"}
    BY DEF FileOps
  <2>2. /\ x \notin ({"programs", "proxy"} \cup LoadOps) \X {""}
        /\ Head(s) \notin ({"programs", "proxy"} \cup LoadOps) \X {""}
        /\ x \notin {"stopApp", "startApp", "port", "asks"} \X {""}
        /\ Head(s) \notin {"stopApp", "startApp", "port", "asks"} \X {""}
    BY DEF LoadOps
  <2> QED
    BY <2>1, <2>2 DEF Early, Late
<1>4. x[1] = "noted" /\ x \in Early \cup Late
  BY <1>2, <1>3
<1>5. ASSUME NEW S, s \in Seq(S), NEW y \in S
      PROVE  /\ <<y>> \o Tail(s) \in Seq(S) /\ Len(<<y>> \o Tail(s)) = Len(s)
             /\ (<<y>> \o Tail(s))[1] = y /\ Len(s) \in Nat \ {0}
             /\ \A i \in 2..Len(s) : (<<y>> \o Tail(s))[i] = s[i]
  BY <1>5
<1> HIDE DEF x
<1>6. /\ t \in Seq(Early \cup Late) /\ Len(t) = Len(s) /\ t[1] = x /\ Len(s) \in Nat \ {0}
      /\ \A i \in 2..Len(s) : t[i] = s[i]
  BY <1>1, <1>4, <1>5
<1> HIDE DEF t
<1>7. s[1] = Head(s)
  BY <1>1
<1>8. Follows(t)
  <2> SUFFICES ASSUME NEW i \in 1..Len(t)
               PROVE  /\ t[i][1] = "write" /\ t[i][2] # "unit" =>
                           NextIs(t, i, <<"note", t[i][2]>>)
                      /\ t[i][1] = "bootout" => NextIs(t, i, Do("bootstrap"))
                      /\ t[i][1] = "end" => NextIs(t, i, Do("run"))
    BY DEF Follows
  <2>1. CASE i = 1
    BY <1>4, <1>6, <2>1
  <2>2. CASE i \in 2..Len(s)
    <3>1. t[i] = s[i] /\ i \in 1..Len(s)
      BY <1>6, <2>2
    <3>2. ASSUME NEW step, NextIs(s, i, step) PROVE NextIs(t, i, step)
      <4>1. i < Len(s) /\ s[i + 1] = step
        BY <3>2 DEF NextIs
      <4>2. i + 1 \in 2..Len(s)
        BY <1>6, <2>2, <4>1
      <4> QED
        BY <1>6, <4>1, <4>2 DEF NextIs
    <3> QED
      BY <3>1, <3>2 DEF InstallOrder, Follows
  <2> QED
    BY <1>6, <2>1, <2>2
<1>9. NotesOwn(t)
  <2> SUFFICES ASSUME NEW i \in 2..Len(t), t[i][1] = "note", t[i][2] \in Kept
               PROVE  t[i - 1] = <<"write", t[i][2]>>
    BY DEF NotesOwn
  <2>1. t[i] = s[i] /\ i \in 2..Len(s)
    BY <1>6
  <2>2. s[i - 1] = <<"write", s[i][2]>>
    BY <2>1 DEF InstallOrder, NotesOwn
  <2>3. CASE i = 2
    <3>1. s[1][1] = "write"
      BY <2>2, <2>3
    <3> QED
      BY <1>7, <3>1
  <2>4. CASE i # 2
    <3>1. i - 1 \in 2..Len(s)
      BY <1>6, <2>1, <2>4
    <3> QED
      BY <1>6, <2>1, <2>2, <3>1
  <2> QED
    BY <2>3, <2>4
<1>10. \A i \in 1..Len(s) : t[i] \in Late <=> s[i] \in Late
  BY <1>3, <1>6, <1>7
<1>11. LateLast(t)
  BY <1>6, <1>10 DEF LateLast, InstallOrder
<1>12. \A i \in 2..Len(t) : t[i][1] # "noted"
  BY <1>6 DEF InstallOrder
<1>13. InstallOrder(t)
  BY <1>6, <1>8, <1>9, <1>11, <1>12 DEF InstallOrder
<1> QED
  BY <1>13 DEF t, x

\* A process that goes on, gives up, or ends keeps its type.
LEMMA GoesOnType ==
  ASSUME ProcType, NEW op, At(op)
  PROVE  /\ GoesOn \/ Fails => ProcType'
         /\ \A c \in Codes : Exits(c) => ProcType'
         /\ Removing /\ GivesUp => ProcType'
         /\ Installing /\ LoadFails => ProcType'
         /\ proc' = Idle \/ proc' = Ended => ProcType'
         /\ \A c \in Codes : proc' = [Ended EXCEPT !.code = c] => ProcType'
<1>1. /\ proc.todo # <<>> /\ AtWork /\ proc.does \in Doings /\ proc.merged \subseteq Files
      /\ proc.code \in Codes
  BY AtIs DEF ProcType
<1>2. /\ Installing => InstallOrder(proc.todo) /\ InstallOrder(Tail(proc.todo))
      /\ Removing => RemoveOrder(proc.todo) /\ RemoveOrder(Tail(proc.todo))
  BY <1>1, TailOrder DEF ProcType
<1>3. {0, 1} \subseteq Codes /\ {"idle", "ended"} \subseteq Doings /\ {} \in SUBSET Files
  BY DEF Codes, Doings
<1>4. /\ proc.does \in {"install", "repair"} <=> Installing
      /\ proc.does \in {"remove", "self"} <=> Removing
      /\ proc.does \notin {"idle", "ended"}
  BY <1>1 DEF Installing, Removing, AtWork
<1>5. ASSUME GoesOn \/ Fails PROVE ProcType'
  <2>1. PICK c \in Codes : NewProc(proc.does, Tail(proc.todo), proc.merged, c)
    BY <1>1, <1>3, <1>5, Moves
  <2> QED
    BY <1>1, <1>2, <1>4, <2>1, ProcTypeNext
<1>6. ASSUME NEW c \in Codes, Exits(c) PROVE ProcType'
  <2>1. NewProc(proc.does, <<>>, proc.merged, c)
    BY <1>6, Moves
  <2> QED
    BY <1>1, <1>4, <2>1, ProcTypeNext, ShortOrder
<1>7. ASSUME Removing, GivesUp PROVE ProcType'
  <2> DEFINE t == IF proc.does = "self" THEN <<Do("stop")>> ELSE <<>>
  <2>1. NewProc(proc.does, t, proc.merged, 1) /\ RemoveOrder(t)
    BY <1>7, Moves, ShortOrder
  <2>2. proc.does \notin {"install", "repair"}
    BY <1>7 DEF Removing
  <2> HIDE DEF t
  <2> QED
    BY <1>1, <1>3, <1>4, <2>1, <2>2, ProcTypeNext
<1>8. ASSUME Installing, LoadFails PROVE ProcType'
  <2>1. NewProc(proc.does, <<<<"note", "unit">>>>, proc.merged, 1)
    BY <1>8, Moves
  <2>2. proc.does \notin {"remove", "self"}
    BY <1>8 DEF Installing
  <2> QED
    BY <1>1, <1>3, <1>4, <2>1, <2>2, ProcTypeNext, ShortOrder
<1>9. ASSUME NEW d \in {"idle", "ended"}, NEW c \in Codes, NewProc(d, <<>>, {}, c) PROVE ProcType'
  BY <1>3, <1>9, ProcTypeNext
<1>10. ASSUME proc' = Idle \/ proc' = Ended PROVE ProcType'
  BY <1>1, <1>3, <1>9, <1>10, Moves
<1>11. ASSUME NEW c \in Codes, proc' = [Ended EXCEPT !.code = c] PROVE ProcType'
  BY <1>9, <1>11, Moves
<1> QED
  BY <1>5, <1>6, <1>7, <1>8, <1>10, <1>11

\* The steps of a process, by what they touch.
WriteStep ==
    WritesConfig \/ InstallCommand \/ EnsureApportIgnore \/ WritesUnit \/ WritesEntry \/ WritesLogin
NoteStep == RecordReads \/ RecordWrites
LoadStep == EnableNow \/ Restart \/ Bootout \/ Bootstrap \/ CreateTask \/ EndTask \/ RunTask
ServiceStep == LoadStep \/ Unregister \/ Forget \/ StopService
OtherStep ==
    LooksForPrograms \/ ProxyInstall \/ ProxyUninstall \/ StopsApp \/ StartsApp \/ WaitsForPort
        \/ AsksSecrets
RemovalStep == Unlinks \/ Deletes \/ RemovesList \/ RemovesRoot
Beginning == InstallBegins \/ UninstallBegins \/ RemoveBegins
CoreStep ==
    CoreStarts \/ CoreEnds \/ Attempts \/ RequestRepair \/ StartRepair \/ WatchRepair
Around == AssistantWrites \/ StartServiceIfDown \/ ProgramGoes

LEMMA NextIsOf ==
  Next <=> \/ WriteStep \/ NoteStep \/ ServiceStep \/ OtherStep \/ RemovalStep \/ Ends
           \/ Beginning \/ Killed \/ CoreStep \/ Around
BY DEF Next, Step, WriteStep, NoteStep, ServiceStep, LoadStep, OtherStep, RemovalStep, Beginning,
       CoreStep, Around

LEMMA WriteProc ==
  ASSUME TypeInv, WriteStep
  PROVE  ProcType'
<1>1. ProcType
  BY DEF TypeInv
<1>2. 1 \in Codes /\ "write" \in FileOps
  BY DEF Codes, FileOps
<1>3. At("write") /\ Installing
  <2>1. At("write")
    BY NowIsAt DEF WriteStep, WritesConfig, InstallCommand, EnsureApportIgnore, WritesUnit,
                   WritesEntry, WritesLogin
  <2> QED
    BY <1>1, <1>2, <2>1, NoteFile
<1>4. /\ InstallOrder(proc.todo) /\ proc.todo # <<>> /\ Head(proc.todo)[1] = "write"
      /\ proc.does \in {"install", "repair"} /\ proc.does \in Doings
      /\ proc.merged \in SUBSET Files /\ proc.code \in Codes
  BY <1>1, <1>2, <1>3, NoteFile, AtIs DEF ProcType, Installing
<1>5. ASSUME Skips, Head(proc.todo)[2] # "unit" PROVE ProcType'
  <2>1. InstallOrder(Tail(Tail(proc.todo)))
    BY <1>4, <1>5, SkipOrder
  <2>2. NewProc(proc.does, Tail(Tail(proc.todo)), proc.merged, proc.code)
    BY <1>1, <1>5, Moves
  <2>3. proc.does \notin {"remove", "self", "idle", "ended"}
    BY <1>4
  <2> QED
    BY <1>4, <2>1, <2>2, <2>3, ProcTypeNext
<1>6. ASSUME proc' = [proc EXCEPT !.todo = <<Last(@)>>], Head(proc.todo) \in Late PROVE ProcType'
  <2>1. InstallOrder(<<Last(proc.todo)>>)
    BY <1>4, <1>6, LastOrder
  <2>2. NewProc(proc.does, <<Last(proc.todo)>>, proc.merged, proc.code)
    BY <1>1, <1>6, Moves
  <2>3. proc.does \notin {"remove", "self", "idle", "ended"}
    BY <1>4
  <2> QED
    BY <1>4, <2>1, <2>2, <2>3, ProcTypeNext
<1>7. GoesOn \/ Exits(1) => ProcType'
  BY <1>1, <1>2, <1>3, GoesOnType
<1>8. ASSUME NEW f, Now("write", f) PROVE Head(proc.todo)[2] = f
  BY <1>8 DEF Now
<1>9. ASSUME NEW f \in {"entry", "login"}, Now("write", f) PROVE Head(proc.todo) \in Late
  <2>1. Head(proc.todo) = <<"write", f>>
    BY <1>9 DEF Now
  <2>2. Head(proc.todo) \in FileOps \X {"entry", "login"}
    BY <1>2, <2>1
  <2> QED
    BY <2>2 DEF Late
<1>10. CASE WritesConfig
  BY <1>5, <1>7, <1>8, <1>10 DEF WritesConfig, Written
<1>11. CASE InstallCommand \/ WritesUnit
  BY <1>7, <1>11 DEF InstallCommand, WritesUnit, Written
<1>12. CASE EnsureApportIgnore
  BY <1>5, <1>7, <1>8, <1>12 DEF EnsureApportIgnore, Written
<1>13. CASE WritesEntry
  BY <1>5, <1>6, <1>7, <1>8, <1>9, <1>13 DEF WritesEntry, Written
<1>14. CASE WritesLogin
  BY <1>5, <1>6, <1>7, <1>8, <1>9, <1>14 DEF WritesLogin, Written
<1> QED
  BY <1>10, <1>11, <1>12, <1>13, <1>14 DEF WriteStep

LEMMA NoteProc ==
  ASSUME TypeInv, NoteStep
  PROVE  ProcType'
<1>1. ProcType /\ list \subseteq Files
  BY DEF TypeInv, FileType
<1>2. 1 \in Codes /\ {"note", "noted"} \subseteq FileOps
  BY DEF Codes, FileOps
<1>3. ASSUME NEW op \in {"note", "noted"}, At(op)
      PROVE  /\ InstallOrder(proc.todo) /\ proc.todo # <<>> /\ Head(proc.todo)[1] = op
             /\ proc.does \in {"install", "repair"} /\ proc.does \in Doings
             /\ proc.merged \in SUBSET Files /\ proc.code \in Codes
             /\ Head(proc.todo)[2] \in Files /\ Head(proc.todo) = <<op, Head(proc.todo)[2]>>
             /\ proc.does \notin {"remove", "self", "idle", "ended"}
             /\ InstallOrder(Tail(proc.todo))
  BY <1>1, <1>2, <1>3, NoteFile, AtIs, TailOrder DEF ProcType, Installing
<1>4. CASE RecordReads
  <2> DEFINE f == Head(proc.todo)[2]
  <2>1. At("note")
    BY <1>4 DEF RecordReads
  <2>2. CASE proc' = [proc EXCEPT !.merged = list \cup {f}, !.todo = <<<<"noted", f>>>> \o Tail(@)]
    <3>1. InstallOrder(<<<<"noted", f>>>> \o Tail(proc.todo))
      BY <1>3, <2>1, NotedOrder
    <3>2. NewProc(proc.does, <<<<"noted", f>>>> \o Tail(proc.todo), list \cup {f}, proc.code)
      BY <1>1, <2>2, Moves
    <3>3. list \cup {f} \in SUBSET Files
      BY <1>1, <1>3, <2>1
    <3> HIDE DEF f
    <3> QED
      BY <1>3, <2>1, <3>1, <3>2, <3>3, ProcTypeNext
  <2>3. CASE proc' = [proc EXCEPT !.code = 1, !.todo = Tail(@)]
    <3>1. NewProc(proc.does, Tail(proc.todo), proc.merged, 1)
      BY <1>1, <2>3, Moves
    <3> QED
      BY <1>2, <1>3, <2>1, <3>1, ProcTypeNext
  <2> QED
    BY <1>4, <2>2, <2>3 DEF RecordReads
<1>5. CASE RecordWrites
  <2>1. At("noted") /\ \E c \in {proc.code, 1} : NewProc(proc.does, Tail(proc.todo), {}, c)
    BY <1>1, <1>5, Moves DEF RecordWrites
  <2>2. {} \in SUBSET Files
    OBVIOUS
  <2> QED
    BY <1>2, <1>3, <2>1, <2>2, ProcTypeNext
<1> QED
  BY <1>4, <1>5 DEF NoteStep

\* The operations a setup alone has, and those a removal alone has.
LEMMA WhoIsAt ==
  ASSUME ProcType, NEW op, At(op)
  PROVE  /\ op \notin RemoveOps => Installing /\ ~Removing
         /\ op \notin SetupOps => Removing /\ ~Installing
<1>1. ~(Installing /\ Removing)
  BY DEF Installing, Removing
<1> QED
  BY <1>1, AtIs DEF AtWork

LEMMA ServiceProc ==
  ASSUME TypeInv, ServiceStep
  PROVE  ProcType'
<1>1. ProcType
  BY DEF TypeInv
<1>2. ASSUME NEW op \in LoadOps, At(op), GoesOn \/ (Installing /\ LoadFails) PROVE ProcType'
  BY <1>1, <1>2, GoesOnType
<1>3. ASSUME NEW op \in LoadOps \ {"end"}, At(op) PROVE Installing
  BY <1>1, <1>3, WhoIsAt DEF LoadOps, RemoveOps
<1>4. {"enable", "restart", "bootout", "bootstrap", "create", "end", "run"} \subseteq LoadOps
  BY DEF LoadOps
<1>5. CASE EnableNow
  BY <1>2, <1>3, <1>4, <1>5 DEF EnableNow, Manages
<1>6. CASE Restart
  BY <1>2, <1>3, <1>4, <1>6 DEF Restart, Manages
<1>7. CASE Bootout
  BY <1>2, <1>3, <1>4, <1>7 DEF Bootout, Manages
<1>8. CASE Bootstrap
  BY <1>2, <1>3, <1>4, <1>8 DEF Bootstrap, Manages
<1>9. CASE CreateTask \/ RunTask
  BY <1>2, <1>3, <1>4, <1>9 DEF CreateTask, RunTask, Manages
<1>10. CASE EndTask
  BY <1>2, <1>4, <1>10 DEF EndTask, Manages, Ignores
<1>11. CASE Unregister \/ Forget
  BY <1>1, <1>11, GoesOnType DEF Unregister, Forget, Manages, Ignores
<1>12. CASE StopService
  BY <1>1, <1>12, GoesOnType DEF StopService
<1> QED
  BY <1>5, <1>6, <1>7, <1>8, <1>9, <1>10, <1>11, <1>12 DEF ServiceStep, LoadStep

LEMMA OtherProc ==
  ASSUME TypeInv, OtherStep
  PROVE  ProcType'
<1>1. ProcType
  BY DEF TypeInv
<1>2. 1 \in Codes /\ ReinstallNeededExit \in Codes
  BY DEF Codes
<1>3. ASSUME NEW op, At(op), GoesOn \/ Fails \/ \E c \in Codes : Exits(c) PROVE ProcType'
  BY <1>1, <1>3, GoesOnType
<1>4. CASE ProxyUninstall
  <2>1. At("unproxy") /\ Removing
    BY <1>1, <1>4, WhoIsAt DEF ProxyUninstall, SetupOps, FileOps, LoadOps
  <2> QED
    BY <1>1, <1>4, <2>1, GoesOnType DEF ProxyUninstall
<1>5. CASE LooksForPrograms
  BY <1>2, <1>3, <1>5 DEF LooksForPrograms
<1>6. CASE ProxyInstall
  BY <1>2, <1>3, <1>6 DEF ProxyInstall
<1>7. CASE StopsApp \/ StartsApp
  BY <1>3, <1>7 DEF StopsApp, StartsApp
<1>8. CASE WaitsForPort
  BY <1>2, <1>3, <1>8 DEF WaitsForPort
<1>9. CASE AsksSecrets
  BY <1>2, <1>3, <1>9 DEF AsksSecrets
<1> QED
  BY <1>4, <1>5, <1>6, <1>7, <1>8, <1>9 DEF OtherStep

LEMMA RemovalProc ==
  ASSUME TypeInv, RemovalStep
  PROVE  ProcType'
<1>1. ProcType /\ list \subseteq Files /\ files \subseteq Files
  BY DEF TypeInv, FileType
<1>2. ASSUME NEW op \in {"unlink", "delete", "unlist", "unroot"}, At(op)
      PROVE  /\ Removing /\ proc.todo # <<>> /\ RemoveOrder(proc.todo)
             /\ proc.does \in Doings /\ proc.merged \in SUBSET Files /\ proc.code \in Codes
             /\ proc.does \notin {"install", "repair", "idle", "ended"}
             /\ RemoveOrder(Tail(proc.todo))
  <2>1. Removing
    BY <1>1, <1>2, WhoIsAt DEF SetupOps, FileOps, LoadOps
  <2> QED
    BY <1>1, <1>2, <2>1, AtIs, TailOrder DEF ProcType, Removing
<1>3. CASE Unlinks
  BY <1>1, <1>3, GoesOnType DEF Unlinks
<1>4. CASE Deletes
  <2>1. At("delete")
    BY <1>4 DEF Deletes
  <2>2. CASE proc' = [proc EXCEPT !.merged = {}, !.todo = Tail(@)]
    <3>1. NewProc(proc.does, Tail(proc.todo), {}, proc.code)
      BY <1>1, <2>2, Moves
    <3>2. {} \in SUBSET Files
      OBVIOUS
    <3> QED
      BY <1>2, <2>1, <3>1, <3>2, ProcTypeNext
  <2>3. CASE UNCHANGED proc
    BY <1>1, <2>3 DEF ProcType, Installing, Removing, AtWork
  <2>4. CASE \E f \in list \cap files : proc' = [proc EXCEPT !.merged = @ \cup {f}]
    <3> PICK f \in list \cap files : proc' = [proc EXCEPT !.merged = @ \cup {f}]
      BY <2>4
    <3>1. NewProc(proc.does, proc.todo, proc.merged \cup {f}, proc.code)
      BY <1>1, Moves
    <3>2. proc.merged \cup {f} \in SUBSET Files
      BY <1>1, <1>2, <2>1
    <3> QED
      BY <1>2, <2>1, <3>1, <3>2, ProcTypeNext
  <2> QED
    BY <1>4, <2>2, <2>3, <2>4 DEF Deletes
<1>5. CASE RemovesList
  BY <1>1, <1>2, <1>5, GoesOnType DEF RemovesList
<1>6. CASE RemovesRoot
  BY <1>1, <1>6, GoesOnType DEF RemovesRoot
<1> QED
  BY <1>3, <1>4, <1>5, <1>6 DEF RemovalStep

LEMMA LifeProc ==
  ASSUME TypeInv, Ends \/ Beginning \/ Killed \/ CoreStep \/ Around
  PROVE  ProcType'
<1>1. ProcType /\ KnownSystem /\ native \in BOOLEAN
  BY DEF TypeInv, GivenType
<1>2. /\ {0, 1} \subseteq Codes
      /\ {"idle", "ended", "install", "repair", "remove", "self"} \subseteq Doings
  BY DEF Codes, Doings
<1>3. {} \in SUBSET Files /\ TRUE \in BOOLEAN /\ FALSE \in BOOLEAN
  OBVIOUS
<1>4. UNCHANGED proc => ProcType'
  BY <1>1 DEF ProcType, Installing, Removing, AtWork
<1>5. ASSUME NEW d \in {"idle", "ended"}, NEW c \in Codes, NewProc(d, <<>>, {}, c) PROVE ProcType'
  BY <1>2, <1>3, <1>5, ProcTypeNext
<1>6. ASSUME NEW d \in {"install", "repair"}, NEW keep \in BOOLEAN, Begins(d, SetupSteps(keep))
      PROVE  ProcType'
  <2>1. NewProc(d, SetupSteps(keep), {}, 0) /\ InstallOrder(SetupSteps(keep))
    BY <1>1, <1>6, Moves, SetupOrder
  <2> QED
    BY <1>2, <1>3, <2>1, ProcTypeNext
<1>7. CASE Ends
  <2>1. proc' = Ended
    BY <1>7 DEF Ends
  <2> QED
    BY <1>1, <1>2, <1>5, <2>1, Moves DEF ProcType
<1>8. CASE InstallBegins
  BY <1>3, <1>6, <1>8 DEF InstallBegins
<1>9. CASE UninstallBegins
  <2>1. NewProc("remove", UninstallSteps(ServiceUninstall), {}, 0)
        /\ RemoveOrder(UninstallSteps(ServiceUninstall))
    BY <1>1, <1>9, Moves, RemovalOrder DEF UninstallBegins
  <2> QED
    BY <1>2, <1>3, <2>1, ProcTypeNext
<1>10. CASE RemoveBegins
  <2>1. NewProc("self", RemoveSteps, {}, 0) /\ RemoveOrder(RemoveSteps)
    BY <1>1, <1>10, Moves, RemovalOrder DEF RemoveBegins
  <2> QED
    BY <1>2, <1>3, <2>1, ProcTypeNext
<1>11. CASE Killed
  <2>1. PICK c \in {0, 1} : proc' = [Ended EXCEPT !.code = c]
    BY <1>11 DEF Killed
  <2>2. NewProc(IF core.watch THEN "ended" ELSE "idle", <<>>, {}, c)
    BY <1>1, <2>1, Moves
  <2> QED
    BY <1>2, <1>5, <2>2
<1>12. CASE CoreStarts \/ Attempts \/ RequestRepair \/ Around
  BY <1>4, <1>12
  DEF CoreStarts, Attempts, RequestRepair, Around, AssistantWrites, StartServiceIfDown,
      ProgramGoes, running
<1>13. CASE CoreEnds \/ WatchRepair
  <2>1. proc' = Idle \/ UNCHANGED proc
    BY <1>13 DEF CoreEnds, WatchRepair
  <2> QED
    BY <1>1, <1>2, <1>4, <1>5, <2>1, Moves
<1>14. CASE StartRepair
  BY <1>3, <1>4, <1>6, <1>14 DEF StartRepair, RepairCommand
<1> QED
  BY <1>7, <1>8, <1>9, <1>10, <1>11, <1>12, <1>13, <1>14 DEF Beginning, CoreStep

LEMMA CoreTypes ==
  ASSUME CoreType
  PROVE  /\ \A b \in Versions : Fresh(b) \in
                [on: BOOLEAN, bits: Versions, msg: Messages, reinstall: BOOLEAN, watch: BOOLEAN]
         /\ core' = NoCore => CoreType'
         /\ \A m \in Messages : core' = [core EXCEPT !.msg = m] => CoreType'
         /\ UNCHANGED core => CoreType'
<1>1. ASSUME NEW b \in Versions
      PROVE  Fresh(b) \in
                [on: BOOLEAN, bits: Versions, msg: Messages, reinstall: BOOLEAN, watch: BOOLEAN]
  BY DEF Fresh, Messages
<1>2. core' = NoCore => CoreType'
  BY DEF NoCore, Fresh, CoreType, Versions, Messages
<1>3. \A m \in Messages : core' = [core EXCEPT !.msg = m] => CoreType'
  BY DEF CoreType
<1>4. UNCHANGED core => CoreType'
  BY DEF CoreType
<1> QED
  BY <1>1, <1>2, <1>3, <1>4

\* What stays of its type with its variables.
LEMMA StaysType ==
  ASSUME TypeInv
  PROVE  /\ UNCHANGED given => GivenType'
         /\ UNCHANGED fileVars => FileType'
         /\ UNCHANGED service => ServiceType'
         /\ UNCHANGED disk => (disk \in Versions)'
         /\ (UNCHANGED root \/ root' = TRUE) /\ (UNCHANGED programs \/ programs' = FALSE)
               /\ (UNCHANGED asked \/ asked' \in BOOLEAN) /\ (UNCHANGED app \/ app' \in BOOLEAN)
               /\ (UNCHANGED removed \/ removed' \in BOOLEAN)
              => FlagType'
<1>1. UNCHANGED given => GivenType'
  BY DEF TypeInv, GivenType, KnownSystem, given
<1>2. UNCHANGED fileVars => FileType'
  BY DEF TypeInv, FileType, fileVars
<1>3. UNCHANGED service => ServiceType'
  BY DEF TypeInv, ServiceType
<1>4. UNCHANGED disk => (disk \in Versions)'
  BY DEF TypeInv
<1>5. (UNCHANGED root \/ root' = TRUE) /\ (UNCHANGED programs \/ programs' = FALSE)
         /\ (UNCHANGED asked \/ asked' \in BOOLEAN) /\ (UNCHANGED app \/ app' \in BOOLEAN)
         /\ (UNCHANGED removed \/ removed' \in BOOLEAN)
        => FlagType'
  BY Zenon DEF TypeInv, FlagType
<1> QED
  BY <1>1, <1>2, <1>3, <1>4, <1>5

LEMMA FileStepType ==
  ASSUME TypeInv, WriteStep \/ NoteStep
  PROVE  GivenType' /\ FileType' /\ CoreType' /\ ServiceType' /\ FlagType' /\ (disk \in Versions)'
<1>1. UNCHANGED given /\ UNCHANGED service /\ UNCHANGED core /\ UNCHANGED disk
      /\ UNCHANGED <<root, programs, asked, app, removed>>
  BY DEF WriteStep, NoteStep, WritesConfig, InstallCommand, EnsureApportIgnore, WritesUnit,
         WritesEntry, WritesLogin, RecordReads, RecordWrites, OnlyWrites, OnlyList, running,
         installation
<1>2. GivenType' /\ ServiceType' /\ FlagType' /\ (disk \in Versions)'
  BY <1>1, StaysType
<1>3. CoreType'
  BY <1>1, CoreTypes DEF TypeInv
<1>4. FileType'
  <2>1. CASE WriteStep
    <3>1. UNCHANGED list
      BY <2>1 DEF WriteStep, WritesConfig, InstallCommand, EnsureApportIgnore, WritesUnit,
             WritesEntry, WritesLogin, OnlyWrites
    <3>2. files' \subseteq files \cup Files /\ lost' \subseteq lost \cup Files
      BY <2>1 DEF WriteStep, WritesConfig, InstallCommand, EnsureApportIgnore, WritesUnit,
             WritesEntry, WritesLogin, Written, Breaks, Files
    <3> QED
      BY <3>1, <3>2 DEF TypeInv, FileType
  <2>2. CASE RecordReads
    <3>1. Head(proc.todo)[2] \in Files
      BY <2>2, NoteFile DEF RecordReads, TypeInv, FileOps
    <3>2. UNCHANGED files /\ list' \subseteq list /\ lost' \subseteq lost \cup {Head(proc.todo)[2]}
      BY <2>2 DEF RecordReads, OnlyList
    <3> QED
      BY <3>1, <3>2 DEF TypeInv, FileType
  <2>3. CASE RecordWrites
    <3>1. UNCHANGED files /\ list' \in {list, proc.merged} /\ lost' \subseteq lost \cup proc.merged
      BY <2>3 DEF RecordWrites, OnlyList
    <3> QED
      BY <3>1 DEF TypeInv, FileType, ProcType
  <2> QED
    BY <2>1, <2>2, <2>3 DEF NoteStep
<1> QED
  BY <1>2, <1>3, <1>4

LEMMA ServiceStepType ==
  ASSUME TypeInv, ServiceStep
  PROVE  GivenType' /\ FileType' /\ CoreType' /\ ServiceType' /\ FlagType' /\ (disk \in Versions)'
<1>1. UNCHANGED given /\ UNCHANGED fileVars /\ UNCHANGED disk /\ UNCHANGED <<root, programs, app>>
  BY DEF ServiceStep, LoadStep, EnableNow, Restart, Bootout, Bootstrap, CreateTask, EndTask,
         RunTask, Unregister, Forget, StopService, OnlyService, fileVars, installation
<1>2. CoreType /\ ServiceType /\ FlagType /\ service.reg \in BOOLEAN /\ service.up \in BOOLEAN
  BY DEF TypeInv, ServiceType
<1>3. ASSUME NEW r \in BOOLEAN, NEW u \in BOOLEAN, NEW e \in BOOLEAN, Manages(r, u, e)
      PROVE  CoreType' /\ ServiceType' /\ asked' \in BOOLEAN
  <2>1. service' \in [reg: BOOLEAN, up: BOOLEAN]
    BY <1>3 DEF Manages
  <2>2. core' = NoCore \/ UNCHANGED core
    BY <1>3 DEF Manages
  <2>3. asked' \in BOOLEAN
    BY <1>3, Zenon DEF Manages
  <2> QED
    BY <1>2, <2>1, <2>2, <2>3, CoreTypes DEF ServiceType
<1>4. ASSUME UNCHANGED <<service, core, asked>>
      PROVE  CoreType' /\ ServiceType' /\ asked' \in BOOLEAN
  BY <1>2, <1>4, CoreTypes, StaysType DEF FlagType
<1>5. ASSUME LoadFails \/ Ignores PROVE CoreType' /\ ServiceType' /\ asked' \in BOOLEAN
  BY <1>4, <1>5 DEF LoadFails, Ignores
<1>6. /\ TRUE \in BOOLEAN /\ FALSE \in BOOLEAN /\ (mac /\ service.reg) \in BOOLEAN
      /\ (~windows) \in BOOLEAN
  BY Zenon
<1>7. CoreType' /\ ServiceType' /\ asked' \in BOOLEAN
  <2>1. CASE EnableNow \/ Restart \/ Bootout \/ Bootstrap
    BY <1>2, <1>3, <1>4, <1>5, <1>6, <2>1 DEF EnableNow, Restart, Bootout, Bootstrap
  <2>2. CASE CreateTask \/ EndTask \/ RunTask
    BY <1>2, <1>3, <1>5, <1>6, <2>2 DEF CreateTask, EndTask, RunTask
  <2>3. CASE Unregister
    BY <1>3, <1>4, <1>5, <1>6, <2>3 DEF Unregister
  <2>4. CASE Forget
    BY <1>2, <1>3, <1>5, <1>6, <2>4 DEF Forget
  <2>5. CASE StopService
    <3>1. PICK b \in BOOLEAN : b = (linux /\ service.reg)
      BY Zenon
    <3>2. UNCHANGED service \/ service' = [reg |-> b, up |-> FALSE]
      BY <2>5, <3>1 DEF StopService
    <3>3. [reg |-> b, up |-> FALSE] \in [reg: BOOLEAN, up: BOOLEAN]
      BY Zenon
    <3>4. ServiceType'
      BY <1>2, <3>2, <3>3, StaysType DEF ServiceType
    <3> QED
      BY <1>2, <2>5, <3>4, CoreTypes DEF StopService
  <2> QED
    BY <2>1, <2>2, <2>3, <2>4, <2>5 DEF ServiceStep, LoadStep
<1>8. UNCHANGED removed \/ removed' \in BOOLEAN
  BY Zenon
  DEF ServiceStep, LoadStep, EnableNow, Restart, Bootout, Bootstrap, CreateTask, EndTask,
      RunTask, Unregister, Forget, StopService, OnlyService
<1>9. FlagType'
  BY <1>1, <1>7, <1>8, StaysType
<1> QED
  BY <1>1, <1>7, <1>9, StaysType

LEMMA OtherStepType ==
  ASSUME TypeInv, OtherStep
  PROVE  GivenType' /\ FileType' /\ CoreType' /\ ServiceType' /\ FlagType' /\ (disk \in Versions)'
<1>1. UNCHANGED given /\ UNCHANGED fileVars /\ UNCHANGED disk /\ UNCHANGED service
      /\ UNCHANGED core /\ UNCHANGED <<root, programs, asked, removed>>
  BY DEF OtherStep, LooksForPrograms, ProxyInstall, ProxyUninstall, StopsApp, StartsApp,
         WaitsForPort, AsksSecrets, OnlyProc, OnlyApp, fileVars, installation, running
<1>2. UNCHANGED app \/ app' \in BOOLEAN
  BY Zenon
  DEF OtherStep, LooksForPrograms, ProxyInstall, ProxyUninstall, StopsApp, StartsApp,
      WaitsForPort, AsksSecrets, OnlyProc, running
<1> QED
  BY <1>1, <1>2, StaysType, CoreTypes DEF TypeInv

LEMMA RemovalStepType ==
  ASSUME TypeInv, RemovalStep
  PROVE  GivenType' /\ FileType' /\ CoreType' /\ ServiceType' /\ FlagType' /\ (disk \in Versions)'
<1>1. UNCHANGED given /\ UNCHANGED disk /\ UNCHANGED service
      /\ UNCHANGED core /\ UNCHANGED <<programs, asked, app, removed>>
  BY DEF RemovalStep, Unlinks, Deletes, RemovesList, RemovesRoot, OnlyFiles, OnlyList, fileVars,
         installation, running
<1>2. UNCHANGED root \/ root' \in BOOLEAN
  BY Zenon DEF RemovalStep, Unlinks, Deletes, RemovesList, RemovesRoot, OnlyFiles, OnlyList,
               installation
<1>3. FlagType'
  BY <1>1, <1>2, Zenon DEF TypeInv, FlagType
<1>4. FileType'
  BY DEF RemovalStep, Unlinks, Deletes, RemovesList, RemovesRoot, OnlyFiles, OnlyList, fileVars,
         TypeInv, FileType
<1> QED
  BY <1>1, <1>3, <1>4, StaysType, CoreTypes DEF TypeInv

LEMMA LifeType ==
  ASSUME TypeInv, Ends \/ Beginning \/ Killed
  PROVE  GivenType' /\ FileType' /\ CoreType' /\ ServiceType' /\ FlagType' /\ (disk \in Versions)'
<1>1. UNCHANGED given /\ UNCHANGED service /\ UNCHANGED core /\ UNCHANGED <<programs, asked, app>>
  BY DEF Ends, Beginning, InstallBegins, UninstallBegins, RemoveBegins, Killed, OnlyProc,
         installation, running
<1>2. UNCHANGED root \/ root' = TRUE
  BY DEF Ends, Beginning, InstallBegins, UninstallBegins, RemoveBegins, Killed, OnlyProc,
         installation
<1>3. UNCHANGED removed \/ removed' \in BOOLEAN
  BY Zenon DEF Ends, Beginning, InstallBegins, UninstallBegins, RemoveBegins, Killed, OnlyProc
<1>4. FileType'
  BY DEF Ends, Beginning, InstallBegins, UninstallBegins, RemoveBegins, Killed, OnlyProc,
         fileVars, TypeInv, FileType, ProcType
<1>5. disk' \in Versions
  BY DEF Ends, Beginning, InstallBegins, UninstallBegins, RemoveBegins, Killed, OnlyProc,
         installation, TypeInv, Versions
<1> QED
  BY <1>1, <1>2, <1>3, <1>4, <1>5, StaysType, CoreTypes DEF TypeInv

LEMMA CoreStepType ==
  ASSUME TypeInv, CoreStep \/ Around
  PROVE  GivenType' /\ FileType' /\ CoreType' /\ ServiceType' /\ FlagType' /\ (disk \in Versions)'
<1>1. UNCHANGED given /\ UNCHANGED <<root, disk>>
  BY DEF CoreStep, CoreStarts, CoreEnds, Attempts, RequestRepair, StartRepair, WatchRepair,
         Around, AssistantWrites, StartServiceIfDown, ProgramGoes, OnlyCore, installation
<1>2. FlagType'
  <2>1. (UNCHANGED programs \/ programs' = FALSE) /\ UNCHANGED app /\ UNCHANGED removed
    BY DEF CoreStep, CoreStarts, CoreEnds, Attempts, RequestRepair, StartRepair, WatchRepair,
           Around, AssistantWrites, StartServiceIfDown, ProgramGoes, OnlyCore, installation,
           running
  <2>2. UNCHANGED asked \/ asked' \in BOOLEAN
    BY DEF CoreStep, CoreStarts, CoreEnds, Attempts, RequestRepair, StartRepair, WatchRepair,
           Around, AssistantWrites, StartServiceIfDown, ProgramGoes, OnlyCore, running
  <2> QED
    BY <1>1, <2>1, <2>2, StaysType
<1>3. FileType'
  <2>1. files' \subseteq files \cup {"config"} /\ lost' \subseteq lost \cup {"config"}
        /\ UNCHANGED list
    BY DEF CoreStep, CoreStarts, CoreEnds, Attempts, RequestRepair, StartRepair, WatchRepair,
           Around, AssistantWrites, StartServiceIfDown, ProgramGoes, OnlyCore, fileVars
  <2>2. "config" \in Files
    BY DEF Files
  <2> QED
    BY <2>1, <2>2 DEF TypeInv, FileType
<1>4. ServiceType'
  <2>1. CASE StartServiceIfDown
    <3>1. (service.reg \/ mac) \in BOOLEAN
      BY Zenon
    <3>2. service' = [reg |-> service.reg \/ mac, up |-> TRUE]
      BY <2>1 DEF StartServiceIfDown
    <3> HIDE DEF mac
    <3> QED
      BY <3>1, <3>2 DEF ServiceType
  <2>2. CASE ~StartServiceIfDown
    <3>1. UNCHANGED service
      BY <2>2 DEF CoreStep, CoreStarts, CoreEnds, Attempts, RequestRepair, StartRepair,
             WatchRepair, Around, AssistantWrites, ProgramGoes, OnlyCore, running
    <3> QED
      BY <3>1, StaysType
  <2> QED
    BY <2>1, <2>2
<1>5. CoreType'
  <2>1. CoreType /\ disk \in Versions /\ {"none", "missing", "trouble", "failed", "reinstall"}
                                            \subseteq Messages
    BY DEF TypeInv, Messages
  <2>2. CASE CoreStarts
    BY <2>1, <2>2, CoreTypes DEF CoreStarts, CoreType
  <2>3. CASE CoreEnds
    BY <2>1, <2>3, CoreTypes DEF CoreEnds
  <2>4. CASE Attempts
    BY <2>1, <2>4, CoreTypes DEF Attempts
  <2>5. CASE RequestRepair \/ Around
    BY <2>1, <2>5, CoreTypes
    DEF RequestRepair, Around, AssistantWrites, StartServiceIfDown, ProgramGoes, running
  <2>6. CASE StartRepair
    <3>1. \/ core' = [core EXCEPT !.msg = "repairing", !.watch = TRUE]
          \/ core' = [core EXCEPT !.msg = "failed"]
      BY <2>6 DEF StartRepair
    <3>2. core' = [core EXCEPT !.msg = "repairing", !.watch = TRUE] => CoreType'
      BY <2>1 DEF CoreType, Messages
    <3> QED
      BY <2>1, <3>1, <3>2, CoreTypes
  <2>7. CASE WatchRepair
    <3>1. AfterRepair(proc.code) \in Messages
      BY <2>1 DEF AfterRepair, CoreType
    <3>2. (core.reinstall \/ proc.code = ReinstallNeededExit) \in BOOLEAN
      BY Zenon
    <3>3. core' = [core EXCEPT !.watch = FALSE, !.msg = AfterRepair(proc.code),
                      !.reinstall = core.reinstall \/ proc.code = ReinstallNeededExit]
      BY <2>7 DEF WatchRepair
    <3> QED
      BY <2>1, <3>1, <3>2, <3>3 DEF CoreType
  <2> QED
    BY <2>2, <2>3, <2>4, <2>5, <2>6, <2>7 DEF CoreStep
<1> QED
  BY <1>1, <1>2, <1>3, <1>4, <1>5, StaysType

LEMMA IgnoredType ==
  ASSUME ignored \in BOOLEAN, Next
  PROVE  ignored' \in BOOLEAN
<1>1. CASE WriteStep \/ NoteStep \/ OtherStep \/ RemovalStep
  BY <1>1
  DEF WriteStep, NoteStep, OtherStep, RemovalStep, WritesConfig, InstallCommand,
      EnsureApportIgnore, WritesUnit, WritesEntry, WritesLogin, RecordReads, RecordWrites,
      LooksForPrograms, ProxyInstall, ProxyUninstall, StopsApp, StartsApp, WaitsForPort,
      AsksSecrets, Unlinks, Deletes, RemovesList, RemovesRoot, OnlyFiles, OnlyWrites, OnlyList,
      OnlyProc,
      OnlyApp
<1>2. CASE ServiceStep
  BY <1>2
  DEF ServiceStep, LoadStep, EnableNow, Restart, Bootout, Bootstrap, CreateTask, EndTask,
      RunTask, Unregister, Forget, StopService, Manages, LoadFails, Ignores
<1>3. CASE Ends \/ Beginning \/ Killed \/ CoreStep \/ Around
  BY <1>3
  DEF Ends, Beginning, InstallBegins, UninstallBegins, RemoveBegins, Killed, CoreStep, CoreStarts,
      CoreEnds, Attempts, RequestRepair, StartRepair, WatchRepair, OnlyCore, Around,
      AssistantWrites, StartServiceIfDown, ProgramGoes, Begins
<1> QED
  BY <1>1, <1>2, <1>3, NextIsOf

LEMMA NextType == TypeInv /\ [Next]_vars => TypeInv'
<1>1. CASE Next /\ TypeInv
  <2>1. ProcType'
    BY <1>1, NextIsOf, WriteProc, NoteProc, ServiceProc, OtherProc, RemovalProc, LifeProc
  <2>2. GivenType' /\ FileType' /\ CoreType' /\ ServiceType' /\ FlagType' /\ (disk \in Versions)'
    BY <1>1, NextIsOf, FileStepType, ServiceStepType, OtherStepType, RemovalStepType, LifeType,
       CoreStepType
  <2>3. ignored' \in BOOLEAN
    BY <1>1, IgnoredType DEF TypeInv
  <2> QED
    BY <2>1, <2>2, <2>3 DEF TypeInv
<1>2. CASE TypeInv /\ UNCHANGED vars
  BY <1>2
  DEF vars, given, TypeInv, ProcType, Installing, Removing, AtWork, GivenType, KnownSystem,
      FileType, CoreType, ServiceType, FlagType
<1> QED
  BY <1>1, <1>2

LEMMA InitType == Systems \subseteq {"linux", "macOS", "windows"} /\ Init => TypeInv
<1> SUFFICES ASSUME Systems \subseteq {"linux", "macOS", "windows"}, Init PROVE TypeInv
  OBVIOUS
<1>1. ProcType
  BY DEF Init, Idle, ProcType, Doings, Codes, Installing, Removing, AtWork
<1>2. GivenType /\ FileType
  BY DEF Init, GivenType, KnownSystem, FileType, Files, Kept
<1>3. CoreType
  BY DEF Init, NoCore, Fresh, CoreType, Versions, Messages
<1>4. ServiceType /\ disk \in Versions
  BY DEF Init, ServiceType, Versions
<1>5. FlagType /\ ignored \in BOOLEAN
  BY DEF Init, FlagType
<1> QED
  BY <1>1, <1>2, <1>3, <1>4, <1>5 DEF TypeInv

-----------------------------------------------------------------------------
\* Every file of Uni VPN's is in the list, is about to be noted, or has lost its record; no file
\* of the user's is.
About == {f \in Files : Now("note", f)}
TheirsKept == theirs \subseteq files /\ list \cap theirs = {}
AllListed == files \subseteq theirs \cup lost \cup list \cup {"unit"} \cup About \cup proc.merged
Noting ==
    /\ Installing => (About \cup proc.merged) \cap theirs = {}
    /\ Installing /\ proc.merged # {} => At("noted")
    /\ Installing /\ At("noted") => list = {}
    /\ Removing => proc.merged \subseteq lost
    /\ ~AtWork => proc.merged = {}
Account == TheirsKept /\ AllListed /\ Noting

\* A repair is watched by the core that began it, and one is asked of a core.
Watched ==
    /\ core.watch => core.on /\ proc.does \in {"repair", "ended"}
    /\ asked => core.on

\* With the loading behind it and nothing failed, the service is there with the new core; after a
\* bootout that failed, bootstrap will too.
Loaded ==
    Installing /\ proc.code = 0 =>
        /\ Ahead({"enable", "bootstrap", "create"}) \/ service.reg
        /\ Ahead({"enable", "bootstrap", "run"}) \/ service.up
        /\ \/ Ahead({"restart", "bootout", "end"}) \/ (core.on => core.bits = disk) \/ ignored
           \/ Ahead({"bootstrap"}) /\ service.reg

\* What a removal has behind it is gone, unless something failed or a failure was ignored.
Stopped == Ahead({"stopApp"}) \/ ~app
Unlinked == Ahead({"unlink"}) \/ "unit" \notin files
Emptied == Ahead({"unlist"}) \/ list = {}
Rootless == Ahead({"unroot"}) \/ ~root
Unregistered ==
    proc.does = "remove" =>
        Ahead({"unregister"}) \/ ignored \/ (~service.reg /\ ~service.up /\ ~core.on)
\* Windows deletes a task that was ended before.
Halted ==
    proc.does = "remove" /\ windows => Ahead({"end"}) \/ ignored \/ (~service.up /\ ~core.on)
Forgotten == proc.does = "self" /\ linux => Ahead({"forget"}) \/ ignored \/ ~service.reg
Deleted == Ahead({"unlist"}) => Ahead({"delete"}) \/ list \cap files \subseteq lost
Finished == proc.does = "remove" /\ ~root => proc.code = 0 /\ proc.todo = <<>>
AppFirst ==
    proc.does = "remove" /\ Ahead({"stopApp"}) =>
        Ahead({"unregister"}) /\ (windows => Ahead({"end"}))
WhoseSteps ==
    /\ proc.does = "remove" => ~Ahead({"forget", "stop"})
    /\ proc.does = "self" => ~Ahead({"unregister", "end"})
TakenDown ==
    Removing =>
        /\ proc.code = 0 => /\ Stopped /\ Unlinked /\ Emptied /\ Rootless
                            /\ Unregistered /\ Halted /\ Forgotten
        /\ Deleted /\ Finished /\ AppFirst /\ WhoseSteps

\* After a removal nothing is there and nothing starts anything, even if the service or the core
\* is still there after a failure that was ignored.
Gone ==
    removed =>
        /\ proc.does = "idle" /\ ~root /\ ~app /\ list = {}
        /\ ignored \/ (~core.on /\ ~service.reg /\ ~service.up)
        /\ files \subseteq theirs \cup lost

SetupInv == TypeInv /\ Account /\ Watched /\ Loaded /\ TakenDown /\ Gone /\ NoFutileRepair

-----------------------------------------------------------------------------
(* Repair is not offered where it cannot help. *)

LEMMA FutileNext ==
  ASSUME TypeInv, NoFutileRepair, Next
  PROVE  NoFutileRepair'
<1>1. CoreType
  BY DEF TypeInv
<1>2. ASSUME core' = NoCore \/ UNCHANGED core PROVE NoFutileRepair'
  BY <1>2 DEF NoFutileRepair, NoCore, Fresh
<1>3. CASE WriteStep \/ NoteStep
  BY <1>2, <1>3
  DEF WriteStep, NoteStep, WritesConfig, InstallCommand, EnsureApportIgnore, WritesUnit,
      WritesEntry, WritesLogin, RecordReads, RecordWrites, OnlyWrites, OnlyList, running
<1>4. CASE ServiceStep
  <2>1. core' = NoCore \/ UNCHANGED core
    BY <1>4 DEF ServiceStep, LoadStep, EnableNow, Restart, Bootout, Bootstrap, CreateTask, EndTask,
         RunTask, Unregister, Forget, StopService, Manages, LoadFails, Ignores
  <2> QED
    BY <1>2, <2>1
<1>5. CASE OtherStep \/ RemovalStep \/ Ends \/ Beginning \/ Killed \/ Around
  <2>1. UNCHANGED core
    BY <1>5
    DEF OtherStep, LooksForPrograms, ProxyInstall, ProxyUninstall, StopsApp, StartsApp,
        WaitsForPort, AsksSecrets, OnlyProc, OnlyApp, RemovalStep, Unlinks, Deletes, RemovesList,
        RemovesRoot, OnlyFiles, OnlyList, Ends, Beginning, InstallBegins, UninstallBegins,
        RemoveBegins, Killed, Around, AssistantWrites, StartServiceIfDown, ProgramGoes, running
  <2> QED
    BY <1>2, <2>1
<1>6. CASE CoreStep
  <2>1. CASE CoreStarts
    BY <2>1 DEF CoreStarts, Fresh, NoFutileRepair
  <2>2. CASE CoreEnds \/ RequestRepair
    BY <1>2, <2>2 DEF CoreEnds, RequestRepair
  <2>3. CASE Attempts
    BY <1>1, <2>3 DEF Attempts, NoFutileRepair, CoreType
  <2>4. CASE StartRepair
    BY <1>1, <2>4 DEF StartRepair, NoFutileRepair, CoreType
  <2>5. CASE WatchRepair
    <3>1. /\ core'.msg = AfterRepair(proc.code)
          /\ core'.reinstall => core.reinstall \/ proc.code = ReinstallNeededExit
      BY <1>1, <2>5 DEF WatchRepair, CoreType
    <3>2. AfterRepair(proc.code) = "missing" => core.msg = "missing"
                                               /\ proc.code # ReinstallNeededExit
      BY DEF AfterRepair, OffersRepair
    <3> QED
      BY <3>1, <3>2 DEF NoFutileRepair
  <2> QED
    BY <1>6, <2>1, <2>2, <2>3, <2>4, <2>5 DEF CoreStep
<1> QED
  BY <1>3, <1>4, <1>5, <1>6, NextIsOf

-----------------------------------------------------------------------------
(* What is ahead. *)

LEMMA HasTail ==
  ASSUME NEW S, NEW s \in Seq(S), s # <<>>, NEW ops
  PROVE  Has(s, ops) <=> Head(s)[1] \in ops \/ Has(Tail(s), ops)
<1>1. /\ Len(s) \in Nat \ {0} /\ Head(s) = s[1] /\ Len(Tail(s)) = Len(s) - 1
      /\ \A i \in 1..Len(Tail(s)) : Tail(s)[i] = s[i + 1]
  OBVIOUS
<1>2. ASSUME Has(s, ops) PROVE Head(s)[1] \in ops \/ Has(Tail(s), ops)
  <2> PICK i \in 1..Len(s) : s[i][1] \in ops
    BY <1>2 DEF Has
  <2>1. CASE i = 1
    BY <1>1, <2>1
  <2>2. CASE i # 1
    <3>1. i - 1 \in 1..Len(Tail(s)) /\ (i - 1) + 1 = i
      BY <1>1, <2>2
    <3>2. Tail(s)[i - 1] = s[i]
      BY <1>1, <3>1
    <3> QED
      BY <3>1, <3>2 DEF Has
  <2> QED
    BY <2>1, <2>2
<1>3. ASSUME Head(s)[1] \in ops PROVE Has(s, ops)
  BY <1>1, <1>3 DEF Has
<1>4. ASSUME Has(Tail(s), ops) PROVE Has(s, ops)
  <2> PICK i \in 1..Len(Tail(s)) : Tail(s)[i][1] \in ops
    BY <1>4 DEF Has
  <2>1. i + 1 \in 1..Len(s) /\ s[i + 1] = Tail(s)[i]
    BY <1>1
  <2> QED
    BY <2>1 DEF Has
<1> QED
  BY <1>2, <1>3, <1>4

LEMMA HasNone == \A ops : ~Has(<<>>, ops)
BY DEF Has

\* What the process is at is ahead, and with a step done what was ahead is ahead but for it.
LEMMA HeadIsAhead ==
  ASSUME ProcType, NEW op, At(op)
  PROVE  \A ops : Ahead(ops) <=> op \in ops \/ Has(Tail(proc.todo), ops)
<1>1. proc.todo \in Seq(AllSteps) /\ proc.todo # <<>> /\ Head(proc.todo)[1] = op
  BY AtIs
<1> QED
  BY <1>1, HasTail DEF Ahead

\* A removal has no earlier step ahead.
LEMMA Behind ==
  ASSUME ProcType, Removing, NEW op, At(op), NEW o \in RemoveOps, Place(o) <= Place(op)
  PROVE  ~Has(Tail(proc.todo), {o}) /\ (o # op => ~Ahead({o}))
<1> DEFINE s == proc.todo
<1>1. /\ RemoveOrder(s) /\ s # <<>> /\ Head(s)[1] = op /\ op \in RemoveOps
      /\ s \in Seq(Removals)
  BY AtIs DEF RemoveOrder
<1>2. /\ Len(s) \in Nat \ {0} /\ Head(s) = s[1] /\ Len(Tail(s)) = Len(s) - 1
      /\ \A i \in 1..Len(Tail(s)) : Tail(s)[i] = s[i + 1]
  BY <1>1
<1> HIDE DEF s
<1>3. ASSUME NEW i \in 1..Len(Tail(s)), Tail(s)[i][1] = o PROVE FALSE
  <2>1. 1 \in 1..Len(s) /\ i + 1 \in 1..Len(s) /\ 1 < i + 1 /\ s[i + 1][1] = o
    BY <1>2, <1>3
  <2>2. Place(s[1][1]) < Place(s[i + 1][1])
    BY <1>1, <2>1 DEF RemoveOrder
  <2>3. Place(op) < Place(o)
    BY <1>1, <1>2, <2>1, <2>2
  <2>4. Place(op) \in 1..9 /\ Place(o) \in 1..9
    BY <1>1, PlaceType
  <2> QED
    BY <2>3, <2>4
<1>4. ~Has(Tail(s), {o})
  BY <1>3 DEF Has
<1> QED
  BY <1>4, HeadIsAhead DEF s

-----------------------------------------------------------------------------
(* No file is forgotten. *)

\* A step that is about to note a file the user may have comes after one that writes it.
LEMMA NotNext ==
  ASSUME NEW s, InstallOrder(s), s # <<>>, Tail(s) # <<>>, NEW f \in Kept, Head(s) # <<"write", f>>
  PROVE  Head(Tail(s)) # <<"note", f>>
<1>1. s \in Seq(Early \cup Late)
  BY DEF InstallOrder
<1>2. Len(s) \in Nat /\ Len(s) > 1 /\ Head(s) = s[1] /\ Head(Tail(s)) = s[2]
  BY <1>1
<1>3. 2 \in 2..Len(s) /\ 2 - 1 = 1
  BY <1>2
<1>4. s[2][1] = "note" /\ s[2][2] \in Kept => s[1] = <<"write", s[2][2]>>
  BY <1>3 DEF InstallOrder, NotesOwn
<1> QED
  BY <1>2, <1>4

LEMMA NotNoted ==
  ASSUME NEW s, InstallOrder(s), s # <<>>, Tail(s) # <<>>
  PROVE  Head(Tail(s))[1] # "noted"
<1>1. s \in Seq(Early \cup Late)
  BY DEF InstallOrder
<1>2. Len(s) \in Nat /\ Len(s) > 1 /\ Head(Tail(s)) = s[2]
  BY <1>1
<1> QED
  BY <1>2 DEF InstallOrder

\* Where no file is being noted, every file is in the list, lost or the user's.
LEMMA Settled ==
  ASSUME TypeInv, Account, ~At("note"), ~At("noted")
  PROVE  /\ files \subseteq theirs \cup lost \cup list \cup {"unit"} /\ About = {}
         /\ Installing => proc.merged = {}
<1>1. About = {}
  BY NowIsAt DEF About
<1>2. proc.merged \subseteq lost /\ (Installing => proc.merged = {})
  BY DEF Account, Noting, AtWork
<1> QED
  BY <1>1, <1>2 DEF Account, AllListed

\* A step that touches no file.
LEMMA QuietStep ==
  ASSUME TypeInv, Account, ProcType', NEW op, At(op), op \notin FileOps,
         UNCHANGED <<theirs, files, list, lost>>,
         \/ /\ proc'.does = proc.does /\ proc'.merged = proc.merged
            /\ proc'.todo \in {Tail(proc.todo), <<>>, <<<<"note", "unit">>>>, <<Do("stop")>>}
         \/ proc'.does \in {"idle", "ended"} /\ proc'.todo = <<>> /\ proc'.merged = {}
  PROVE  Account'
<1>1. ~At("note") /\ ~At("noted")
  BY DEF At, FileOps
<1>2. /\ files \subseteq theirs \cup lost \cup list \cup {"unit"} /\ About = {}
      /\ Installing => proc.merged = {}
  BY <1>1, Settled
<1>3. TheirsKept' /\ AllListed'
  BY <1>2 DEF Account, TheirsKept, AllListed
<1>4. Noting'
  <2>1. CASE proc'.does = proc.does /\ proc'.merged = proc.merged
             /\ proc'.todo \in {Tail(proc.todo), <<>>, <<<<"note", "unit">>>>, <<Do("stop")>>}
    <3>1. (Installing' <=> Installing) /\ (Removing' <=> Removing)
      BY <2>1 DEF Installing, Removing
    <3>2. ASSUME Installing, NEW f \in About', f \in theirs PROVE FALSE
      <4>1. proc'.todo # <<>> /\ Head(proc'.todo) = <<"note", f>> /\ f \in Kept
        BY <3>2 DEF About, Now, TypeInv, GivenType
      <4>2. CASE proc'.todo = Tail(proc.todo)
        <5>1. /\ InstallOrder(proc.todo) /\ proc.todo # <<>> /\ Head(proc.todo)[1] = op
          BY <3>2, AtIs DEF TypeInv, ProcType
        <5>2. Head(proc.todo) # <<"write", f>>
          BY <5>1 DEF FileOps
        <5> QED
          BY <4>1, <4>2, <5>1, <5>2, NotNext
      <4>3. CASE proc'.todo = <<<<"note", "unit">>>>
        BY <4>1, <4>3 DEF Kept
      <4>4. CASE proc'.todo = <<Do("stop")>>
        <5>1. Head(proc'.todo) = Do("stop")
          BY <4>4
        <5>2. Do("stop")[1] = "stop"
          BY DoIs
        <5> QED
          BY <4>1, <5>1, <5>2
      <4> QED
        BY <2>1, <4>1, <4>2, <4>3, <4>4
    <3>3. ASSUME Installing, At("noted")' PROVE FALSE
      <4>1. proc'.todo # <<>> /\ Head(proc'.todo)[1] = "noted"
        BY <3>3 DEF At
      <4>2. CASE proc'.todo = Tail(proc.todo)
        <5>1. InstallOrder(proc.todo) /\ proc.todo # <<>>
          BY <3>3, AtIs DEF TypeInv, ProcType
        <5> QED
          BY <4>1, <4>2, <5>1, NotNoted
      <4>3. CASE proc'.todo = <<<<"note", "unit">>>>
        BY <4>1, <4>3
      <4>4. CASE proc'.todo = <<Do("stop")>>
        <5>1. Head(proc'.todo) = Do("stop")
          BY <4>4
        <5>2. Do("stop")[1] = "stop"
          BY DoIs
        <5> QED
          BY <4>1, <5>1, <5>2
      <4> QED
        BY <2>1, <4>1, <4>2, <4>3, <4>4
    <3> QED
      BY <1>2, <2>1, <3>1, <3>2, <3>3 DEF Noting, Account, AtWork
  <2>2. CASE proc'.does \in {"idle", "ended"} /\ proc'.todo = <<>> /\ proc'.merged = {}
    BY <2>2 DEF Noting, Installing, Removing
  <2> QED
    BY <2>1, <2>2
<1> QED
  BY <1>3, <1>4 DEF Account

LEMMA WriteAccount ==
  ASSUME TypeInv, Account, WriteStep
  PROVE  Account'
<1>1. At("write")
  BY NowIsAt DEF WriteStep, WritesConfig, InstallCommand, EnsureApportIgnore, WritesUnit,
                 WritesEntry, WritesLogin
<1>2. /\ Installing /\ ~Removing /\ InstallOrder(proc.todo) /\ Head(proc.todo)[2] \in Files
      /\ proc.todo # <<>> /\ Head(proc.todo)[1] = "write"
  BY <1>1, NoteFile, AtIs DEF TypeInv, FileOps, Installing, Removing
<1>3. ~At("note") /\ ~At("noted")
  BY <1>1 DEF At
<1>4. /\ files \subseteq theirs \cup lost \cup list \cup {"unit"} /\ About = {}
      /\ proc.merged = {}
  BY <1>2, <1>3, Settled
<1>5. UNCHANGED <<theirs, list>> /\ theirs \subseteq Kept
  BY DEF WriteStep, WritesConfig, InstallCommand, EnsureApportIgnore, WritesUnit,
         WritesEntry, WritesLogin, OnlyWrites, given, TypeInv, GivenType
<1> DEFINE Accounted == theirs \subseteq files'
                        /\ files' \subseteq theirs \cup lost' \cup list \cup {"unit"}
<1>20. ASSUME NEW f, Breaks(f) \/ UNCHANGED <<files, lost>> PROVE Accounted
  BY <1>4, <1>20 DEF Breaks, Account, TheirsKept
<1>6. ASSUME theirs \subseteq files', proc'.does = proc.does, proc'.merged = {},
             files' \subseteq theirs \cup lost' \cup list \cup {"unit"} \cup About',
             About' \cap theirs = {}, ~At("noted")'
      PROVE  Account'
  <2>1. TheirsKept' /\ AllListed'
    BY <1>5, <1>6 DEF Account, TheirsKept, AllListed
  <2>2. Noting'
    BY <1>2, <1>6, <1>5 DEF Noting, Installing, Removing
  <2> QED
    BY <2>1, <2>2 DEF Account
<1>7. ASSUME NEW c \in Codes, Exits(c), Accounted PROVE Account'
  <2>1. proc'.does = proc.does /\ proc'.merged = {} /\ proc'.todo = <<>>
    <3>1. NewProc(proc.does, <<>>, proc.merged, c)
      BY <1>7, Moves DEF TypeInv
    <3> QED
      BY <1>4, <3>1, NewProcIs
  <2>2. About' = {} /\ ~At("noted")'
    BY <2>1 DEF About, Now, At
  <2> QED
    BY <1>4, <1>6, <1>7, <2>1, <2>2
<1>8. ASSUME Skips, Head(proc.todo)[2] # "unit", Accounted PROVE Account'
  <2> DEFINE t == Tail(proc.todo)
  <2>1. proc'.does = proc.does /\ proc'.merged = {} /\ proc'.todo = Tail(t)
    <3>1. NewProc(proc.does, Tail(t), proc.merged, proc.code)
      BY <1>8, Moves DEF TypeInv
    <3> QED
      BY <1>4, <3>1, NewProcIs
  <2>2. t # <<>> /\ InstallOrder(t) /\ Head(t)[1] = "note"
    BY <1>2, <1>8, SkipOrder
  <2> HIDE DEF t
  <2>3. ASSUME NEW f \in About', f \in theirs PROVE FALSE
    <3>1. Tail(t) # <<>> /\ Head(Tail(t)) = <<"note", f>> /\ f \in Kept
      BY <1>5, <2>1, <2>3 DEF About, Now
    <3>2. Head(t) # <<"write", f>>
      BY <2>2
    <3> QED
      BY <2>2, <3>1, <3>2, NotNext
  <2>4. ~At("noted")'
    BY <2>1, <2>2, NotNoted DEF At
  <2> QED
    BY <1>4, <1>6, <1>8, <2>1, <2>3, <2>4
<1>9. ASSUME proc' = [proc EXCEPT !.todo = <<Last(@)>>], Head(proc.todo) \in Late, Accounted
      PROVE  Account'
  <2>1. proc'.does = proc.does /\ proc'.merged = {} /\ proc'.todo = <<Last(proc.todo)>>
    <3>1. NewProc(proc.does, <<Last(proc.todo)>>, proc.merged, proc.code)
      BY <1>9, Moves DEF TypeInv
    <3> QED
      BY <1>4, <3>1, NewProcIs
  <2>2. Last(proc.todo) \in Late
    BY <1>2, <1>9, LastOrder
  <2>3. ASSUME NEW f \in About', f \in theirs PROVE FALSE
    <3>1. Last(proc.todo) = <<"note", f>> /\ f \in Kept
      BY <1>5, <2>1, <2>3 DEF About, Now
    <3>2. <<"note", f>> \in FileOps \X {"entry", "login"}
      <4>1. <<"note", f>> \notin {"stopApp", "startApp", "port", "asks"} \X {""}
        OBVIOUS
      <4> QED
        BY <2>2, <3>1, <4>1 DEF Late
    <3> QED
      BY <3>1, <3>2 DEF Kept
  <2>4. ~At("noted")'
    <3>1. Last(proc.todo)[1] # "noted" \/ Last(proc.todo) = Head(proc.todo)
      BY <1>2, <1>9, LastOrder
    <3> QED
      BY <1>2, <2>1, <3>1 DEF At
  <2> QED
    BY <1>4, <1>6, <1>9, <2>1, <2>3, <2>4
<1>10. ASSUME NEW f \in Files, Now("write", f), GoesOn, files' \in {files, files \cup {f}},
              f \in Kept => f \notin files, UNCHANGED lost
       PROVE  Account'
  <2>1. proc'.does = proc.does /\ proc'.merged = {} /\ proc'.todo = Tail(proc.todo)
    <3>1. NewProc(proc.does, Tail(proc.todo), proc.merged, proc.code)
      BY <1>10, Moves DEF TypeInv
    <3> QED
      BY <1>4, <3>1, NewProcIs
  <2>2. Head(proc.todo) = <<"write", f>>
    BY <1>10 DEF Now
  <2>5. ~At("noted")'
    BY <1>2, <2>1, NotNoted DEF At
  <2>3. CASE f = "unit"
    <3>1. ASSUME NEW g \in About', g \in theirs PROVE FALSE
      <4>1. Tail(proc.todo) # <<>> /\ Head(Tail(proc.todo)) = <<"note", g>> /\ g \in Kept
        BY <1>5, <2>1, <3>1 DEF About, Now
      <4>2. Head(proc.todo) # <<"write", g>>
        BY <2>2, <2>3, <4>1 DEF Kept
      <4> QED
        BY <1>2, <4>1, <4>2, NotNext
    <3> QED
      BY <1>4, <1>6, <1>10, <2>1, <2>3, <2>5, <3>1 DEF Account, TheirsKept
  <2>4. CASE f # "unit"
    <3>1. Tail(proc.todo) # <<>> /\ Head(Tail(proc.todo)) = <<"note", f>>
      BY <1>2, <2>2, <2>4, SkipOrder
    <3>2. About' = {f}
      BY <2>1, <3>1 DEF About, Now
    <3>3. f \notin theirs
      BY <1>5, <1>10 DEF Account, TheirsKept
    <3> QED
      BY <1>4, <1>6, <1>10, <2>1, <2>5, <3>2, <3>3 DEF Account, TheirsKept
  <2> QED
    BY <2>3, <2>4
<1>11. ASSUME NEW f, Now("write", f) PROVE Head(proc.todo)[2] = f
  BY <1>11 DEF Now
<1>12. ASSUME NEW f \in {"entry", "login"}, Now("write", f) PROVE Head(proc.todo) \in Late
  <2>1. Head(proc.todo) = <<"write", f>> /\ "write" \in FileOps
    BY <1>12 DEF Now, FileOps
  <2>2. Head(proc.todo) \in FileOps \X {"entry", "login"}
    BY <2>1
  <2> QED
    BY <2>2 DEF Late
<1>13. theirs \subseteq files /\ 1 \in Codes /\ "command" \notin Kept /\ "unit" \notin Kept
       /\ "entry" \notin Kept /\ "login" \notin Kept
       /\ {"config", "command", "apport", "unit", "entry", "login"} \subseteq Files
  BY DEF Account, TheirsKept, Codes, Kept, Files
<1> HIDE DEF Accounted
<1>14. CASE WritesConfig
  BY <1>7, <1>8, <1>10, <1>11, <1>13, <1>14, <1>20 DEF WritesConfig, Written
<1>15. CASE InstallCommand
  <2>1. files' = files \ {"command"} /\ UNCHANGED lost => Accounted
    BY <1>4, <1>5, <1>13 DEF Accounted
  <2> QED
    BY <1>7, <1>10, <1>13, <1>15, <1>20, <2>1 DEF InstallCommand, Written
<1>16. CASE EnsureApportIgnore
  BY <1>7, <1>8, <1>10, <1>11, <1>13, <1>16, <1>20 DEF EnsureApportIgnore, Written
<1>17. CASE WritesUnit
  <2>1. files' \in {files, files \cup {"unit"}} /\ UNCHANGED lost => Accounted
    BY <1>4, <1>13 DEF Accounted
  <2> QED
    BY <1>7, <1>10, <1>13, <1>17, <2>1 DEF WritesUnit, Written
<1>18. CASE WritesEntry
  BY <1>8, <1>9, <1>10, <1>11, <1>12, <1>13, <1>18, <1>20 DEF WritesEntry, Written
<1>19. CASE WritesLogin
  BY <1>8, <1>9, <1>10, <1>11, <1>12, <1>13, <1>19, <1>20 DEF WritesLogin, Written
<1> QED
  BY <1>14, <1>15, <1>16, <1>17, <1>18, <1>19 DEF WriteStep

LEMMA NoteAccount ==
  ASSUME TypeInv, Account, NoteStep
  PROVE  Account'
<1> DEFINE f == Head(proc.todo)[2]
<1>1. UNCHANGED <<theirs, files>>
  BY DEF NoteStep, RecordReads, RecordWrites, OnlyList, given
<1>2. ASSUME NEW op \in {"note", "noted"}, At(op)
      PROVE  /\ Installing /\ ~Removing /\ AtWork /\ InstallOrder(proc.todo) /\ f \in Files
             /\ proc.todo # <<>> /\ Head(proc.todo)[1] = op /\ Head(proc.todo) = <<op, f>>
  <2>1. op \in FileOps
    BY <1>2 DEF FileOps
  <2> QED
    BY <1>2, <2>1, NoteFile, AtIs DEF TypeInv, Installing, Removing, AtWork
<1> HIDE DEF f
<1>3. ASSUME NEW op \in {"note", "noted"}, At(op), proc'.todo = Tail(proc.todo)
      PROVE  About' \cap theirs = {}
  <2>1. ASSUME NEW g \in About', g \in theirs PROVE FALSE
    <3>1. Tail(proc.todo) # <<>> /\ Head(Tail(proc.todo)) = <<"note", g>> /\ g \in Kept
      BY <1>3, <2>1 DEF About, Now, TypeInv, GivenType
    <3>2. Head(proc.todo) # <<"write", g>>
      BY <1>2, <1>3
    <3> QED
      BY <1>2, <1>3, <3>1, <3>2, NotNext
  <2> QED
    BY <2>1
<1>4. CASE RecordReads
  <2>1. At("note") /\ Now("note", f) /\ ~At("noted")
    <3>1. At("note")
      BY <1>4 DEF RecordReads
    <3> QED
      BY <1>2, <3>1 DEF Now, At
  <2>2. About = {f} /\ f \notin theirs /\ proc.merged = {}
    <3>1. About = {f}
      BY <1>2, <2>1 DEF About, Now
    <3> QED
      BY <1>2, <2>1, <3>1 DEF Account, Noting
  <2>3. CASE /\ proc' = [proc EXCEPT !.merged = list \cup {f},
                                      !.todo = <<<<"noted", f>>>> \o Tail(@)]
             /\ list' = {} /\ UNCHANGED lost
    <3>1. NewProc(proc.does, <<<<"noted", f>>>> \o Tail(proc.todo), list \cup {f}, proc.code)
      BY <2>3, Moves DEF TypeInv
    <3>2. /\ proc'.does = proc.does /\ proc'.merged = list \cup {f}
          /\ proc'.todo = <<<<"noted", f>>>> \o Tail(proc.todo)
      BY <3>1, NewProcIs
    <3>3. proc'.todo # <<>> /\ Head(proc'.todo) = <<"noted", f>>
      <4>1. ASSUME NEW S, proc.todo \in Seq(S), NEW y
            PROVE  <<y>> \o Tail(proc.todo) # <<>> /\ Head(<<y>> \o Tail(proc.todo)) = y
        <5> DEFINE T == S \cup {y}
        <5>1. <<y>> \in Seq(T) /\ Tail(proc.todo) \in Seq(T)
          BY <1>2, <2>1, <4>1
        <5> QED
          BY <5>1
      <4>2. proc.todo \in Seq(AllSteps)
        BY DEF TypeInv, ProcType
      <4> QED
        BY <3>2, <4>1, <4>2
    <3>4. At("noted")' /\ About' = {}
      BY <3>3 DEF At, About, Now
    <3>5. TheirsKept' /\ AllListed'
      BY <1>1, <2>2, <2>3, <3>2 DEF Account, TheirsKept, AllListed
    <3>6. Noting'
      BY <1>1, <1>2, <2>1, <2>2, <2>3, <3>2, <3>4
      DEF Noting, Account, TheirsKept, Installing, Removing, AtWork
    <3> QED
      BY <3>5, <3>6 DEF Account
  <2>4. CASE /\ proc' = [proc EXCEPT !.code = 1, !.todo = Tail(@)]
             /\ lost' = lost \cup ({f} \ list) /\ UNCHANGED list
    <3>1. NewProc(proc.does, Tail(proc.todo), proc.merged, 1)
      BY <2>4, Moves DEF TypeInv
    <3>2. proc'.does = proc.does /\ proc'.merged = {} /\ proc'.todo = Tail(proc.todo)
      BY <2>2, <3>1, NewProcIs
    <3>3. About' \cap theirs = {}
      BY <1>3, <2>1, <3>2
    <3>4. TheirsKept' /\ AllListed'
      BY <1>1, <2>2, <2>4, <3>2 DEF Account, TheirsKept, AllListed
    <3>6. ~At("noted")'
      BY <1>2, <2>1, <3>2, NotNoted DEF At
    <3>5. Noting'
      BY <1>1, <1>2, <2>1, <3>2, <3>3, <3>6 DEF Noting, Installing, Removing, AtWork
    <3> QED
      BY <3>4, <3>5 DEF Account
  <2> QED
    BY <1>4, <2>3, <2>4 DEF RecordReads, f
<1>5. CASE RecordWrites
  <2>1. At("noted") /\ ~At("note")
    BY <1>5 DEF RecordWrites, At
  <2>2. About = {} /\ proc.merged \cap theirs = {}
    <3>1. About = {}
      BY <2>1, NowIsAt DEF About
    <3> QED
      BY <1>2, <2>1, <3>1 DEF Account, Noting
  <2>3. \E c : NewProc(proc.does, Tail(proc.todo), {}, c)
    BY <1>5, Moves DEF RecordWrites, TypeInv
  <2>4. proc'.does = proc.does /\ proc'.merged = {} /\ proc'.todo = Tail(proc.todo)
    BY <2>3, NewProcIs
  <2>5. About' \cap theirs = {}
    BY <1>3, <2>1, <2>4
  <2>6. \/ list' = proc.merged /\ lost' = lost \ proc.merged
        \/ UNCHANGED list /\ lost' = lost \cup proc.merged
    BY <1>5 DEF RecordWrites
  <2>7. TheirsKept'
    BY <1>1, <2>2, <2>6 DEF Account, TheirsKept
  <2>8. AllListed'
    <3>1. files \subseteq theirs \cup lost \cup list \cup {"unit"} \cup proc.merged
      BY <2>2 DEF Account, AllListed
    <3>2. list = {}
      BY <1>2, <2>1 DEF Account, Noting
    <3> QED
      BY <1>1, <2>4, <2>6, <3>1, <3>2 DEF AllListed
  <2>10. ~At("noted")'
    BY <1>2, <2>1, <2>4, NotNoted DEF At
  <2>9. Noting'
    BY <1>1, <1>2, <2>1, <2>4, <2>5, <2>10 DEF Noting, Installing, Removing, AtWork
  <2> QED
    BY <2>7, <2>8, <2>9 DEF Account
<1> QED
  BY <1>4, <1>5 DEF NoteStep

\* The step of the process that touches no file: what it sets its steps to.
LEMMA QuietMoves ==
  ASSUME TypeInv, NEW op, At(op),
         \/ GoesOn \/ Fails \/ GivesUp \/ LoadFails \/ proc' = Idle \/ \E c \in Codes : Exits(c)
  PROVE  \/ /\ proc'.does = proc.does /\ proc'.merged = proc.merged
            /\ proc'.todo \in {Tail(proc.todo), <<>>, <<<<"note", "unit">>>>, <<Do("stop")>>}
         \/ proc'.does \in {"idle", "ended"} /\ proc'.todo = <<>> /\ proc'.merged = {}
<1>1. ProcType
  BY DEF TypeInv
<1>2. ASSUME NEW t, NEW c, NewProc(proc.does, t, proc.merged, c)
      PROVE  proc'.does = proc.does /\ proc'.merged = proc.merged /\ proc'.todo = t
  BY <1>2, NewProcIs
<1>3. CASE GoesOn
  BY <1>1, <1>2, <1>3, Moves
<1>4. CASE Fails
  BY <1>1, <1>2, <1>4, Moves
<1>5. CASE GivesUp
  <2>1. PICK t \in {<<>>, <<Do("stop")>>} : NewProc(proc.does, t, proc.merged, 1)
    BY <1>1, <1>5, Moves
  <2> QED
    BY <1>2, <2>1
<1>6. CASE LoadFails
  BY <1>1, <1>2, <1>6, Moves
<1>7. CASE proc' = Idle
  <2>1. NewProc("idle", <<>>, {}, 0)
    BY <1>1, <1>7, Moves
  <2> QED
    BY <2>1, NewProcIs
<1>8. CASE \E c \in Codes : Exits(c)
  <2> PICK c \in Codes : Exits(c)
    BY <1>8
  <2>1. NewProc(proc.does, <<>>, proc.merged, c)
    BY <1>1, Moves
  <2> QED
    BY <1>2, <2>1
<1> QED
  BY <1>3, <1>4, <1>5, <1>6, <1>7, <1>8

LEMMA QuietAccount ==
  ASSUME TypeInv, Account, ProcType', ServiceStep \/ OtherStep \/ RemovesRoot
  PROVE  Account'
<1>1. UNCHANGED <<theirs, files, list, lost>>
  BY DEF ServiceStep, LoadStep, EnableNow, Restart, Bootout, Bootstrap, CreateTask, EndTask,
         RunTask, Unregister, Forget, StopService, OnlyService, OtherStep, LooksForPrograms,
         ProxyInstall, ProxyUninstall, StopsApp, StartsApp, WaitsForPort, AsksSecrets, OnlyProc,
         OnlyApp, RemovesRoot, fileVars, given
<1>2. ASSUME NEW op, At(op), op \notin FileOps,
             GoesOn \/ Fails \/ GivesUp \/ LoadFails \/ proc' = Idle \/ \E c \in Codes : Exits(c)
      PROVE  Account'
  BY <1>1, <1>2, QuietMoves, QuietStep
<1>3. \E op : /\ At(op) /\ op \notin FileOps
              /\ \/ GoesOn \/ Fails \/ GivesUp \/ LoadFails \/ proc' = Idle
                 \/ \E c \in Codes : Exits(c)
  <2>1. CASE LoadStep
    BY <2>1 DEF LoadStep, EnableNow, Restart, Bootout, Bootstrap, CreateTask, EndTask,
         RunTask, Manages, Ignores, FileOps
  <2>2. CASE Unregister \/ Forget \/ StopService
    BY <2>2 DEF Unregister, Forget, StopService, Manages, Ignores, FileOps
  <2>3. CASE OtherStep
    <3>1. 1 \in Codes /\ ReinstallNeededExit \in Codes
      BY DEF Codes
    <3> QED
      BY <2>3, <3>1 DEF OtherStep, LooksForPrograms, ProxyInstall, ProxyUninstall, StopsApp,
         StartsApp, WaitsForPort, AsksSecrets, FileOps
  <2>4. CASE RemovesRoot
    BY <2>4 DEF RemovesRoot, FileOps
  <2> QED
    BY <2>1, <2>2, <2>3, <2>4 DEF ServiceStep
<1> QED
  BY <1>2, <1>3

\* Where nothing is noted, files that go and records that are lost leave the account as it is.
LEMMA IdleAccount ==
  ASSUME theirs' \subseteq files' /\ list' \cap theirs' = {},
         files' \subseteq theirs' \cup lost' \cup list' \cup {"unit"},
         ~Installing', Removing' => proc'.merged \subseteq lost', ~AtWork' => proc'.merged = {}
  PROVE  Account'
BY DEF Account, TheirsKept, AllListed, Noting

LEMMA RemovalAccount ==
  ASSUME TypeInv, Account, ProcType', Removing => Deleted, Unlinks \/ Deletes \/ RemovesList
  PROVE  Account'
<1>1. \E op \in {"unlink", "delete", "unlist"} : At(op)
  BY DEF Unlinks, Deletes, RemovesList
<1>2. Removing /\ ~Installing
  BY <1>1, WhoIsAt DEF TypeInv, SetupOps, FileOps, LoadOps
<1>3. ~At("note") /\ ~At("noted")
  BY <1>1 DEF At
<1>4. /\ files \subseteq theirs \cup lost \cup list \cup {"unit"}
      /\ theirs \subseteq files /\ list \cap theirs = {} /\ proc.merged \subseteq lost
  BY <1>2, <1>3, Settled DEF Account, TheirsKept, Noting
<1>5. UNCHANGED theirs /\ theirs \subseteq Kept
  BY DEF Unlinks, Deletes, RemovesList, OnlyFiles, OnlyList, given, TypeInv, GivenType
<1>6. ASSUME proc'.does = proc.does, proc'.merged \subseteq lost',
             theirs \subseteq files', list' \cap theirs = {},
             files' \subseteq theirs \cup lost' \cup list' \cup {"unit"}
      PROVE  Account'
  <2>1. ~Installing' /\ AtWork'
    BY <1>2, <1>6 DEF Installing, Removing, AtWork
  <2> QED
    BY <1>5, <1>6, <2>1, IdleAccount
<1>7. CASE Unlinks
  <2>1. GoesOn \/ Fails
    BY <1>7 DEF Unlinks
  <2>2. NewProc(proc.does, Tail(proc.todo), proc.merged, proc.code)
        \/ NewProc(proc.does, Tail(proc.todo), proc.merged, 1)
    BY <2>1, Moves DEF TypeInv
  <2>3. proc'.does = proc.does /\ proc'.merged = proc.merged
    BY <2>2, NewProcIs
  <2>4. UNCHANGED <<list, lost>> /\ files' \subseteq files /\ files \ {"unit"} \subseteq files'
    BY <1>7 DEF Unlinks, OnlyFiles
  <2> QED
    BY <1>4, <1>5, <1>6, <2>3, <2>4 DEF Kept
<1>8. CASE Deletes
  <2>1. UNCHANGED list
    BY <1>8 DEF Deletes
  <2>2. CASE proc' = [proc EXCEPT !.merged = {}, !.todo = Tail(@)] /\ UNCHANGED <<files, lost>>
    <3>1. NewProc(proc.does, Tail(proc.todo), {}, proc.code)
      BY <2>2, Moves DEF TypeInv
    <3>2. proc'.does = proc.does /\ proc'.merged = {}
      BY <3>1, NewProcIs
    <3> QED
      BY <1>4, <1>6, <2>1, <2>2, <3>2
  <2>3. CASE \E f \in list : files' = files \ {f} /\ UNCHANGED <<proc, lost>>
    BY <1>4, <1>6, <2>1, <2>3
  <2>4. CASE \E f \in list : /\ lost' = lost \cup {f} /\ UNCHANGED files
                             /\ proc' = [proc EXCEPT !.merged = @ \cup {f}]
    <3> PICK f \in list : /\ lost' = lost \cup {f} /\ UNCHANGED files
                          /\ proc' = [proc EXCEPT !.merged = @ \cup {f}]
      BY <2>4
    <3>1. NewProc(proc.does, proc.todo, proc.merged \cup {f}, proc.code)
      BY Moves DEF TypeInv
    <3>2. proc'.does = proc.does /\ proc'.merged = proc.merged \cup {f}
      BY <3>1, NewProcIs
    <3> QED
      BY <1>4, <1>6, <2>1, <3>2
  <2> QED
    BY <1>8, <2>2, <2>3, <2>4 DEF Deletes
<1>9. CASE RemovesList
  <2>1. UNCHANGED <<files, lost>> /\ list' = {} /\ (GoesOn \/ GivesUp)
    BY <1>9 DEF RemovesList, OnlyList
  <2>2. \E t, c : NewProc(proc.does, t, proc.merged, c)
    BY <2>1, Moves DEF TypeInv
  <2>3. proc'.does = proc.does /\ proc'.merged = proc.merged
    BY <2>2, NewProcIs
  <2>4. list \cap files \subseteq lost
    <3>1. At("unlist")
      BY <1>9 DEF RemovesList
    <3>2. Ahead({"unlist"}) /\ ~Ahead({"delete"})
      BY <1>2, <3>1, HeadIsAhead, Behind, Places DEF TypeInv
    <3> QED
      BY <1>2, <3>2 DEF Deleted
  <2> QED
    BY <1>4, <1>6, <2>1, <2>3, <2>4
<1> QED
  BY <1>7, <1>8, <1>9

LEMMA LifeAccount ==
  ASSUME TypeInv, Account, ProcType', Ends \/ Beginning \/ Killed \/ CoreStep \/ Around
  PROVE  Account'
<1>1. theirs \subseteq files /\ list \cap theirs = {} /\ theirs \subseteq Kept /\ KnownSystem
      /\ native \in BOOLEAN /\ ProcType
  BY DEF Account, TheirsKept, TypeInv, GivenType
<1>2. ASSUME ~At("note"), ~At("noted")
      PROVE  files \subseteq theirs \cup lost \cup list \cup {"unit"}
  BY <1>2, Settled
<1>3. proc.todo = <<>> => ~At("note") /\ ~At("noted")
  BY DEF At
<1>4. ASSUME NEW d, NEW c, d \in {"idle", "ended", "remove", "self"}, NEW t,
             NewProc(d, t, {}, c), UNCHANGED <<theirs, files, list, lost>>,
             ~At("note"), ~At("noted")
      PROVE  Account'
  <2>1. proc'.does = d /\ proc'.merged = {}
    BY <1>4, NewProcIs
  <2> QED
    BY <1>1, <1>2, <1>4, <2>1, IdleAccount DEF Installing, Removing, AtWork
<1>5. ASSUME NEW d \in {"install", "repair"}, NEW keep \in BOOLEAN, Begins(d, SetupSteps(keep)),
             UNCHANGED <<theirs, files, list, lost>>, proc.todo = <<>>
      PROVE  Account'
  <2>1. NewProc(d, SetupSteps(keep), {}, 0)
    BY <1>1, <1>5, Moves
  <2>2. proc'.does = d /\ proc'.merged = {} /\ proc'.todo = SetupSteps(keep)
    BY <2>1, NewProcIs
  <2>3. Head(proc'.todo) = Do("programs") /\ Do("programs")[1] = "programs"
    BY <1>1, <2>2, SetupOrder, DoIs
  <2>4. ~At("noted")' /\ About' = {}
    BY <2>3 DEF At, About, Now
  <2> QED
    BY <1>1, <1>2, <1>3, <1>5, <2>2, <2>4
    DEF Account, TheirsKept, AllListed, Noting, Installing, Removing, AtWork
<1>6. ASSUME proc.does \in {"idle", "ended"} PROVE proc.todo = <<>>
  BY <1>1, <1>6 DEF ProcType, AtWork, Installing, Removing
<1>7. ASSUME UNCHANGED <<theirs, files, list, lost, proc>> PROVE Account'
  BY <1>7
  DEF Account, TheirsKept, AllListed, Noting, About, Now, At, Installing, Removing, AtWork
<1>8. CASE Ends
  <2>1. proc.todo = <<>> /\ proc' = Ended /\ UNCHANGED <<theirs, files, list, lost>>
    BY <1>8 DEF Ends, fileVars, given
  <2>2. \E c : \E d \in {"idle", "ended"} : NewProc(d, <<>>, {}, c)
    BY <1>1, <2>1, Moves
  <2> QED
    BY <1>3, <1>4, <2>1, <2>2
<1>9. CASE Beginning
  <2>2. UNCHANGED <<theirs, files, list, lost>> /\ proc.todo = <<>>
    BY <1>6, <1>9
    DEF Beginning, InstallBegins, UninstallBegins, RemoveBegins, OnlyProc, fileVars, given
  <2>3. CASE InstallBegins
    BY <1>5, <2>2, <2>3 DEF InstallBegins
  <2>4. CASE UninstallBegins \/ RemoveBegins
    <3>1. \E t : \E d \in {"remove", "self"} : NewProc(d, t, {}, 0)
      BY <1>1, <2>4, Moves DEF UninstallBegins, RemoveBegins
    <3> QED
      BY <1>3, <1>4, <2>2, <3>1
  <2> QED
    BY <1>9, <2>3, <2>4 DEF Beginning
<1>10. CASE Killed
  <2>1. UNCHANGED <<theirs, files, list>>
        /\ lost' = IF Removing THEN lost
                   ELSE lost \cup ((files \cup proc.merged) \ (theirs \cup list))
    BY <1>10 DEF Killed, given
  <2>2. PICK c \in {0, 1} : proc' = [Ended EXCEPT !.code = c]
    BY <1>10 DEF Killed
  <2>3. NewProc(IF core.watch THEN "ended" ELSE "idle", <<>>, {}, c)
    BY <1>1, <2>2, Moves
  <2>4. proc'.does \in {"idle", "ended"} /\ proc'.merged = {}
    BY <2>3, NewProcIs
  <2>5. files \subseteq theirs \cup lost' \cup list \cup {"unit"}
    <3>1. CASE Removing
      <4>1. ~At("note") /\ ~At("noted")
        BY <1>1, <3>1, WhoIsAt DEF RemoveOps
      <4> QED
        BY <1>2, <2>1, <3>1, <4>1
    <3>2. CASE ~Removing
      BY <2>1, <3>2
    <3> QED
      BY <3>1, <3>2
  <2> QED
    BY <1>1, <2>1, <2>4, <2>5, IdleAccount DEF Installing, Removing, AtWork
<1>11. CASE CoreStarts \/ Attempts \/ RequestRepair \/ StartServiceIfDown \/ ProgramGoes
  <2>1. UNCHANGED <<theirs, files, list, lost, proc>>
    BY <1>11
    DEF CoreStarts, Attempts, RequestRepair, StartServiceIfDown, ProgramGoes, OnlyCore, running,
        fileVars, given
  <2> QED
    BY <1>7, <2>1
<1>12. CASE CoreEnds \/ WatchRepair
  <2>1. UNCHANGED <<theirs, files, list, lost>>
    BY <1>12 DEF CoreEnds, WatchRepair, OnlyCore, fileVars, given
  <2>2. \/ UNCHANGED proc
        \/ proc' = Idle /\ proc.does \in {"self", "ended"}
    BY <1>12 DEF CoreEnds, WatchRepair
  <2>3. CASE UNCHANGED proc
    BY <1>7, <2>1, <2>3
  <2>4. CASE proc' = Idle /\ proc.does \in {"self", "ended"}
    <3>1. NewProc("idle", <<>>, {}, 0)
      BY <1>1, <2>4, Moves
    <3>2. ~At("note") /\ ~At("noted")
      <4>1. CASE proc.does = "ended"
        BY <1>3, <1>6, <4>1
      <4>2. CASE proc.does = "self"
        BY <1>1, <4>2, WhoIsAt DEF RemoveOps, Removing, Installing
      <4> QED
        BY <2>4, <4>1, <4>2
    <3> QED
      BY <1>4, <2>1, <3>1, <3>2
  <2> QED
    BY <2>2, <2>3, <2>4
<1>13. CASE StartRepair
  <2>1. UNCHANGED <<theirs, files, list, lost>> /\ proc.todo = <<>>
    BY <1>6, <1>13 DEF StartRepair, OnlyCore, fileVars, given
  <2>2. UNCHANGED proc \/ Begins("repair", SetupSteps(TRUE))
    BY <1>13 DEF StartRepair, RepairCommand
  <2> QED
    BY <1>5, <1>7, <2>1, <2>2
<1>14. CASE AssistantWrites
  <2>1. /\ UNCHANGED <<theirs, list, proc>> /\ "config" \notin files /\ "config" \in Files
        /\ files' = files \cup {"config"}
        /\ lost' = lost \cup {f \in {"config"} \ (list \cup proc.merged) : ~Now("note", f)}
    BY <1>14 DEF AssistantWrites, running, given, Files
  <2>2. About' = About
    BY <2>1 DEF About, Now
  <2>3. TheirsKept'
    BY <1>1, <2>1 DEF TheirsKept
  <2>4. "config" \in lost' \cup list \cup proc.merged \cup About
    BY <2>1 DEF About
  <2>5. AllListed'
    BY <2>1, <2>2, <2>4 DEF Account, AllListed
  <2>6. Noting'
    BY <2>1, <2>2 DEF Account, Noting, At, Installing, Removing, AtWork
  <2> QED
    BY <2>3, <2>5, <2>6 DEF Account
<1> QED
  BY <1>8, <1>9, <1>10, <1>11, <1>12, <1>13, <1>14 DEF CoreStep, Around

-----------------------------------------------------------------------------
(* A repair is watched by the core that began it. *)

LEMMA WatchedNext ==
  ASSUME TypeInv, Watched, Next
  PROVE  Watched'
<1>1. ProcType /\ CoreType
  BY DEF TypeInv
<1>2. ASSUME NEW does, NEW t, NEW m, NEW c, NewProc(does, t, m, c) PROVE proc'.does = does
  BY <1>2, NewProcIs
<1>3. NoCore.on = FALSE /\ NoCore.watch = FALSE
  BY DEF NoCore, Fresh
<1>4. ASSUME core' = NoCore, asked' = FALSE PROVE Watched'
  BY <1>3, <1>4 DEF Watched
<1>5. ASSUME UNCHANGED core, UNCHANGED asked,
             proc'.does = proc.does \/ ~core.watch \/ proc'.does \in {"repair", "ended"}
      PROVE  Watched'
  BY <1>5 DEF Watched
<1>6. ASSUME UNCHANGED core, UNCHANGED asked, NEW op, At(op),
             \/ GoesOn \/ Fails \/ GivesUp \/ LoadFails \/ \E c \in Codes : Exits(c)
      PROVE  Watched'
  <2>1. \E t, c : NewProc(proc.does, t, proc.merged, c)
    BY <1>1, <1>6, Moves
  <2> QED
    BY <1>2, <1>5, <1>6, <2>1
<1>7. 1 \in Codes /\ ReinstallNeededExit \in Codes
  BY DEF Codes
<1>8. CASE WriteStep \/ NoteStep \/ RemovalStep
  <2>1. UNCHANGED core /\ UNCHANGED asked
    BY <1>8
    DEF WriteStep, NoteStep, RemovalStep, WritesConfig, InstallCommand, EnsureApportIgnore,
        WritesUnit, WritesEntry, WritesLogin, RecordReads, RecordWrites, Unlinks, Deletes,
        RemovesList, RemovesRoot, OnlyFiles, OnlyWrites, OnlyList, running
  <2>2. \/ GoesOn \/ Fails \/ GivesUp \/ Skips \/ Exits(1) \/ UNCHANGED proc
        \/ proc' = [proc EXCEPT !.todo = <<Last(@)>>]
        \/ \E f : proc' = [proc EXCEPT !.merged = list \cup {f},
                                       !.todo = <<<<"noted", f>>>> \o Tail(@)]
        \/ proc' = [proc EXCEPT !.code = 1, !.todo = Tail(@)]
        \/ proc' = [proc EXCEPT !.merged = {}, !.todo = Tail(@)]
        \/ proc' = [proc EXCEPT !.merged = {}, !.code = 1, !.todo = Tail(@)]
        \/ \E f : proc' = [proc EXCEPT !.merged = @ \cup {f}]
    BY <1>8
    DEF WriteStep, NoteStep, RemovalStep, WritesConfig, InstallCommand, EnsureApportIgnore,
        WritesUnit, WritesEntry, WritesLogin, RecordReads, RecordWrites, Unlinks, Deletes,
        RemovesList, RemovesRoot, Written
  <2>3. UNCHANGED proc \/ \E t, m, c : NewProc(proc.does, t, m, c)
    BY <1>1, <2>2, Moves
  <2> QED
    BY <1>2, <1>5, <2>1, <2>3
<1>9. CASE ServiceStep
  <2>1. ASSUME NEW r, NEW u, NEW e \in BOOLEAN, Manages(r, u, e), NEW op, At(op) PROVE Watched'
    <3>1. CASE e
      BY <1>4, <2>1, <3>1, Zenon DEF Manages
    <3>2. CASE ~e
      <4>1. UNCHANGED core /\ (asked' => asked) /\ GoesOn
        BY <2>1, <3>2 DEF Manages
      <4>2. proc'.does = proc.does
        BY <1>1, <1>2, <4>1, Moves
      <4> QED
        BY <4>1, <4>2 DEF Watched
    <3> QED
      BY <3>1, <3>2
  <2>2. \/ \E op : At(op) /\ \E r, u : \E e \in BOOLEAN : Manages(r, u, e)
        \/ \E op : At(op) /\ (LoadFails \/ Fails \/ GoesOn) /\ UNCHANGED <<core, asked>>
        \/ StopService
    BY <1>9
    DEF ServiceStep, LoadStep, EnableNow, Restart, Bootout, Bootstrap, CreateTask, EndTask,
        RunTask, Unregister, Forget, LoadFails, Ignores
  <2>3. StopService => Watched'
    BY <1>4 DEF StopService
  <2> QED
    BY <1>6, <2>1, <2>2, <2>3
<1>10. CASE OtherStep
  <2>1. UNCHANGED core /\ UNCHANGED asked
    BY <1>10 DEF OtherStep, LooksForPrograms, ProxyInstall, ProxyUninstall, StopsApp, StartsApp,
       WaitsForPort, AsksSecrets, OnlyProc, OnlyApp, running
  <2>2. \E op : At(op) /\ \/ GoesOn \/ Fails \/ GivesUp \/ \E c \in Codes : Exits(c)
    BY <1>7, <1>10 DEF OtherStep, LooksForPrograms, ProxyInstall, ProxyUninstall, StopsApp,
       StartsApp, WaitsForPort, AsksSecrets
  <2> QED
    BY <1>6, <2>1, <2>2
<1>11. CASE Ends \/ Killed
  <2>1. UNCHANGED core /\ UNCHANGED asked
        /\ (proc' = Ended \/ \E c : proc' = [Ended EXCEPT !.code = c])
    BY <1>11 DEF Ends, Killed, running
  <2>2. \/ core.watch /\ \E c : NewProc("ended", <<>>, {}, c)
        \/ ~core.watch
    BY <1>1, <2>1, Moves
  <2> QED
    BY <1>2, <1>5, <2>1, <2>2
<1>12. CASE Beginning
  <2>1. UNCHANGED core /\ UNCHANGED asked
    BY <1>12 DEF Beginning, InstallBegins, UninstallBegins, RemoveBegins, OnlyProc, running
  <2>2. proc.does = "idle"
    BY <1>12 DEF Beginning, InstallBegins, UninstallBegins, RemoveBegins
  <2> QED
    BY <1>5, <2>1, <2>2 DEF Watched
<1>13. CASE Around
  BY <1>5, <1>13 DEF Around, AssistantWrites, StartServiceIfDown, ProgramGoes, running
<1>14. CASE CoreStep
  <2>1. CASE CoreStarts
    <3>1. core' = Fresh(disk) /\ asked' = asked /\ ~core.on
      BY <2>1 DEF CoreStarts
    <3> QED
      BY <3>1 DEF Fresh, Watched
  <2>2. CASE CoreEnds
    BY <1>4, <2>2 DEF CoreEnds
  <2>3. CASE Attempts
    <3>1. core'.on = core.on /\ core'.watch = core.watch /\ UNCHANGED <<asked, proc>>
      BY <1>1, <2>3 DEF Attempts, CoreType
    <3> QED
      BY <3>1 DEF Watched
  <2>4. CASE RequestRepair
    BY <2>4 DEF RequestRepair, Watched
  <2>5. CASE StartRepair
    <3>1. asked' = FALSE /\ asked /\ core.on
      BY <2>5 DEF StartRepair, Watched
    <3>2. CASE Begins("repair", RepairCommand)
               /\ core' = [core EXCEPT !.msg = "repairing", !.watch = TRUE]
      <4>1. proc'.does = "repair"
        BY <1>1, <1>2, <3>2, Moves
      <4>2. core'.on = core.on
        BY <1>1, <3>2 DEF CoreType
      <4> QED
        BY <3>1, <4>1, <4>2 DEF Watched
    <3>3. CASE core' = [core EXCEPT !.msg = "failed"] /\ UNCHANGED proc
      <4>1. core'.on = core.on /\ core'.watch = core.watch
        BY <1>1, <3>3 DEF CoreType
      <4> QED
        BY <3>1, <3>3, <4>1 DEF Watched
    <3> QED
      BY <2>5, <3>2, <3>3 DEF StartRepair
  <2>6. CASE WatchRepair
    <3>1. core'.on = core.on /\ core'.watch = FALSE /\ UNCHANGED asked
      BY <1>1, <2>6 DEF WatchRepair, CoreType
    <3> QED
      BY <3>1 DEF Watched
  <2> QED
    BY <1>14, <2>1, <2>2, <2>3, <2>4, <2>5, <2>6 DEF CoreStep
<1> QED
  BY <1>8, <1>9, <1>10, <1>11, <1>12, <1>13, <1>14, NextIsOf

-----------------------------------------------------------------------------
(* A setup that ends well has set up. *)

Regs == {"enable", "bootstrap", "create"}
Ups == {"enable", "bootstrap", "run"}
Fells == {"restart", "bootout", "end"}
Boots == {"bootstrap"}

LEMMA LoadedKeeps ==
  ASSUME Loaded, UNCHANGED disk,
         Installing' /\ proc'.code = 0 =>
            /\ Installing /\ proc.code = 0
            /\ Ahead(Regs) => Has(proc'.todo, Regs)
            /\ Ahead(Ups) => Has(proc'.todo, Ups)
            /\ Ahead(Fells) => Has(proc'.todo, Fells)
            /\ Ahead(Boots) => Has(proc'.todo, Boots),
         service.reg => service'.reg, service.up => service'.up, UNCHANGED ignored,
         core'.on => (core.on /\ core'.bits = core.bits) \/ core'.bits = disk
  PROVE  Loaded'
BY DEF Loaded, Ahead, Regs, Ups, Fells, Boots

\* A step that loads nothing, of a process that goes on, skips, or says that it failed.
LEMMA OnwardLoaded ==
  ASSUME TypeInv, Loaded, UNCHANGED <<disk, service, core, ignored>>, NEW op, At(op),
         op \notin Regs \cup Ups \cup Fells,
         \/ proc'.does = proc.does /\ proc'.todo = Tail(proc.todo) /\ proc'.code \in {proc.code, 1}
         \/ proc'.code # 0
         \/ ~Installing'
  PROVE  Loaded'
<1>1. ASSUME Installing', proc'.code = 0
      PROVE  /\ Installing /\ proc.code = 0
             /\ Ahead(Regs) => Has(proc'.todo, Regs)
             /\ Ahead(Ups) => Has(proc'.todo, Ups)
             /\ Ahead(Fells) => Has(proc'.todo, Fells)
             /\ Ahead(Boots) => Has(proc'.todo, Boots)
  <2>1. proc'.does = proc.does /\ proc'.todo = Tail(proc.todo) /\ proc.code = 0
    BY <1>1
  <2>2. \A ops : Ahead(ops) <=> op \in ops \/ Has(Tail(proc.todo), ops)
    BY HeadIsAhead DEF TypeInv
  <2>3. op \notin Boots
    BY DEF Regs, Boots
  <2> QED
    BY <1>1, <2>1, <2>2, <2>3 DEF Installing
<1> QED
  BY <1>1, LoadedKeeps

LEMMA WriteLoaded ==
  ASSUME TypeInv, Loaded, WriteStep \/ NoteStep
  PROVE  Loaded'
<1>1. UNCHANGED <<disk, service, core, ignored>>
  BY DEF WriteStep, NoteStep, WritesConfig, InstallCommand, EnsureApportIgnore, WritesUnit,
         WritesEntry, WritesLogin, RecordReads, RecordWrites, OnlyWrites, OnlyList, running,
         installation
<1>2. PICK op \in FileOps : At(op) /\ (WriteStep => op = "write")
  BY NowIsAt
  DEF WriteStep, NoteStep, WritesConfig, InstallCommand, EnsureApportIgnore, WritesUnit,
      WritesEntry, WritesLogin, RecordReads, RecordWrites, FileOps
<1>3. /\ op \notin Regs \cup Ups \cup Fells \cup Boots
      /\ FileOps \cap (Regs \cup Ups \cup Fells) = {}
  BY DEF FileOps, Regs, Ups, Fells, Boots
<1>4. /\ Installing /\ InstallOrder(proc.todo) /\ proc.todo # <<>> /\ Head(proc.todo)[1] = op
      /\ proc.todo \in Seq(AllSteps) /\ ProcType
  BY <1>2, NoteFile, AtIs DEF TypeInv
<1>5. \A ops : Ahead(ops) <=> op \in ops \/ Has(Tail(proc.todo), ops)
  BY <1>2, HeadIsAhead DEF TypeInv
<1>6. ASSUME NEW m, NEW c \in {proc.code, 1}, NewProc(proc.does, Tail(proc.todo), m, c)
      PROVE  Loaded'
  BY <1>1, <1>2, <1>3, <1>6, NewProcIs, OnwardLoaded
<1>7. ASSUME NEW c, c # 0, Exits(c) PROVE Loaded'
  <2>1. NewProc(proc.does, <<>>, proc.merged, c)
    BY <1>4, <1>7, Moves
  <2>2. proc'.code # 0
    BY <1>7, <2>1, NewProcIs
  <2> QED
    BY <1>1, <2>2, LoadedKeeps
<1>8. ASSUME Skips, op = "write", Head(proc.todo)[2] # "unit" PROVE Loaded'
  <2> DEFINE t == Tail(proc.todo)
  <2>1. NewProc(proc.does, Tail(t), proc.merged, proc.code)
    BY <1>4, <1>8, Moves
  <2>2. proc'.does = proc.does /\ proc'.todo = Tail(t) /\ proc'.code = proc.code
    BY <2>1, NewProcIs
  <2>3. t \in Seq(AllSteps) /\ t # <<>> /\ Head(t)[1] = "note"
    BY <1>4, <1>8, SkipOrder
  <2>4. \A ops : Has(t, ops) <=> "note" \in ops \/ Has(Tail(t), ops)
    BY <2>3, HasTail
  <2>5. "note" \notin Regs /\ "note" \notin Ups /\ "note" \notin Fells /\ "note" \notin Boots
    BY DEF Regs, Ups, Fells, Boots
  <2> HIDE DEF t
  <2>6. (Ahead(Regs) => Has(proc'.todo, Regs)) /\ (Ahead(Ups) => Has(proc'.todo, Ups))
        /\ (Ahead(Fells) => Has(proc'.todo, Fells)) /\ (Ahead(Boots) => Has(proc'.todo, Boots))
    BY <1>3, <1>5, <2>2, <2>4, <2>5 DEF t
  <2> QED
    BY <1>1, <1>4, <2>2, <2>6, LoadedKeeps
<1>9. ASSUME proc' = [proc EXCEPT !.todo = <<Last(@)>>], Head(proc.todo) \in Late
      PROVE  Loaded'
  <2>1. NewProc(proc.does, <<Last(proc.todo)>>, proc.merged, proc.code)
    BY <1>4, <1>9, Moves
  <2>2. proc'.does = proc.does /\ proc'.code = proc.code
    BY <2>1, NewProcIs
  <2>3. ASSUME NEW i \in 1..Len(proc.todo) PROVE proc.todo[i] \in Late
    <3>1. Len(proc.todo) \in Nat \ {0} /\ Head(proc.todo) = proc.todo[1] /\ 1 \in 1..Len(proc.todo)
      BY <1>4
    <3>2. i = 1 \/ 1 < i
      OBVIOUS
    <3> QED
      BY <1>4, <1>9, <3>1, <3>2 DEF InstallOrder, LateLast
  <2>4. \A step \in Late : step[1] \notin Regs \cup Ups \cup Fells \cup Boots
    BY DEF Late, FileOps, Regs, Ups, Fells, Boots
  <2>5. ~Ahead(Regs) /\ ~Ahead(Ups) /\ ~Ahead(Fells) /\ ~Ahead(Boots)
    BY <2>3, <2>4 DEF Ahead, Has
  <2> QED
    BY <1>1, <1>4, <2>2, <2>5, LoadedKeeps
<1>10. ASSUME NEW f, NEW m, NEW c,
              NewProc(proc.does, <<<<"noted", f>>>> \o Tail(proc.todo), m, proc.code)
       PROVE  Loaded'
  <2> DEFINE x == <<"noted", f>>
             T == AllSteps \cup {x}
             u == <<x>> \o Tail(proc.todo)
  <2>1. proc'.does = proc.does /\ proc'.todo = u /\ proc'.code = proc.code
    <3>1. NewProc(proc.does, u, m, proc.code)
      BY <1>10
    <3> HIDE DEF u
    <3> QED
      BY <3>1, NewProcIs
  <2>2. <<x>> \in Seq(T) /\ Tail(proc.todo) \in Seq(T)
    BY <1>4
  <2> HIDE DEF x, T
  <2>3. \A ops : Has(Tail(proc.todo), ops) => Has(u, ops)
    BY <2>2, CatHas
  <2> HIDE DEF u
  <2>4. (Ahead(Regs) => Has(proc'.todo, Regs)) /\ (Ahead(Ups) => Has(proc'.todo, Ups))
        /\ (Ahead(Fells) => Has(proc'.todo, Fells)) /\ (Ahead(Boots) => Has(proc'.todo, Boots))
    BY <1>3, <1>5, <2>1, <2>3
  <2> QED
    BY <1>1, <1>4, <2>1, <2>4, LoadedKeeps
<1>11. GoesOn => Loaded'
  <2>1. GoesOn => NewProc(proc.does, Tail(proc.todo), proc.merged, proc.code)
    BY <1>4, Moves
  <2> QED
    BY <1>6, <2>1
<1>12. ASSUME NEW f, Now("write", f), f # "unit" PROVE Head(proc.todo)[2] # "unit" /\ op = "write"
  BY <1>4, <1>12 DEF Now
<1>13. ASSUME NEW f \in {"entry", "login"}, Now("write", f) PROVE Head(proc.todo) \in Late
  <2>1. Head(proc.todo) = <<"write", f>> /\ "write" \in FileOps
    BY <1>13 DEF Now, FileOps
  <2>2. Head(proc.todo) \in FileOps \X {"entry", "login"}
    BY <2>1
  <2> QED
    BY <2>2 DEF Late
<1>14. CASE WritesConfig \/ InstallCommand \/ EnsureApportIgnore \/ WritesUnit
  BY <1>7, <1>8, <1>11, <1>12, <1>14
  DEF WritesConfig, InstallCommand, EnsureApportIgnore, WritesUnit, Written
<1>15. CASE WritesEntry \/ WritesLogin
  BY <1>8, <1>9, <1>11, <1>12, <1>13, <1>15 DEF WritesEntry, WritesLogin, Written
<1>16. CASE RecordReads
  <2> DEFINE f == Head(proc.todo)[2]
  <2>1. \/ proc' = [proc EXCEPT !.merged = list \cup {f}, !.todo = <<<<"noted", f>>>> \o Tail(@)]
        \/ proc' = [proc EXCEPT !.code = 1, !.todo = Tail(@)]
    BY <1>16 DEF RecordReads
  <2> HIDE DEF f
  <2>2. \/ NewProc(proc.does, <<<<"noted", f>>>> \o Tail(proc.todo), list \cup {f}, proc.code)
        \/ NewProc(proc.does, Tail(proc.todo), proc.merged, 1)
    BY <1>4, <2>1, Moves
  <2> QED
    BY <1>6, <1>10, <2>2
<1>17. CASE RecordWrites
  <2>1. \E c \in {proc.code, 1} : NewProc(proc.does, Tail(proc.todo), {}, c)
    BY <1>4, <1>17, Moves DEF RecordWrites
  <2> QED
    BY <1>6, <2>1
<1> QED
  BY <1>14, <1>15, <1>16, <1>17 DEF WriteStep, NoteStep

LEMMA NextHas ==
  ASSUME NEW S, NEW s \in Seq(S), NEW op, NextIs(s, 1, Do(op))
  PROVE  Has(Tail(s), {op})
<1>1. 1 < Len(s) /\ s[2] = Do(op)
  BY DEF NextIs
<1>2. Len(s) \in Nat /\ s # <<>>
  BY <1>1
<1>3. Len(Tail(s)) = Len(s) - 1
  BY <1>2
<1>4. 1 \in 1..Len(Tail(s))
  BY <1>1, <1>2, <1>3
<1>5. Tail(s)[1] = s[2]
  BY <1>2, <1>3, <1>4
<1>6. Tail(s)[1][1] \in {op}
  BY <1>1, <1>5, DoIs
<1> QED
  BY <1>4, <1>6 DEF Has

LEMMA ServiceLoaded ==
  ASSUME TypeInv, Loaded, ServiceStep
  PROVE  Loaded'
<1>1. ProcType /\ UNCHANGED disk
  BY DEF TypeInv, ServiceStep, LoadStep, EnableNow, Restart, Bootout, Bootstrap, CreateTask,
         EndTask, RunTask, Unregister, Forget, StopService, OnlyService, installation
<1>2. ASSUME LoadFails \/ Fails PROVE Loaded'
  <2>1. \E t : NewProc(proc.does, t, proc.merged, 1)
    BY <1>1, <1>2, Moves
  <2>2. proc'.code = 1
    BY <2>1, NewProcIs
  <2> QED
    BY <2>2 DEF Loaded
<1>3. ASSUME NEW op, At(op), GoesOn
      PROVE  /\ proc'.does = proc.does /\ proc'.code = proc.code /\ (Installing' <=> Installing)
             /\ proc'.todo = Tail(proc.todo)
             /\ \A ops : Ahead(ops) <=> op \in ops \/ Has(proc'.todo, ops)
  <2>1. NewProc(proc.does, Tail(proc.todo), proc.merged, proc.code)
    BY <1>1, <1>3, Moves
  <2>2. proc'.does = proc.does /\ proc'.code = proc.code /\ proc'.todo = Tail(proc.todo)
    BY <2>1, NewProcIs
  <2>3. \A ops : Ahead(ops) <=> op \in ops \/ Has(Tail(proc.todo), ops)
    BY <1>1, <1>3, HeadIsAhead
  <2> QED
    BY <2>2, <2>3 DEF Installing
<1>4. ASSUME NEW r, NEW u, NEW e \in BOOLEAN, Manages(r, u, e)
      PROVE  /\ GoesOn /\ service'.reg = r /\ service'.up = u
             /\ IF e THEN core'.on = FALSE ELSE UNCHANGED core
             /\ UNCHANGED ignored
  <2>1. NoCore.on = FALSE
    BY DEF NoCore, Fresh
  <2> QED
    BY <1>4, <2>1 DEF Manages
<1>5. ASSUME ~Installing' PROVE Loaded'
  BY <1>5 DEF Loaded
<1>6. /\ \A op : op \in Regs <=> op \in {"enable", "bootstrap", "create"}
      /\ \A op : op \in Ups <=> op \in {"enable", "bootstrap", "run"}
      /\ \A op : op \in Fells <=> op \in {"restart", "bootout", "end"}
      /\ \A op : op \in Boots <=> op = "bootstrap"
  BY DEF Regs, Ups, Fells, Boots
<1>7. Loaded <=> (Installing /\ proc.code = 0 =>
                    /\ Ahead(Regs) \/ service.reg
                    /\ Ahead(Ups) \/ service.up
                    /\ \/ Ahead(Fells) \/ (core.on => core.bits = disk) \/ ignored
                       \/ Ahead(Boots) /\ service.reg)
  BY DEF Loaded, Regs, Ups, Fells, Boots
<1>8. Loaded' <=> (Installing' /\ proc'.code = 0 =>
                    /\ Has(proc'.todo, Regs) \/ service'.reg
                    /\ Has(proc'.todo, Ups) \/ service'.up
                    /\ \/ Has(proc'.todo, Fells) \/ (core'.on => core'.bits = disk') \/ ignored'
                       \/ Has(proc'.todo, Boots) /\ service'.reg)
  BY DEF Loaded, Ahead, Regs, Ups, Fells, Boots
<1>9. CASE EnableNow
  <2>1. CASE Manages(TRUE, TRUE, FALSE)
    <3>1. /\ At("enable") /\ GoesOn /\ service'.reg = TRUE /\ service'.up = TRUE
          /\ UNCHANGED <<core, ignored>>
      BY <1>4, <1>9, <2>1 DEF EnableNow
    <3> QED
      BY <1>1, <1>3, <1>6, <1>7, <1>8, <3>1
  <2> QED
    BY <1>2, <1>9, <2>1 DEF EnableNow
<1>10. CASE Restart
  <2>1. CASE Manages(service.reg, TRUE, TRUE)
    <3>1. /\ At("restart") /\ GoesOn /\ service'.reg = service.reg /\ service'.up = TRUE
          /\ core'.on = FALSE /\ UNCHANGED ignored
      BY <1>4, <1>10, <2>1 DEF Restart
    <3> QED
      BY <1>1, <1>3, <1>6, <1>7, <1>8, <3>1
  <2> QED
    BY <1>2, <1>10, <2>1 DEF Restart
<1>11. CASE Bootout
  <2>1. At("bootout") /\ GoesOn /\ (core'.on = FALSE \/ (service.reg /\ UNCHANGED service))
    BY <1>4, <1>11 DEF Bootout
  <2>2. Installing
    BY <1>1, <2>1, WhoIsAt DEF RemoveOps
  <2>3. Has(proc'.todo, {"bootstrap"})
    <3> DEFINE s == proc.todo
    <3>1. InstallOrder(s) /\ s # <<>> /\ Head(s)[1] = "bootout" /\ s \in Seq(AllSteps)
      BY <1>1, <2>1, <2>2, AtIs
    <3>2. Len(s) \in Nat \ {0} /\ Head(s) = s[1] /\ 1 \in 1..Len(s)
      BY <3>1
    <3>3. NextIs(s, 1, Do("bootstrap"))
      BY <3>1, <3>2 DEF InstallOrder, Follows
    <3>4. Has(Tail(s), {"bootstrap"})
      BY <3>1, <3>3, NextHas
    <3>5. proc'.todo = Tail(s)
      BY <2>1, <1>3
    <3> QED
      BY <3>4, <3>5
  <2>4. Has(proc'.todo, Regs) /\ Has(proc'.todo, Ups) /\ Has(proc'.todo, Boots)
    BY <1>6, <2>3 DEF Has
  <2> QED
    BY <1>8, <2>1, <2>4
<1>12. CASE Bootstrap
  <2>1. CASE ~service.reg /\ Manages(TRUE, TRUE, FALSE)
    <3>1. /\ At("bootstrap") /\ GoesOn /\ service'.reg = TRUE /\ service'.up = TRUE
          /\ UNCHANGED <<core, ignored>> /\ ~service.reg
      BY <1>4, <1>12, <2>1 DEF Bootstrap
    <3> QED
      BY <1>1, <1>3, <1>6, <1>7, <1>8, <3>1
  <2> QED
    BY <1>2, <1>12, <2>1 DEF Bootstrap
<1>13. CASE CreateTask
  <2>1. CASE Manages(TRUE, service.up, FALSE)
    <3>1. /\ At("create") /\ GoesOn /\ service'.reg = TRUE /\ service'.up = service.up
          /\ UNCHANGED <<core, ignored>>
      BY <1>4, <1>13, <2>1 DEF CreateTask
    <3> QED
      BY <1>1, <1>3, <1>6, <1>7, <1>8, <3>1
  <2> QED
    BY <1>2, <1>13, <2>1 DEF CreateTask
<1>14. CASE RunTask
  <2>1. CASE Manages(service.reg, TRUE, FALSE)
    <3>1. /\ At("run") /\ GoesOn /\ service'.reg = service.reg /\ service'.up = TRUE
          /\ UNCHANGED <<core, ignored>>
      BY <1>4, <1>14, <2>1 DEF RunTask
    <3> QED
      BY <1>1, <1>3, <1>6, <1>7, <1>8, <3>1
  <2> QED
    BY <1>2, <1>14, <2>1 DEF RunTask
<1>15. CASE EndTask
  <2>1. CASE Manages(service.reg, FALSE, TRUE)
    <3>1. At("end") /\ GoesOn /\ service'.reg = service.reg /\ core'.on = FALSE
      BY <1>4, <1>15, <2>1 DEF EndTask
    <3>2. CASE Installing
      <4>1. Has(proc'.todo, {"run"})
        <5> DEFINE s == proc.todo
        <5>1. InstallOrder(s) /\ s # <<>> /\ Head(s)[1] = "end" /\ s \in Seq(AllSteps)
          BY <1>1, <3>1, <3>2, AtIs
        <5>2. Len(s) \in Nat \ {0} /\ Head(s) = s[1] /\ 1 \in 1..Len(s)
          BY <5>1
        <5>3. NextIs(s, 1, Do("run"))
          BY <5>1, <5>2 DEF InstallOrder, Follows
        <5>4. Has(Tail(s), {"run"})
          BY <5>1, <5>3, NextHas
        <5>5. proc'.todo = Tail(s)
          BY <3>1, <1>3
        <5> QED
          BY <5>4, <5>5
      <4>2. Has(proc'.todo, Ups)
        BY <1>6, <4>1 DEF Has
      <4> QED
        BY <1>3, <1>6, <1>7, <1>8, <3>1, <4>2
    <3>3. CASE ~Installing
      BY <1>3, <1>5, <3>1, <3>3
    <3> QED
      BY <3>2, <3>3
  <2>2. CASE Ignores
    <3>1. At("end") /\ GoesOn /\ ignored' = TRUE /\ UNCHANGED service
      BY <1>15, <2>2 DEF EndTask, Ignores
    <3> QED
      BY <1>3, <1>6, <1>7, <1>8, <3>1
  <2> QED
    BY <1>2, <1>15, <2>1, <2>2 DEF EndTask
<1>16. CASE Unregister \/ Forget
  <2>1. CASE GoesOn
    <3>1. \E op \in {"unregister", "forget"} : At(op)
      BY <1>16 DEF Unregister, Forget
    <3>2. ~Installing
      BY <1>1, <3>1, WhoIsAt DEF SetupOps, FileOps, LoadOps
    <3> QED
      BY <1>3, <1>5, <2>1, <3>1, <3>2
  <2> QED
    BY <1>2, <1>16, <2>1 DEF Unregister, Forget, Manages, Ignores
<1>17. CASE StopService
  <2>1. proc'.does = "idle"
    BY <1>1, <1>17, Moves, NewProcIs DEF StopService
  <2> QED
    BY <1>5, <2>1 DEF Installing
<1> QED
  BY <1>9, <1>10, <1>11, <1>12, <1>13, <1>14, <1>15, <1>16, <1>17 DEF ServiceStep, LoadStep

LEMMA RestLoaded ==
  ASSUME TypeInv, Loaded, OtherStep \/ RemovalStep \/ Ends \/ Killed \/ Beginning
  PROVE  Loaded'
<1>1. ProcType
  BY DEF TypeInv
<1>2. ASSUME ~Installing' PROVE Loaded'
  BY <1>2 DEF Loaded
<1>3. ASSUME proc'.code # 0 PROVE Loaded'
  BY <1>3 DEF Loaded
<1>4. ASSUME proc'.does \in {"idle", "ended", "remove", "self"} PROVE Loaded'
  BY <1>2, <1>4 DEF Installing
<1>5. CASE OtherStep
  <2>1. UNCHANGED <<disk, service, core, ignored>>
    BY <1>5 DEF OtherStep, LooksForPrograms, ProxyInstall, ProxyUninstall, StopsApp, StartsApp,
       WaitsForPort, AsksSecrets, OnlyProc, OnlyApp, installation, running
  <2> DEFINE Ops == {"programs", "proxy", "unproxy", "stopApp", "startApp", "port", "asks"}
  <2>2. \E op \in Ops : At(op) /\ (GoesOn \/ Fails \/ GivesUp \/ \E c \in {1, 69} : Exits(c))
    BY <1>5 DEF OtherStep, LooksForPrograms, ProxyInstall, ProxyUninstall, StopsApp, StartsApp,
       WaitsForPort, AsksSecrets, ReinstallNeededExit
  <2>3. Ops \cap (Regs \cup Ups \cup Fells) = {}
    BY DEF Regs, Ups, Fells
  <2> HIDE DEF Ops
  <2>4. \/ GoesOn /\ NewProc(proc.does, Tail(proc.todo), proc.merged, proc.code)
        \/ \E c \in {1, 69} : \E t : NewProc(proc.does, t, proc.merged, c)
    <3>1. GoesOn => NewProc(proc.does, Tail(proc.todo), proc.merged, proc.code)
      BY <1>1, Moves
    <3>2. Fails \/ GivesUp => \E t : NewProc(proc.does, t, proc.merged, 1)
      BY <1>1, Moves
    <3>3. \A c \in {1, 69} : Exits(c) => NewProc(proc.does, <<>>, proc.merged, c)
      BY <1>1, Moves
    <3> QED
      BY <2>2, <3>1, <3>2, <3>3, Zenon
  <2>5. CASE NewProc(proc.does, Tail(proc.todo), proc.merged, proc.code)
    <3>1. /\ proc'.does = proc.does /\ proc'.todo = Tail(proc.todo)
          /\ proc'.code = proc.code
      BY <2>5, NewProcIs
    <3> QED
      BY <2>1, <2>2, <2>3, <3>1, OnwardLoaded
  <2>6. CASE \E c \in {1, 69} : \E t : NewProc(proc.does, t, proc.merged, c)
    <3> PICK c \in {1, 69} : \E t : NewProc(proc.does, t, proc.merged, c)
      BY <2>6
    <3>1. proc'.code = c
      BY NewProcIs
    <3> QED
      BY <1>3, <3>1
  <2> QED
    BY <2>4, <2>5, <2>6
<1>6. CASE RemovalStep
  <2>1. \E op \in {"unlink", "delete", "unlist", "unroot"} : At(op)
    BY <1>6 DEF RemovalStep, Unlinks, Deletes, RemovesList, RemovesRoot
  <2>2. proc.does \in {"remove", "self"}
    BY <1>1, <2>1, WhoIsAt DEF SetupOps, FileOps, LoadOps, Removing
  <2>3. \/ GoesOn \/ Fails \/ GivesUp \/ UNCHANGED proc
        \/ proc' = [proc EXCEPT !.merged = {}, !.todo = Tail(@)]
        \/ \E f : proc' = [proc EXCEPT !.merged = @ \cup {f}]
    BY <1>6 DEF RemovalStep, Unlinks, Deletes, RemovesList, RemovesRoot
  <2>4. UNCHANGED proc \/ \E t, m, c : NewProc(proc.does, t, m, c)
    BY <1>1, <2>3, Moves
  <2>5. proc'.does = proc.does
    BY <2>4, NewProcIs
  <2> QED
    BY <1>4, <2>2, <2>5
<1>7. CASE Ends \/ Killed
  <2>1. proc' = Ended \/ \E c : proc' = [Ended EXCEPT !.code = c]
    BY <1>7 DEF Ends, Killed
  <2>2. \E c : \E d \in {"idle", "ended"} : NewProc(d, <<>>, {}, c)
    BY <1>1, <2>1, Moves
  <2>3. proc'.does \in {"idle", "ended"}
    BY <2>2, NewProcIs
  <2> QED
    BY <1>4, <2>3
<1>8. CASE UninstallBegins \/ RemoveBegins
  <2>1. \E t : \E d \in {"remove", "self"} : NewProc(d, t, {}, 0)
    BY <1>1, <1>8, Moves DEF UninstallBegins, RemoveBegins
  <2>2. proc'.does \in {"remove", "self"}
    BY <2>1, NewProcIs
  <2> QED
    BY <1>4, <2>2
<1>9. CASE InstallBegins
  <2>1. NewProc("install", SetupSteps(FALSE), {}, 0)
    BY <1>1, <1>9, Moves DEF InstallBegins
  <2>2. proc'.todo = SetupSteps(FALSE)
    BY <2>1, NewProcIs
  <2>3. /\ Has(proc'.todo, {"enable", "bootstrap", "create"})
        /\ Has(proc'.todo, {"enable", "bootstrap", "run"})
        /\ Has(proc'.todo, {"restart", "bootout", "end"})
    BY <2>2, SetupOrder DEF TypeInv, GivenType
  <2> QED
    BY <2>3 DEF Loaded, Ahead
<1> QED
  BY <1>5, <1>6, <1>7, <1>8, <1>9 DEF Beginning

LEMMA CoreLoaded ==
  ASSUME TypeInv, Loaded, CoreStep \/ Around
  PROVE  Loaded'
<1>1. ProcType /\ CoreType /\ ServiceType
  BY DEF TypeInv
<1>2. UNCHANGED disk
  BY DEF CoreStep, CoreStarts, CoreEnds, Attempts, RequestRepair, StartRepair, WatchRepair, Around,
         AssistantWrites, StartServiceIfDown, ProgramGoes, OnlyCore, installation
<1>3. ASSUME proc' = Idle PROVE Loaded'
  <2>1. proc'.does = "idle"
    BY <1>3 DEF Idle
  <2> QED
    BY <2>1 DEF Loaded, Installing
<1>4. ASSUME UNCHANGED <<proc, ignored>>, service.reg => service'.reg, service.up => service'.up,
             core'.on => (core.on /\ core'.bits = core.bits) \/ core'.bits = disk
      PROVE  Loaded'
  BY <1>2, <1>4 DEF Loaded, Installing, Ahead
<1>5. CASE CoreStarts
  <2>1. core'.bits = disk /\ UNCHANGED <<proc, ignored>> /\ UNCHANGED service
    BY <1>5 DEF CoreStarts, Fresh, OnlyCore
  <2> QED
    BY <1>4, <2>1
<1>6. CASE CoreEnds
  <2>1. core'.on = FALSE /\ UNCHANGED service /\ UNCHANGED ignored
    BY <1>6 DEF CoreEnds, NoCore, Fresh, OnlyCore
  <2> QED
    BY <1>3, <1>4, <1>6, <2>1 DEF CoreEnds
<1>7. CASE Attempts \/ RequestRepair
  <2>1. /\ core'.on = core.on /\ core'.bits = core.bits
        /\ UNCHANGED <<proc, ignored>> /\ UNCHANGED service
    BY <1>1, <1>7 DEF Attempts, RequestRepair, CoreType, OnlyCore
  <2> QED
    BY <1>4, <2>1
<1>8. CASE StartRepair
  <2>1. core'.on = core.on /\ core'.bits = core.bits /\ UNCHANGED service
    BY <1>1, <1>8 DEF StartRepair, CoreType, OnlyCore
  <2>2. CASE UNCHANGED <<proc, ignored>>
    BY <1>4, <2>1, <2>2
  <2>3. CASE Begins("repair", SetupSteps(TRUE))
    <3>1. NewProc("repair", SetupSteps(TRUE), {}, 0)
      BY <1>1, <2>3, Moves
    <3>2. proc'.todo = SetupSteps(TRUE)
      BY <3>1, NewProcIs
    <3>3. /\ Has(proc'.todo, {"enable", "bootstrap", "create"})
          /\ Has(proc'.todo, {"enable", "bootstrap", "run"})
          /\ Has(proc'.todo, {"restart", "bootout", "end"})
      BY <3>2, SetupOrder DEF TypeInv, GivenType
    <3> QED
      BY <3>3 DEF Loaded, Ahead
  <2> QED
    BY <1>8, <2>2, <2>3 DEF StartRepair, RepairCommand
<1>9. CASE WatchRepair
  BY <1>3, <1>9 DEF WatchRepair
<1>10. CASE AssistantWrites \/ ProgramGoes
  <2>1. UNCHANGED <<core, service, proc, ignored>>
    BY <1>10 DEF AssistantWrites, ProgramGoes, running
  <2> QED
    BY <1>4, <2>1
<1>11. CASE StartServiceIfDown
  <2>1. UNCHANGED <<core, proc, ignored>> /\ service' = [reg |-> service.reg \/ mac, up |-> TRUE]
    BY <1>11 DEF StartServiceIfDown
  <2>2. service.reg => service'.reg
    BY <2>1
  <2>3. service'.up
    BY <2>1
  <2> QED
    BY <1>4, <2>1, <2>2, <2>3
<1> QED
  BY <1>5, <1>6, <1>7, <1>8, <1>9, <1>10, <1>11 DEF CoreStep, Around

LEMMA LoadedNext == TypeInv /\ Loaded /\ Next => Loaded'
BY NextIsOf, WriteLoaded, ServiceLoaded, RestLoaded, CoreLoaded

-----------------------------------------------------------------------------
(* A removal takes down what it has behind it. *)

\* A step leaves the process what it is, or it was the last of the core's own removal.
LEMMA StepDoes ==
  ASSUME TypeInv, WriteStep \/ NoteStep \/ ServiceStep \/ OtherStep \/ RemovalStep
  PROVE  proc'.does \in {proc.does, "idle"}
<1>1. ProcType
  BY DEF TypeInv
<1>2. \/ GoesOn \/ Fails \/ GivesUp \/ Skips \/ UNCHANGED proc \/ LoadFails \/ proc' = Idle
      \/ \E c : Exits(c)
      \/ proc' = [proc EXCEPT !.todo = <<Last(@)>>]
      \/ \E f : proc' = [proc EXCEPT !.merged = list \cup {f},
                                     !.todo = <<<<"noted", f>>>> \o Tail(@)]
      \/ proc' = [proc EXCEPT !.code = 1, !.todo = Tail(@)]
      \/ proc' = [proc EXCEPT !.merged = {}, !.todo = Tail(@)]
      \/ proc' = [proc EXCEPT !.merged = {}, !.code = 1, !.todo = Tail(@)]
      \/ \E f : proc' = [proc EXCEPT !.merged = @ \cup {f}]
  <2>1. CASE WriteStep \/ NoteStep \/ RemovalStep
    BY <2>1
    DEF WriteStep, NoteStep, RemovalStep, WritesConfig, InstallCommand, EnsureApportIgnore,
        WritesUnit, WritesEntry, WritesLogin, RecordReads, RecordWrites, Unlinks, Deletes,
        RemovesList, RemovesRoot, Written
  <2>2. CASE ServiceStep
    BY <2>2
    DEF ServiceStep, LoadStep, EnableNow, Restart, Bootout, Bootstrap, CreateTask, EndTask,
        RunTask, Unregister, Forget, StopService, Manages, Ignores
  <2>3. CASE OtherStep
    BY <2>3
    DEF OtherStep, LooksForPrograms, ProxyInstall, ProxyUninstall, StopsApp, StartsApp,
        WaitsForPort, AsksSecrets
  <2> QED
    BY <2>1, <2>2, <2>3
<1>3. UNCHANGED proc \/ \E t, m, c : NewProc(proc.does, t, m, c) \/ NewProc("idle", t, m, c)
  BY <1>1, <1>2, Moves
<1> QED
  BY <1>3, NewProcIs

\* Neither the service nor the core is there if it was not before.
Lessens ==
    (service'.reg => service.reg) /\ (service'.up => service.up) /\ (core'.on => core.on)
\* A step whose failure is ignored, or that is none of these operations and starts nothing.
Settles(op, ops) == ignored' \/ (op \notin ops /\ Lessens /\ UNCHANGED ignored)

\* A removal that goes on to its next step, by what that step does.
LEMMA OnwardTaken ==
  ASSUME TypeInv, TakenDown, Removing, NEW op, At(op),
         proc'.does = proc.does, proc'.todo = Tail(proc.todo), proc'.code = 0 => proc.code = 0,
         proc'.code = 0 => ~app' \/ (app /\ op # "stopApp"),
         proc'.code = 0 => "unit" \notin files' \/ ("unit" \in files /\ op # "unlink"),
         proc'.code = 0 => list' = {} \/ (list # {} /\ op # "unlist"),
         proc'.code = 0 => ~root' \/ (root /\ op # "unroot"),
         UNCHANGED system,
         proc'.code = 0 => \/ proc.does = "self" \/ Settles(op, {"unregister"})
                           \/ (~service'.reg /\ ~service'.up /\ ~core'.on),
         proc'.code = 0 => \/ proc.does = "self" \/ ~windows \/ Settles(op, {"end"})
                           \/ (~service'.up /\ ~core'.on),
         proc'.code = 0 => \/ proc.does = "remove" \/ ~linux \/ Settles(op, {"forget"})
                           \/ ~service'.reg,
         op # "delete" => (list \cap files \subseteq lost => list' \cap files' \subseteq lost'),
         op = "delete" => list' \cap files' \subseteq lost',
         root' = root \/ (op = "unroot" /\ (proc'.code = 0 \/ root'))
  PROVE  TakenDown'
<1>1. ProcType /\ RemoveOrder(proc.todo) /\ proc.todo # <<>>
  BY AtIs DEF TypeInv
<1>2. \A ops : Ahead(ops) <=> op \in ops \/ Has(proc'.todo, ops)
  BY <1>1, HeadIsAhead
<1>3. \A ops : Ahead(ops)' <=> Has(proc'.todo, ops)
  BY DEF Ahead
<1>4. Stopped' \/ proc'.code # 0
  BY <1>2, <1>3 DEF TakenDown, Stopped
<1>5. Unlinked' \/ proc'.code # 0
  BY <1>2, <1>3 DEF TakenDown, Unlinked
<1>6. Emptied' \/ proc'.code # 0
  BY <1>2, <1>3 DEF TakenDown, Emptied
<1>7. Rootless' \/ proc'.code # 0
  BY <1>2, <1>3 DEF TakenDown, Rootless
<1>8. (Unregistered' /\ Halted' /\ Forgotten') \/ proc'.code # 0
  <2> SUFFICES ASSUME proc'.code = 0 PROVE Unregistered' /\ Halted' /\ Forgotten'
    OBVIOUS
  <2>1. Unregistered /\ Halted /\ Forgotten
    BY DEF TakenDown
  <2>2. (windows' <=> windows) /\ (linux' <=> linux)
    BY DEF windows, linux
  <2>3. Unregistered'
    BY <1>2, <1>3, <2>1 DEF Unregistered, Settles, Lessens
  <2>4. Halted'
    BY <1>2, <1>3, <2>1, <2>2 DEF Halted, Settles, Lessens
  <2>5. Forgotten'
    BY <1>2, <1>3, <2>1, <2>2 DEF Forgotten, Settles, Lessens
  <2> QED
    BY <2>3, <2>4, <2>5
<1>9. Deleted'
  BY <1>2, <1>3 DEF TakenDown, Deleted
<1>10. WhoseSteps'
  BY <1>2, <1>3 DEF TakenDown, WhoseSteps
<1>11. AppFirst'
  <2> SUFFICES ASSUME proc.does = "remove", Has(proc'.todo, {"stopApp"})
               PROVE  /\ Has(proc'.todo, {"unregister"})
                      /\ windows => Has(proc'.todo, {"end"})
    BY <1>3 DEF AppFirst, windows
  <2>1. Ahead({"stopApp"}) /\ Ahead({"unregister"}) /\ (windows => Ahead({"end"}))
    BY <1>2 DEF TakenDown, AppFirst
  <2>2. op # "unregister" /\ op # "end"
    <3> SUFFICES ASSUME op \in {"unregister", "end"} PROVE FALSE
      OBVIOUS
    <3>1. "stopApp" \in RemoveOps /\ Place("stopApp") <= Place(op)
      BY Places
    <3>2. ~Has(Tail(proc.todo), {"stopApp"})
      BY <1>1, <3>1, Behind
    <3> QED
      BY <3>2
  <2> QED
    BY <1>2, <2>1, <2>2
<1>12. Finished'
  <2> SUFFICES ASSUME proc.does = "remove", ~root' PROVE proc'.code = 0 /\ proc'.todo = <<>>
    BY DEF Finished
  <2>1. root
    BY <1>1 DEF TakenDown, Finished
  <2>2. op = "unroot" /\ proc'.code = 0
    BY <2>1
  <2>3. ~Has(Tail(proc.todo), {"stop"})
    <3>1. ~Has(Tail(proc.todo), {"forget", "stop"})
      BY <1>2 DEF TakenDown, WhoseSteps
    <3> QED
      BY <3>1 DEF Has
  <2>4. ASSUME NEW o \in RemoveOps PROVE ~Has(Tail(proc.todo), {o})
    <3>1. o = "stop" \/ Place(o) <= Place(op)
      BY <2>2, Places DEF RemoveOps
    <3> QED
      BY <1>1, <2>3, <3>1, Behind
  <2> DEFINE t == Tail(proc.todo)
  <2>5. t \in Seq(Removals)
    BY <1>1 DEF RemoveOrder
  <2> HIDE DEF t
  <2>6. ASSUME t # <<>> PROVE FALSE
    <3>1. 1 \in 1..Len(t) /\ t[1] \in Removals
      BY <2>5, <2>6
    <3>2. t[1][1] \in RemoveOps
      BY <3>1, PlaceType
    <3>3. Has(t, {t[1][1]})
      BY <3>1 DEF Has
    <3> QED
      BY <2>4, <3>2, <3>3 DEF t
  <2> QED
    BY <2>2, <2>6 DEF t
<1> QED
  BY <1>4, <1>5, <1>6, <1>7, <1>8, <1>9, <1>10, <1>11, <1>12 DEF TakenDown, Removing

\* While a removal is where it was, what is gone stays gone.
LEMMA StaysTaken ==
  ASSUME TakenDown,
         proc'.does = proc.does, proc'.todo = proc.todo, proc'.code = proc.code,
         UNCHANGED <<root, list, ignored, system>>, app' => app,
         "unit" \in files' => "unit" \in files,
         Removing => (list \cap files \subseteq lost => list \cap files' \subseteq lost'),
         \/ /\ service'.reg => service.reg
            /\ service'.up => service.up
            /\ core'.on => core.on
         \/ /\ linux /\ service'.reg => service.reg
            /\ proc.does = "remove" /\ proc.code = 0 =>
                 ignored \/ (Ahead({"unregister"}) /\ (windows => Ahead({"end"})))
  PROVE  TakenDown'
<1>1. /\ \A ops : Ahead(ops)' <=> Ahead(ops)
      /\ (windows' <=> windows) /\ (linux' <=> linux)
  BY DEF Ahead, windows, linux
<1>2. ASSUME Removing, proc.code = 0 PROVE Unregistered' /\ Halted' /\ Forgotten'
  BY <1>1, <1>2 DEF TakenDown, Unregistered, Halted, Forgotten
<1> QED
  BY <1>1, <1>2
  DEF TakenDown, Stopped, Unlinked, Emptied, Rootless, Deleted, Finished, AppFirst, WhoseSteps,
      Removing

\* A removal that gives up has removed nothing it needs to run again.
LEMMA GivesUpTaken ==
  ASSUME TypeInv, TakenDown, Removing, proc.todo # <<>>, GivesUp, UNCHANGED root
  PROVE  TakenDown'
<1> DEFINE t == IF proc.does = "self" THEN <<Do("stop")>> ELSE <<>>
<1>1. NewProc(proc.does, t, proc.merged, 1)
  BY Moves DEF TypeInv
<1>2. \A ops : Has(t, ops) => proc.does = "self" /\ "stop" \in ops
  <2>1. "stop" \in RemoveOps
    BY Places
  <2>2. \A ops : Has(<<Do("stop")>>, ops) <=> "stop" \in ops
    BY <2>1, OneStretch
  <2> QED
    BY <2>2, HasNone
<1> HIDE DEF t
<1>3. proc'.does = proc.does /\ proc'.todo = t /\ proc'.code = 1
  BY <1>1, NewProcIs
<1>4. Deleted' /\ AppFirst' /\ WhoseSteps'
  BY <1>2, <1>3 DEF Deleted, AppFirst, WhoseSteps, Ahead
<1>5. Finished'
  BY <1>3 DEF TakenDown, Finished
<1> QED
  BY <1>3, <1>4, <1>5 DEF TakenDown

LEMMA RemovingTaken ==
  ASSUME TypeInv, Account, TakenDown, Removing, ServiceStep \/ OtherStep \/ RemovalStep
  PROVE  TakenDown'
<1>1. ProcType
  BY DEF TypeInv
<1>2. ASSUME NEW op, op \in SetupOps \ RemoveOps, At(op) PROVE FALSE
  BY <1>1, <1>2, WhoIsAt DEF Installing, Removing
<1>3. {"enable", "restart", "bootout", "bootstrap", "create", "run", "programs", "proxy",
       "startApp", "port", "asks"} \subseteq SetupOps \ RemoveOps
  BY DEF SetupOps, RemoveOps, FileOps, LoadOps
<1>4. ASSUME proc'.does = "idle" PROVE TakenDown'
  BY <1>4 DEF TakenDown, Removing
<1>5. ASSUME GoesOn
      PROVE  proc'.does = proc.does /\ proc'.todo = Tail(proc.todo) /\ proc'.code = proc.code
  <2>1. NewProc(proc.does, Tail(proc.todo), proc.merged, proc.code)
    BY <1>1, <1>5, Moves
  <2> QED
    BY <2>1, NewProcIs
<1>6. ASSUME Fails
      PROVE  proc'.does = proc.does /\ proc'.todo = Tail(proc.todo) /\ proc'.code = 1
  <2>1. NewProc(proc.does, Tail(proc.todo), proc.merged, 1)
    BY <1>1, <1>6, Moves
  <2> QED
    BY <2>1, NewProcIs
<1>7. ASSUME NEW r, NEW u, NEW e \in BOOLEAN, Manages(r, u, e)
      PROVE  /\ GoesOn /\ service'.reg = r /\ service'.up = u
             /\ e => core'.on = FALSE
             /\ ~e => UNCHANGED core
             /\ UNCHANGED ignored
  <2>1. NoCore.on = FALSE
    BY DEF NoCore, Fresh
  <2> QED
    BY <1>7, <2>1 DEF Manages
<1>19. ASSUME NEW op, At(op), Ignores, UNCHANGED <<system, app, files, list, lost, root>>,
              op \notin {"stopApp", "unlink", "delete", "unlist", "unroot"}
       PROVE  TakenDown'
  <2>1. GoesOn /\ ignored' = TRUE
    BY <1>19 DEF Ignores
  <2> QED
    BY <1>5, <1>19, <2>1, OnwardTaken DEF Settles
<1>20. ASSUME NEW op, At(op), op \notin {"end", "unregister", "forget"},
              UNCHANGED <<service, core, ignored>>
       PROVE  Settles(op, {"end"}) /\ Settles(op, {"unregister"}) /\ Settles(op, {"forget"})
  BY <1>20 DEF Settles, Lessens
<1>8. CASE EndTask
  <2>1. At("end") /\ (Manages(service.reg, FALSE, TRUE) \/ Ignores)
    BY <1>8 DEF EndTask, Installing, Removing
  <2>2. UNCHANGED <<system, app, files, list, lost, root>>
    BY <1>8 DEF EndTask, OnlyService, fileVars, installation, given
  <2>3. CASE Manages(service.reg, FALSE, TRUE)
    <3>1. service'.reg = service.reg /\ service'.up = FALSE /\ core'.on = FALSE
          /\ UNCHANGED ignored /\ GoesOn
      BY <1>7, <2>3
    <3>2. Settles("end", {"unregister"}) /\ Settles("end", {"forget"})
      BY <3>1 DEF Settles, Lessens
    <3> QED
      BY <1>5, <2>1, <2>2, <3>1, <3>2, OnwardTaken
  <2> QED
    BY <1>19, <2>1, <2>2, <2>3
<1>9. CASE Unregister
  <2>1. UNCHANGED <<system, app, files, list, lost, root>> /\ At("unregister")
    BY <1>9 DEF Unregister, OnlyService, fileVars, installation, given
  <2>2. CASE Manages(FALSE, FALSE, ~windows)
    <3>1. service'.reg = FALSE /\ service'.up = FALSE /\ UNCHANGED ignored /\ GoesOn
          /\ (~windows => core'.on = FALSE) /\ (windows => UNCHANGED core)
      BY <1>7, <2>2, Zenon
    <3>2. proc.does = "remove"
      <4>1. Ahead({"unregister", "end"})
        BY <1>1, <2>1, HeadIsAhead
      <4> QED
        BY <4>1 DEF TakenDown, WhoseSteps, Removing
    <3>3. ~Ahead({"end"})
      <4>1. "end" \in RemoveOps /\ Place("end") <= Place("unregister") /\ "end" # "unregister"
        BY Places
      <4> QED
        BY <1>1, <2>1, <4>1, Behind
    <3>4. windows /\ proc.code = 0 => ignored \/ ~core.on
      BY <3>2, <3>3 DEF TakenDown, Halted
    <3>5. proc.code = 0 => ignored' \/ ~core'.on
      BY <3>1, <3>4
    <3> QED
      BY <1>5, <2>1, <3>1, <3>2, <3>5, OnwardTaken DEF Settles
  <2>3. CASE Fails
    BY <1>6, <2>1, <2>3, OnwardTaken
  <2>4. CASE Ignores
    BY <1>19, <2>1, <2>4
  <2> QED
    BY <1>9, <2>2, <2>3, <2>4 DEF Unregister
<1>10. CASE Forget
  <2>1. UNCHANGED <<system, app, files, list, lost, root>> /\ At("forget")
    BY <1>10 DEF Forget, OnlyService, fileVars, installation, given
  <2>2. proc.does = "self"
    <3>1. Ahead({"forget", "stop"})
      BY <1>1, <2>1, HeadIsAhead
    <3> QED
      BY <3>1 DEF TakenDown, WhoseSteps, Removing
  <2>3. CASE Manages(mac /\ service.reg, service.up, FALSE)
    <3>1. GoesOn /\ (linux => service'.reg = FALSE)
      BY <1>7, <2>3 DEF linux, mac
    <3> QED
      BY <1>5, <2>1, <2>2, <3>1, OnwardTaken
  <2> QED
    BY <1>10, <1>19, <2>1, <2>3 DEF Forget
<1>11. CASE StopService
  <2>1. proc'.does = "idle"
    BY <1>11 DEF StopService, Idle
  <2> QED
    BY <1>4, <2>1
<1>12. CASE ProxyUninstall
  <2>1. At("unproxy")
        /\ UNCHANGED <<system, app, files, list, lost, root, service, core, ignored>>
    BY <1>12 DEF ProxyUninstall, OnlyProc, given, fileVars, installation, running
  <2>2. proc.todo # <<>>
    BY <2>1 DEF At
  <2>3. CASE GivesUp
    BY <2>1, <2>2, <2>3, GivesUpTaken
  <2>4. CASE GoesOn
    BY <1>5, <1>20, <2>1, <2>4, OnwardTaken
  <2>5. CASE Fails
    BY <1>6, <2>1, <2>5, OnwardTaken
  <2> QED
    BY <1>12, <2>3, <2>4, <2>5 DEF ProxyUninstall
<1>13. CASE StopsApp
  <2>1. At("stopApp") /\ GoesOn /\ ~app'
        /\ UNCHANGED <<system, files, list, lost, root, service, core, ignored>>
    BY <1>13 DEF StopsApp, OnlyApp, given, fileVars, installation
  <2> QED
    BY <1>5, <1>20, <2>1, OnwardTaken
<1>14. CASE Unlinks
  <2>1. At("unlink") /\ UNCHANGED <<system, app, list, lost, root, service, core, ignored>>
        /\ files' \subseteq files
    BY <1>14 DEF Unlinks, OnlyFiles, given, installation, running
  <2>2. CASE files' = files \ {"unit"} /\ GoesOn
    <3>1. "unit" \notin files'
      BY <2>2
    <3> QED
      BY <1>5, <1>20, <2>1, <2>2, <3>1, OnwardTaken
  <2>3. CASE Fails
    BY <1>6, <2>1, <2>3, OnwardTaken
  <2> QED
    BY <1>14, <2>2, <2>3 DEF Unlinks
<1>15. CASE Deletes
  <2> DEFINE left == (list \cap files) \ proc.merged
  <2>1. At("delete") /\ UNCHANGED <<system, app, list, root, service, core, ignored>>
    BY <1>15 DEF Deletes, given, installation, running
  <2>2. proc.merged \subseteq lost
    BY DEF Account, Noting
  <2>3. CASE left = {} /\ proc' = [proc EXCEPT !.merged = {}, !.todo = Tail(@)]
             /\ UNCHANGED <<files, lost>>
    <3>1. NewProc(proc.does, Tail(proc.todo), {}, proc.code)
      BY <1>1, <2>3, Moves
    <3>2. /\ proc'.does = proc.does /\ proc'.todo = Tail(proc.todo)
          /\ proc'.code = proc.code
      BY <3>1, NewProcIs
    <3>3. list' \cap files' \subseteq lost'
      BY <2>1, <2>2, <2>3
    <3> QED
      BY <1>20, <2>1, <2>3, <3>2, <3>3, OnwardTaken
  <2>4. CASE \E f \in left : \/ files' = files \ {f} /\ UNCHANGED <<proc, lost>>
                             \/ /\ lost' = lost \cup {f} /\ UNCHANGED files
                                /\ proc' = [proc EXCEPT !.merged = @ \cup {f}]
    <3>1. files' \subseteq files /\ lost \subseteq lost'
      BY <2>4
    <3>2. UNCHANGED proc \/ \E m : NewProc(proc.does, proc.todo, m, proc.code)
      BY <1>1, <2>4, Moves
    <3>3. proc'.does = proc.does /\ proc'.todo = proc.todo /\ proc'.code = proc.code
      BY <3>2, NewProcIs
    <3>4. list \cap files \subseteq lost => list \cap files' \subseteq lost'
      BY <3>1
    <3> QED
      BY <2>1, <3>1, <3>3, <3>4, StaysTaken
  <2> QED
    BY <1>15, <2>3, <2>4 DEF Deletes
<1>16. CASE RemovesList
  <2>1. At("unlist") /\ list' = {}
        /\ UNCHANGED <<system, app, files, lost, root, service, core, ignored>>
    BY <1>16 DEF RemovesList, OnlyList, given, installation, running
  <2>2. proc.todo # <<>>
    BY <2>1 DEF At
  <2>3. CASE GivesUp
    BY <2>1, <2>2, <2>3, GivesUpTaken
  <2>4. CASE GoesOn
    BY <1>5, <1>20, <2>1, <2>4, OnwardTaken
  <2> QED
    BY <1>16, <2>3, <2>4 DEF RemovesList
<1>17. CASE RemovesRoot
  <2>1. At("unroot") /\ root' = (proc.code # 0) /\ GoesOn
        /\ UNCHANGED <<system, app, files, list, lost, service, core, ignored>>
    BY <1>17 DEF RemovesRoot, given, fileVars, running
  <2>2. proc'.code = 0 => ~root'
    BY <1>5, <2>1
  <2>3. proc'.code = 0 \/ root'
    BY <1>5, <2>1
  <2> QED
    BY <1>5, <1>20, <2>1, <2>2, <2>3, OnwardTaken
<1>18. ASSUME LoadStep \/ OtherStep, ~EndTask, ~ProxyUninstall, ~StopsApp PROVE FALSE
  BY <1>2, <1>3, <1>18
  DEF LoadStep, OtherStep, EnableNow, Restart, Bootout, Bootstrap, CreateTask, RunTask,
      LooksForPrograms, ProxyInstall, StartsApp, WaitsForPort, AsksSecrets
<1> QED
  BY <1>8, <1>9, <1>10, <1>11, <1>12, <1>13, <1>14, <1>15, <1>16, <1>17, <1>18
  DEF ServiceStep, RemovalStep

LEMMA LifeTaken ==
  ASSUME TypeInv, TakenDown, Ends \/ Beginning \/ Killed \/ CoreStep \/ Around
  PROVE  TakenDown'
<1>1. ProcType /\ CoreType /\ KnownSystem
  BY DEF TypeInv, GivenType
<1>2. ASSUME proc'.does \in {"idle", "ended", "install", "repair"} PROVE TakenDown'
  BY <1>2 DEF TakenDown, Removing
<1>3. CASE Ends \/ Killed
  <2>1. proc' = Ended \/ \E c : proc' = [Ended EXCEPT !.code = c]
    BY <1>3 DEF Ends, Killed
  <2>2. \E c : \E d \in {"idle", "ended"} : NewProc(d, <<>>, {}, c)
    BY <1>1, <2>1, Moves
  <2>3. proc'.does \in {"idle", "ended"}
    BY <2>2, NewProcIs
  <2> QED
    BY <1>2, <2>3
<1>4. CASE InstallBegins
  <2>1. NewProc("install", SetupSteps(FALSE), {}, 0)
    BY <1>1, <1>4, Moves DEF InstallBegins, Begins
  <2>2. proc'.does = "install"
    BY <2>1, NewProcIs
  <2> QED
    BY <1>2, <2>2
<1>5. ASSUME NEW s, NEW d,
             \/ d = "remove" /\ s = UninstallSteps(ServiceUninstall) /\ root'
             \/ d = "self" /\ s = RemoveSteps,
             Begins(d, s), UNCHANGED system
      PROVE  TakenDown'
  <2>1. NewProc(d, s, {}, 0)
    BY <1>1, <1>5, Moves DEF Begins
  <2>2. proc'.does = d /\ proc'.todo = s
    BY <2>1, NewProcIs
  <2>3. /\ \A op \in {"stopApp", "unlink", "delete", "unlist", "unroot"} : Has(s, {op})
        /\ d = "remove" => /\ Has(s, {"unregister"}) /\ ~Has(s, {"forget", "stop"})
                           /\ windows => Has(s, {"end"})
        /\ d = "self" => Has(s, {"forget"}) /\ ~Has(s, {"unregister", "end"})
    BY <1>1, <1>5, RemovalOrder
  <2>4. (windows' <=> windows) /\ (linux' <=> linux)
    BY <1>5 DEF windows, linux
  <2>5. Stopped' /\ Unlinked' /\ Emptied' /\ Rootless' /\ Deleted'
    BY <1>5, <2>2, <2>3 DEF Stopped, Unlinked, Emptied, Rootless, Deleted, Ahead
  <2>6. Unregistered' /\ Halted' /\ Forgotten'
    BY <1>5, <2>2, <2>3, <2>4 DEF Unregistered, Halted, Forgotten, Ahead
  <2>7. AppFirst' /\ WhoseSteps' /\ Finished'
    BY <1>5, <2>2, <2>3, <2>4 DEF AppFirst, WhoseSteps, Finished, Ahead
  <2> QED
    BY <2>5, <2>6, <2>7 DEF TakenDown
<1>6. CASE UninstallBegins
  <2>1. root' = root /\ root /\ UNCHANGED system
    BY <1>6 DEF UninstallBegins, installation, given
  <2> QED
    BY <1>5, <1>6, <2>1 DEF UninstallBegins
<1>7. CASE RemoveBegins
  BY <1>5, <1>7 DEF RemoveBegins, given
<1>8. ASSUME UNCHANGED <<system, proc, root, list, files, lost, app, service, ignored>>,
             core'.on => core.on \/ service.up
      PROVE  TakenDown'
  <2>1. proc.does = "remove" /\ proc.code = 0 /\ service.up =>
            ignored \/ (Ahead({"unregister"}) /\ (windows => Ahead({"end"})))
    BY DEF TakenDown, Unregistered, Halted, Removing
  <2> QED
    BY <1>8, <2>1, StaysTaken
<1>9. CASE CoreStarts
  <2>1. UNCHANGED <<system, proc, root, list, files, lost, app, service, ignored>> /\ service.up
    BY <1>9 DEF CoreStarts, OnlyCore, given, fileVars, installation
  <2> QED
    BY <1>8, <2>1
<1>10. CASE CoreEnds
  <2>1. UNCHANGED <<system, root, list, files, lost, app, service, ignored>> /\ core.on
        /\ (UNCHANGED proc \/ proc' = Idle)
    BY <1>10 DEF CoreEnds, OnlyCore, given, fileVars, installation
  <2>2. proc' = Idle => proc'.does = "idle"
    BY DEF Idle
  <2> QED
    BY <1>2, <1>8, <2>1, <2>2
<1>11. CASE Attempts \/ RequestRepair \/ ProgramGoes
  <2>1. UNCHANGED <<system, proc, root, list, files, lost, app, service, ignored>>
    BY <1>11
    DEF Attempts, RequestRepair, ProgramGoes, OnlyCore, given, fileVars, installation, running
  <2>2. core'.on => core.on
    BY <1>1, <1>11 DEF Attempts, RequestRepair, ProgramGoes, CoreType, running
  <2> QED
    BY <1>8, <2>1, <2>2
<1>12. CASE StartRepair
  <2>1. proc'.does \in {"idle", "repair"}
    <3>1. CASE UNCHANGED proc
      BY <1>12, <3>1 DEF StartRepair
    <3>2. CASE Begins("repair", RepairCommand)
      <4>1. NewProc("repair", RepairCommand, {}, 0)
        BY <1>1, <3>2, Moves DEF Begins
      <4> QED
        BY <4>1, NewProcIs
    <3> QED
      BY <1>12, <3>1, <3>2 DEF StartRepair
  <2> QED
    BY <1>2, <2>1
<1>13. CASE WatchRepair
  <2>1. proc'.does = "idle"
    BY <1>13 DEF WatchRepair, Idle
  <2> QED
    BY <1>2, <2>1
<1>14. CASE AssistantWrites
  BY <1>14 DEF AssistantWrites, TakenDown, Removing
<1>15. CASE StartServiceIfDown
  <2>1. UNCHANGED <<system, proc, root, list, files, lost, app, core, ignored>> /\ app
        /\ service' = [reg |-> service.reg \/ mac, up |-> TRUE]
    BY <1>15 DEF StartServiceIfDown, given, fileVars, installation
  <2>2. proc.does = "remove" /\ proc.code = 0 =>
            Ahead({"unregister"}) /\ (windows => Ahead({"end"}))
    BY <2>1 DEF TakenDown, Stopped, AppFirst, Removing
  <2>3. linux /\ service'.reg => service.reg
    BY <2>1 DEF linux, mac
  <2> QED
    BY <2>1, <2>2, <2>3, StaysTaken
<1> QED
  BY <1>3, <1>4, <1>6, <1>7, <1>9, <1>10, <1>11, <1>12, <1>13, <1>14, <1>15
  DEF Beginning, CoreStep, Around

LEMMA TakenNext ==
  ASSUME TypeInv, Account, TakenDown, Next
  PROVE  TakenDown'
<1>1. CASE WriteStep \/ NoteStep \/ ServiceStep \/ OtherStep \/ RemovalStep
  <2>1. proc'.does \in {proc.does, "idle"}
    BY <1>1, StepDoes
  <2>2. CASE Removing
    <3>1. ASSUME WriteStep \/ NoteStep PROVE FALSE
      <4>1. \E op \in FileOps : At(op)
        BY <3>1, NowIsAt
        DEF WriteStep, NoteStep, WritesConfig, InstallCommand, EnsureApportIgnore, WritesUnit,
            WritesEntry, WritesLogin, RecordReads, RecordWrites, FileOps
      <4>2. Installing
        BY <4>1, NoteFile DEF TypeInv
      <4> QED
        BY <2>2, <4>2 DEF Installing, Removing
    <3> QED
      BY <1>1, <2>2, <3>1, RemovingTaken
  <2>3. CASE ~Removing
    BY <2>1, <2>3 DEF TakenDown, Removing
  <2> QED
    BY <2>2, <2>3
<1> QED
  BY <1>1, LifeTaken, NextIsOf

-----------------------------------------------------------------------------
(* After a removal nothing is there. *)

LEMMA GoneNext ==
  ASSUME TypeInv, Account, Watched, TakenDown, Gone, Next
  PROVE  Gone'
<1>1. ProcType /\ KnownSystem
  BY DEF TypeInv, GivenType
<1>2. removed => proc.does = "idle" /\ proc.todo = <<>> /\ ~AtWork
  BY <1>1 DEF Gone, ProcType, AtWork, Installing, Removing
<1>3. ASSUME UNCHANGED removed, ~removed PROVE Gone'
  BY <1>3 DEF Gone
<1>4. CASE StopService
  <2> SUFFICES ASSUME proc.code = 0 PROVE Gone'
    BY <1>4 DEF StopService, Gone
  <2>1. At("stop") /\ Removing
    BY <1>1, <1>4, WhoIsAt DEF StopService, SetupOps, FileOps, LoadOps
  <2>2. ASSUME NEW o \in {"stopApp", "forget", "unlink", "unlist", "unroot"} PROVE ~Ahead({o})
    <3>1. o \in RemoveOps /\ Place(o) <= Place("stop") /\ o # "stop"
      BY Places
    <3> QED
      BY <1>1, <2>1, <3>1, Behind
  <2>3. ~app /\ "unit" \notin files /\ list = {} /\ ~root
    BY <2>1, <2>2 DEF TakenDown, Stopped, Unlinked, Emptied, Rootless
  <2>4. files \subseteq theirs \cup lost
    <3>1. ~At("note") /\ ~At("noted")
      BY <2>1 DEF At
    <3>2. files \subseteq theirs \cup lost \cup list \cup {"unit"}
      BY <3>1, Settled
    <3> QED
      BY <2>3, <3>2
  <2>5. linux => ignored \/ ~service.reg
    <3>1. Ahead({"forget", "stop"})
      BY <1>1, <2>1, HeadIsAhead
    <3>2. proc.does = "self"
      BY <2>1, <3>1 DEF TakenDown, WhoseSteps, Removing
    <3> QED
      BY <2>1, <2>2, <3>2 DEF TakenDown, Forgotten
  <2>6. /\ proc'.does = "idle" /\ core'.on = FALSE
        /\ UNCHANGED <<root, app, list, files, theirs, lost>>
    BY <1>4 DEF StopService, Idle, NoCore, Fresh, fileVars, given, installation
  <2>7. ignored' \/ (~service'.reg /\ ~service'.up)
    <3>1. CASE service' = [reg |-> linux /\ service.reg, up |-> FALSE] /\ UNCHANGED ignored
      <4>1. service'.reg = (linux /\ service.reg) /\ service'.up = FALSE
        BY <3>1, Zenon
      <4> QED
        BY <2>5, <3>1, <4>1
    <3> QED
      BY <1>4, <3>1 DEF StopService
  <2> QED
    BY <2>3, <2>4, <2>6, <2>7 DEF Gone
<1>5. CASE Ends
  <2>1. AtWork /\ proc.todo = <<>> /\ ~removed /\ removed' = (proc.does = "remove" /\ ~root)
    BY <1>2, <1>5 DEF Ends
  <2> SUFFICES ASSUME proc.does = "remove", ~root PROVE Gone'
    BY <2>1 DEF Gone
  <2>2. Removing /\ proc.code = 0
    BY DEF Removing, TakenDown, Finished
  <2>3. \A ops : ~Ahead(ops)
    BY <2>1, HasNone DEF Ahead
  <2>4. /\ ~app /\ "unit" \notin files /\ list = {}
        /\ ignored \/ (~service.reg /\ ~service.up /\ ~core.on)
    BY <2>2, <2>3 DEF TakenDown, Stopped, Unlinked, Emptied, Unregistered
  <2>5. ~core.watch
    BY DEF Watched
  <2>6. files \subseteq theirs \cup lost
    <3>1. ~At("note") /\ ~At("noted")
      BY <2>1 DEF At
    <3>2. files \subseteq theirs \cup lost \cup list \cup {"unit"}
      BY <3>1, Settled
    <3> QED
      BY <2>4, <3>2
  <2>7. /\ proc'.does = "idle"
        /\ UNCHANGED <<root, app, list, files, theirs, lost, core, service, ignored>>
    BY <1>5, <2>5 DEF Ends, Ended, Idle, fileVars, given, installation, running
  <2> QED
    BY <2>4, <2>5, <2>6, <2>7 DEF Gone
<1>6. CASE Step /\ ~StopService /\ ~Ends
  <2>1. UNCHANGED removed /\ \E op : At(op)
    BY <1>6, NowIsAt
    DEF Step, LooksForPrograms, WritesConfig, InstallCommand, EnsureApportIgnore, WritesUnit,
        WritesEntry, WritesLogin, RecordReads, RecordWrites, EnableNow, Restart, Bootout, Bootstrap,
        CreateTask, EndTask, RunTask, Unregister, Forget, ProxyInstall, ProxyUninstall, StopsApp,
        StartsApp, WaitsForPort, AsksSecrets, Unlinks, Deletes, RemovesList, RemovesRoot, OnlyFiles,
        OnlyWrites, OnlyList, OnlyProc, OnlyApp, OnlyService
  <2>2. ~removed
    BY <1>2, <2>1 DEF At
  <2> QED
    BY <1>3, <2>1, <2>2
<1>7. CASE Beginning \/ Killed
  <2>1. UNCHANGED removed
    BY <1>7 DEF Beginning, InstallBegins, UninstallBegins, RemoveBegins, Killed, OnlyProc
  <2>2. ~removed
    BY <1>2, <1>7
    DEF Gone, Beginning, InstallBegins, UninstallBegins, RemoveBegins, Killed
  <2> QED
    BY <1>3, <2>1, <2>2
<1>8. CASE CoreStep
  <2>1. UNCHANGED removed
    BY <1>8 DEF CoreStep, CoreStarts, CoreEnds, Attempts, RequestRepair, StartRepair, WatchRepair,
                OnlyCore
  <2>2. UNCHANGED <<root, app, list, files, theirs, lost, service>>
    BY <1>8 DEF CoreStep, CoreStarts, CoreEnds, Attempts, RequestRepair, StartRepair, WatchRepair,
                OnlyCore, fileVars, given, installation
  <2>3. ASSUME removed PROVE UNCHANGED <<proc, ignored>> /\ (core'.on => core.on)
    <3>1. ~root /\ proc.does = "idle" /\ CoreType
      BY <2>3 DEF Gone, TypeInv
    <3>2. ~CoreStarts /\ ~WatchRepair
      BY <3>1 DEF CoreStarts, WatchRepair
    <3>3. CASE CoreEnds
      BY <3>1, <3>3 DEF CoreEnds, OnlyCore, NoCore, Fresh
    <3>4. CASE Attempts \/ RequestRepair
      BY <3>1, <3>4 DEF Attempts, RequestRepair, OnlyCore, CoreType
    <3>5. CASE StartRepair
      BY <3>1, <3>5 DEF StartRepair, CoreType
    <3> QED
      BY <1>8, <3>2, <3>3, <3>4, <3>5 DEF CoreStep
  <2> QED
    BY <2>1, <2>2, <2>3 DEF Gone
<1>9. CASE AssistantWrites
  <2>1. UNCHANGED <<proc, root, app, list, theirs, service, core, removed, ignored>>
        /\ files' = files \cup {"config"}
        /\ lost' = lost \cup {f \in {"config"} \ (list \cup proc.merged) : ~Now("note", f)}
    BY <1>9 DEF AssistantWrites, given, installation, running
  <2>2. ASSUME removed PROVE files' \subseteq theirs' \cup lost'
    <3>1. list = {} /\ proc.merged = {} /\ proc.todo = <<>> /\ files \subseteq theirs \cup lost
      BY <1>2, <2>2 DEF Gone, Account, Noting
    <3>2. ~Now("note", "config")
      BY <3>1 DEF Now
    <3> QED
      BY <2>1, <3>1, <3>2
  <2> QED
    BY <2>1, <2>2 DEF Gone
<1>10. CASE StartServiceIfDown
  BY <1>3, <1>10 DEF Gone, StartServiceIfDown
<1>11. CASE ProgramGoes
  BY <1>11 DEF Gone, ProgramGoes, fileVars, given, running
<1> QED
  BY <1>4, <1>5, <1>6, <1>7, <1>8, <1>9, <1>10, <1>11 DEF Next, Beginning, CoreStep

-----------------------------------------------------------------------------
(* The theorems. *)

LEMMA InitInv == Systems \subseteq {"linux", "macOS", "windows"} /\ Init => SetupInv
<1> SUFFICES ASSUME Systems \subseteq {"linux", "macOS", "windows"}, Init PROVE SetupInv
  OBVIOUS
<1>1. TypeInv
  BY InitType
<1>2. Account
  BY DEF Init, Idle, Account, TheirsKept, AllListed, Noting, Installing, Removing
<1>3. Watched
  BY DEF Init, NoCore, Fresh, Watched
<1>4. Loaded /\ TakenDown /\ Gone
  BY DEF Init, Idle, Loaded, TakenDown, Gone, Installing, Removing
<1>5. NoFutileRepair
  BY DEF Init, NoCore, Fresh, NoFutileRepair
<1> QED
  BY <1>1, <1>2, <1>3, <1>4, <1>5 DEF SetupInv

LEMMA NextAccount ==
  ASSUME TypeInv, Account, TakenDown, Next
  PROVE  Account'
<1>1. ProcType'
  BY NextType DEF TypeInv
<1>2. Removing => Deleted
  BY DEF TakenDown
<1> QED
  BY <1>1, <1>2, NextIsOf, WriteAccount, NoteAccount, QuietAccount, RemovalAccount, LifeAccount
  DEF RemovalStep

LEMMA NextInv == SetupInv /\ [Next]_vars => SetupInv'
<1> SUFFICES ASSUME SetupInv, [Next]_vars PROVE SetupInv'
  OBVIOUS
<1>1. TypeInv /\ Account /\ Watched /\ Loaded /\ TakenDown /\ Gone /\ NoFutileRepair
  BY DEF SetupInv
<1>2. TypeInv'
  BY <1>1, NextType
<1>3. CASE Next
  BY <1>1, <1>2, <1>3, NextAccount, WatchedNext, LoadedNext, TakenNext, GoneNext, FutileNext
  DEF SetupInv
<1>4. CASE UNCHANGED vars
  <2>1. /\ UNCHANGED <<files, list, lost, theirs, root, disk, service, core>>
        /\ UNCHANGED <<asked, app, proc, removed, ignored>>
        /\ (windows' <=> windows) /\ (linux' <=> linux)
    BY <1>4 DEF vars, windows, linux
  <2>2. Account' /\ Watched'
    BY <1>1, <2>1
    DEF Account, TheirsKept, AllListed, Noting, About, Now, At, Installing, Removing, AtWork,
        Watched
  <2>3. Loaded' /\ TakenDown'
    BY <1>1, <2>1
    DEF Loaded, TakenDown, Stopped, Unlinked, Emptied, Rootless, Unregistered, Halted, Forgotten,
        Deleted, Finished, AppFirst, WhoseSteps, Ahead, Installing, Removing
  <2>4. Gone' /\ NoFutileRepair'
    BY <1>1, <2>1 DEF Gone, NoFutileRepair
  <2> QED
    BY <1>2, <2>2, <2>3, <2>4 DEF SetupInv
<1> QED
  BY <1>3, <1>4

\* SetupInv holds always, however often setup, repair and removal run, fail or are killed.  What it
\* says of the service and core during and after a removal exempts `ignored`.
THEOREM Inductive == Spec => []SetupInv
<1>1. Init => SetupInv
  BY SetupAssumption, InitInv
<1> QED
  BY <1>1, NextInv, PTL DEF Spec

\* Every variable keeps its type, and what a process has ahead is what is left of a setup or of a
\* removal, in its order.
THEOREM TypeCorrect == Spec => []TypeInv
<1>1. SetupInv => TypeInv
  BY DEF SetupInv
<1> QED
  BY <1>1, Inductive, PTL

\* A removal that said that everything is gone has left nothing but the files whose record was
\* lost and those that were there before, nor a service or core unless the code took the failure
\* of the command that ends them for success, which `ignored` names (Uninstall and Remove,
\* internal/setup; Uninstall, internal/service).
THEOREM RemovalIsExactAlways == Spec => []RemovalIsExact
<1>1. SetupInv => RemovalIsExact
  BY DEF SetupInv, Gone, Account, TheirsKept, RemovalIsExact
<1> QED
  BY <1>1, Inductive, PTL

\* A setup or repair that ends well leaves the service known and meant to run, with no core of an
\* older version unless endTask took a PowerShell that fails for a core that stopped, which
\* `ignored` names (service.Install, internal/service).
THEOREM SetupIsTrueAlways == Spec => []SetupIsTrue
<1>1. SetupInv => SetupIsTrue
  BY HasNone DEF SetupInv, Loaded, Ahead, SetupIsTrue
<1> QED
  BY <1>1, Inductive, PTL

\* After a repair that said so, the page does not offer Repair for a missing program
\* (afterRepair and the status of an attempt, internal/daemon).
THEOREM NoFutileRepairAlways == Spec => []NoFutileRepair
<1>1. SetupInv => NoFutileRepair
  BY DEF SetupInv
<1> QED
  BY <1>1, Inductive, PTL

=============================================================================
