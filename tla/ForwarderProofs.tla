--------------------------- MODULE ForwarderProofs ---------------------------
(***************************************************************************)
(* Safety of Forwarder, for any number of browser connections, changes of  *)
(* the daemon's state and calls of CloseAll: the handlers' count is right, *)
(* websites are connected directly only while the gateway is away, and the *)
(* bytes arrive as the browser sent them.                                  *)
(***************************************************************************)
EXTENDS ForwarderProperties, FiniteSetTheorems, SequenceTheorems, TLAPS

-----------------------------------------------------------------------------
\* One handler's record.

Letters == {"v", "r", "d"}
Handlers ==
    [pc: Pcs, kind: Kinds \cup {"scan"}, sent: Nat, eof: BOOLEAN, pos: Nat, open: SUBSET Ends,
     conns: SUBSET Ends, directs: SUBSET Ends, waiter: {"no", "target", "dial"},
     cancelled: BOOLEAN, finished: SUBSET {"target", "dial"}, answer: {"none", "port", "refused"},
     got: Seq(Letters), direct: BOOLEAN, out: {"off", "read", "end"},
     in: {"off", "read", "end"}, cut: {"no", "all", "direct"}]

\* Before it is passed on or answered directly, and on the direct way.
Before == {"none", "accepted", "greet", "register", "target", "refused", "refusedDone", "cancelled",
           "cancelledDone", "dial", "trackUp", "leave"}
OnDirectWay == {"request", "dialDirect", "trackDirect", "setUpstream", "reply", "unsetUpstream"}

IsCounted(r) ==
    \/ r.pc \in {"register", "target", "refused", "cancelled", "dial", "trackUp", "leave"}
    \/ r.pc \in {"splice", "untrackUp"} /\ ~r.direct

\* It was let through and its client is still there.
Passes(r) ==
    /\ r.direct /\ "client" \in r.open
    /\ r.pc \in {"request", "dialDirect", "trackDirect", "setUpstream", "reply", "splice"}

\* Its waiter is done once it counts no more; CloseDirect knows its client from before the daemon is
\* asked.
Fine(r) ==
    /\ r.pc \in Before => "target" \notin r.finished /\ ~r.direct
    /\ r.pc \in OnDirectWay => r.direct
    /\ r.pc \in {"splice", "untrackUp"} /\ ~r.direct => "target" \notin r.finished
    /\ r.pc \in {"hosts", "undirect"} \/ Passes(r) => "client" \in r.directs
    /\ r.pc \in OnDirectWay \/ (r.pc \in {"splice", "untrackUp"} /\ r.direct)
          => "client" \in r.directs

\* What was passed on of the bytes read: the data of a connection answered directly, or all of them.
Told(direct, pos, got) ==
    IF direct THEN pos = 3 /\ Len(got) = 1 /\ got[1] = "d"
    ELSE Len(got) = pos /\ \A i \in 1..pos : got[i] = Bytes[i]

Ordered(r) ==
    /\ r.pos <= r.sent /\ r.sent <= 3
    /\ r.pc \notin {"splice", "untrackUp", "leave", "leaveDone", "unsetUpstream", "undirect",
                    "untrack"}
          => r.got = <<>>
    /\ r.pc \in {"register", "target", "refused", "refusedDone", "cancelled", "cancelledDone",
                 "dial", "trackUp"} => r.pos = 1
    /\ r.pc \in {"dialDirect", "trackDirect", "setUpstream", "reply"} => r.pos = 2
    /\ r.pc = "splice" /\ r.got = <<>> => r.pos = (IF r.direct THEN 2 ELSE 1)
    /\ r.got # <<>> => Told(r.direct, r.pos, r.got)

HandlersFine == h \in [Conns -> Handlers] /\ \A c \in Conns : Fine(h[c]) /\ Ordered(h[c])

\* A step of handler c alone changes its record from o to r.
Good(o, r) ==
    /\ r \in Handlers /\ Fine(r) /\ Ordered(r)
    /\ Passes(r) => Passes(o) \/ vpn # "up"
    /\ \/ (IsCounted(o) <=> IsCounted(r)) /\ UNCHANGED active
       \/ ~IsCounted(o) /\ IsCounted(r) /\ active' = active + 1
       \/ IsCounted(o) /\ ~IsCounted(r) /\ active' = active - 1

LEMMA Went ==
  ASSUME h \in [Conns -> Handlers], NEW c \in Conns, NEW pc, NEW r, Goes(c, pc, r)
  PROVE  h[c].pc = pc /\ h'[c] = r /\ h' = [h EXCEPT ![c] = h'[c]]
  BY DEF Goes

LEMMA HandlerGood ==
  ASSUME h \in [Conns -> Handlers], NEW c \in Conns, Fine(h[c]), Ordered(h[c]), Handler(c)
  PROVE  Good(h[c], h'[c]) /\ h' = [h EXCEPT ![c] = h'[c]] /\ UNCHANGED calls
<1> DEFINE o == h[c]
           r == h'[c]
<1>o. o \in Handlers /\ Fine(o) /\ Ordered(o)
  OBVIOUS
<1>r. h' = [h EXCEPT ![c] = r] /\ UNCHANGED calls
  <2>1. UNCHANGED calls
    BY
    DEF Handler, Track, Greets, Register, Target, Refused, RefusedDone, Dial, TrackUp, SetDirect,
        Hosts, Request, DialDirect, TrackDirect, Reply, Spliced, UntrackUp, Leave, UnsetDirect,
        Untrack, Steps
  <2>2. ASSUME NEW pc, NEW t, Goes(c, pc, t) PROVE h' = [h EXCEPT ![c] = r]
    BY <2>2, Went
  <2>3. CASE Spliced(c)
    BY <2>3 DEF Spliced
  <2> QED
    BY <2>1, <2>2, <2>3
    DEF Handler, Track, Greets, Register, Target, Refused, RefusedDone, Dial, TrackUp, SetDirect,
        Hosts, Request, DialDirect, TrackDirect, Reply, UntrackUp, Leave, UnsetDirect, Untrack,
        Steps
<1> SUFFICES Good(o, r)
  BY <1>r DEF calls
<1>1. CASE Track(c)
  <2>1. o.pc = "accepted" /\ UNCHANGED active
        /\ r = [o EXCEPT !.pc = "greet", !.conns = {"client"}]
    BY <1>1, Went DEF Track, Steps, At
  <2> HIDE DEF o, r
  <2>p. "greet" \in Pcs
    BY DEF Pcs
  <2>2. r \in Handlers
    BY <1>o, <2>1, <2>p DEF Handlers, Ends
  <2>3. /\ o.pc = "accepted" /\ UNCHANGED active
        /\ r.pc = "greet" /\ r.direct = o.direct /\ r.open = o.open
        /\ r.directs = o.directs /\ r.finished = o.finished
        /\ r.sent = o.sent /\ r.pos = o.pos /\ r.got = o.got
    BY <1>o, <2>1 DEF Handlers
  <2>4. Ordered(r)
    BY <1>o, <2>2, <2>3 DEF Ordered, Handlers, Fine, Before
  <2> QED
    BY <1>o, <2>2, <2>3, <2>4 DEF Good, Fine, Passes, IsCounted, Before, OnDirectWay
<1>2. CASE Greets(c)
  <2>1. \/ /\ o.pc = "greet" /\ o.sent > 0 /\ active' = active + 1
           /\ r = [o EXCEPT !.pc = "register", !.pos = 1]
        \/ /\ o.pc = "greet" /\ UNCHANGED active
           /\ r = [o EXCEPT !.pc = "untrack"]
    BY <1>2, Went DEF Greets, Steps, At
  <2> HIDE DEF o, r
  <2>2. CASE /\ o.pc = "greet" /\ o.sent > 0 /\ active' = active + 1
             /\ r = [o EXCEPT !.pc = "register", !.pos = 1]
    <3>p. "register" \in Pcs
      BY DEF Pcs
    <3>1. r \in Handlers
      BY <1>o, <2>2, <3>p DEF Handlers, Ends
    <3>2. /\ o.pc = "greet" /\ o.sent > 0 /\ active' = active + 1
          /\ r.pc = "register" /\ r.direct = o.direct /\ r.open = o.open
          /\ r.directs = o.directs /\ r.finished = o.finished
          /\ r.sent = o.sent /\ r.pos = 1 /\ r.got = o.got /\ o.sent > 0
      BY <1>o, <2>2 DEF Handlers
    <3>3. Ordered(r)
      BY <1>o, <3>1, <3>2 DEF Ordered, Handlers, Fine, Before
    <3> QED
      BY <1>o, <3>1, <3>2, <3>3 DEF Good, Fine, Passes, IsCounted, Before, OnDirectWay
  <2>3. CASE /\ o.pc = "greet" /\ UNCHANGED active
             /\ r = [o EXCEPT !.pc = "untrack"]
    <3>p. "untrack" \in Pcs
      BY DEF Pcs
    <3>1. r \in Handlers
      BY <1>o, <2>3, <3>p DEF Handlers, Ends
    <3>2. /\ o.pc = "greet" /\ UNCHANGED active
          /\ r.pc = "untrack" /\ r.direct = o.direct /\ r.open = o.open
          /\ r.directs = o.directs /\ r.finished = o.finished
          /\ r.sent = o.sent /\ r.pos = o.pos /\ r.got = o.got
      BY <1>o, <2>3 DEF Handlers
    <3>3. Ordered(r)
      BY <1>o, <3>1, <3>2 DEF Ordered, Handlers, Fine, Before
    <3> QED
      BY <1>o, <3>1, <3>2, <3>3 DEF Good, Fine, Passes, IsCounted, Before, OnDirectWay
  <2> QED BY <2>1, <2>2, <2>3
<1>3. CASE Register(c)
  <2>1. o.pc = "register" /\ UNCHANGED active
        /\ r = [o EXCEPT !.pc = "target", !.waiter = "target", !.cancelled = (stop = "over")]
    BY <1>3, Went DEF Register, Steps, Waiting, At
  <2> HIDE DEF o, r
  <2>a. (stop = "over") \in BOOLEAN
    OBVIOUS
  <2>p. "target" \in Pcs
    BY DEF Pcs
  <2>2. r \in Handlers
    BY <1>o, <2>1, <2>a, <2>p DEF Handlers, Ends
  <2>3. /\ o.pc = "register" /\ UNCHANGED active
        /\ r.pc = "target" /\ r.direct = o.direct /\ r.open = o.open
        /\ r.directs = o.directs /\ r.finished = o.finished
        /\ r.sent = o.sent /\ r.pos = o.pos /\ r.got = o.got
    BY <1>o, <2>1 DEF Handlers
  <2>4. Ordered(r)
    BY <1>o, <2>2, <2>3 DEF Ordered, Handlers, Fine, Before
  <2> QED
    BY <1>o, <2>2, <2>3, <2>4 DEF Good, Fine, Passes, IsCounted, Before, OnDirectWay
<1>4. CASE Target(c)
  <2>1. \/ /\ o.pc = "target" /\ UNCHANGED active
           /\ r = [o EXCEPT !.pc = "dial", !.waiter = "no", !.answer = "none"]
        \/ /\ o.pc = "target" /\ UNCHANGED active
           /\ r = [o EXCEPT !.pc = "refused", !.waiter = "no", !.answer = "none"]
        \/ /\ o.pc = "target" /\ UNCHANGED active
           /\ r = [o EXCEPT !.pc = "cancelled", !.waiter = "no", !.answer = "none"]
    <3>1. PICK then \in {"dial", "refused", "cancelled"} :
             Goes(c, "target", [At(c, then) EXCEPT !.waiter = "no", !.answer = "none"])
      BY <1>4 DEF Target
    <3>2. UNCHANGED active
      BY <1>4 DEF Target
    <3>3. o.pc = "target" /\ r = [At(c, then) EXCEPT !.waiter = "no", !.answer = "none"]
      BY <3>1, Went
    <3>4. then = "dial" \/ then = "refused" \/ then = "cancelled"
      BY <3>1
    <3> QED BY <3>2, <3>3, <3>4 DEF At
  <2> HIDE DEF o, r
  <2>2. CASE /\ o.pc = "target" /\ UNCHANGED active
             /\ r = [o EXCEPT !.pc = "dial", !.waiter = "no", !.answer = "none"]
    <3>p. "dial" \in Pcs
      BY DEF Pcs
    <3>1. r \in Handlers
      BY <1>o, <2>2, <3>p DEF Handlers, Ends
    <3>2. /\ o.pc = "target" /\ UNCHANGED active
          /\ r.pc = "dial" /\ r.direct = o.direct /\ r.open = o.open
          /\ r.directs = o.directs /\ r.finished = o.finished
          /\ r.sent = o.sent /\ r.pos = o.pos /\ r.got = o.got
      BY <1>o, <2>2 DEF Handlers
    <3>3. Ordered(r)
      BY <1>o, <3>1, <3>2 DEF Ordered, Handlers, Fine, Before
    <3> QED
      BY <1>o, <3>1, <3>2, <3>3 DEF Good, Fine, Passes, IsCounted, Before, OnDirectWay
  <2>3. CASE /\ o.pc = "target" /\ UNCHANGED active
             /\ r = [o EXCEPT !.pc = "refused", !.waiter = "no", !.answer = "none"]
    <3>p. "refused" \in Pcs
      BY DEF Pcs
    <3>1. r \in Handlers
      BY <1>o, <2>3, <3>p DEF Handlers, Ends
    <3>2. /\ o.pc = "target" /\ UNCHANGED active
          /\ r.pc = "refused" /\ r.direct = o.direct /\ r.open = o.open
          /\ r.directs = o.directs /\ r.finished = o.finished
          /\ r.sent = o.sent /\ r.pos = o.pos /\ r.got = o.got
      BY <1>o, <2>3 DEF Handlers
    <3>3. Ordered(r)
      BY <1>o, <3>1, <3>2 DEF Ordered, Handlers, Fine, Before
    <3> QED
      BY <1>o, <3>1, <3>2, <3>3 DEF Good, Fine, Passes, IsCounted, Before, OnDirectWay
  <2>4. CASE /\ o.pc = "target" /\ UNCHANGED active
             /\ r = [o EXCEPT !.pc = "cancelled", !.waiter = "no", !.answer = "none"]
    <3>p. "cancelled" \in Pcs
      BY DEF Pcs
    <3>1. r \in Handlers
      BY <1>o, <2>4, <3>p DEF Handlers, Ends
    <3>2. /\ o.pc = "target" /\ UNCHANGED active
          /\ r.pc = "cancelled" /\ r.direct = o.direct /\ r.open = o.open
          /\ r.directs = o.directs /\ r.finished = o.finished
          /\ r.sent = o.sent /\ r.pos = o.pos /\ r.got = o.got
      BY <1>o, <2>4 DEF Handlers
    <3>3. Ordered(r)
      BY <1>o, <3>1, <3>2 DEF Ordered, Handlers, Fine, Before
    <3> QED
      BY <1>o, <3>1, <3>2, <3>3 DEF Good, Fine, Passes, IsCounted, Before, OnDirectWay
  <2> QED BY <2>1, <2>2, <2>3, <2>4
<1>5. CASE Refused(c)
  <2>1. \/ /\ o.pc = "refused" /\ active' = active - 1
           /\ r = [o EXCEPT !.pc = "refusedDone"]
        \/ /\ o.pc = "cancelled" /\ active' = active - 1
           /\ r = [o EXCEPT !.pc = "cancelledDone"]
    BY <1>5, Went DEF Refused, Steps, At
  <2> HIDE DEF o, r
  <2>2. CASE /\ o.pc = "refused" /\ active' = active - 1
             /\ r = [o EXCEPT !.pc = "refusedDone"]
    <3>p. "refusedDone" \in Pcs
      BY DEF Pcs
    <3>1. r \in Handlers
      BY <1>o, <2>2, <3>p DEF Handlers, Ends
    <3>2. /\ o.pc = "refused" /\ active' = active - 1
          /\ r.pc = "refusedDone" /\ r.direct = o.direct /\ r.open = o.open
          /\ r.directs = o.directs /\ r.finished = o.finished
          /\ r.sent = o.sent /\ r.pos = o.pos /\ r.got = o.got
      BY <1>o, <2>2 DEF Handlers
    <3>3. Ordered(r)
      BY <1>o, <3>1, <3>2 DEF Ordered, Handlers, Fine, Before
    <3> QED
      BY <1>o, <3>1, <3>2, <3>3 DEF Good, Fine, Passes, IsCounted, Before, OnDirectWay
  <2>3. CASE /\ o.pc = "cancelled" /\ active' = active - 1
             /\ r = [o EXCEPT !.pc = "cancelledDone"]
    <3>p. "cancelledDone" \in Pcs
      BY DEF Pcs
    <3>1. r \in Handlers
      BY <1>o, <2>3, <3>p DEF Handlers, Ends
    <3>2. /\ o.pc = "cancelled" /\ active' = active - 1
          /\ r.pc = "cancelledDone" /\ r.direct = o.direct /\ r.open = o.open
          /\ r.directs = o.directs /\ r.finished = o.finished
          /\ r.sent = o.sent /\ r.pos = o.pos /\ r.got = o.got
      BY <1>o, <2>3 DEF Handlers
    <3>3. Ordered(r)
      BY <1>o, <3>1, <3>2 DEF Ordered, Handlers, Fine, Before
    <3> QED
      BY <1>o, <3>1, <3>2, <3>3 DEF Good, Fine, Passes, IsCounted, Before, OnDirectWay
  <2> QED BY <2>1, <2>2, <2>3
<1>6. CASE RefusedDone(c)
  <2>1. \/ /\ o.pc = "refusedDone" /\ UNCHANGED active
           /\ r = [o EXCEPT !.pc = "direct", !.finished = @ \cup {"target"}]
        \/ /\ o.pc = "cancelledDone" /\ UNCHANGED active
           /\ r = [o EXCEPT !.pc = "untrack", !.finished = @ \cup {"target"}]
    BY <1>6, Went DEF RefusedDone, Steps, At, Done
  <2> HIDE DEF o, r
  <2>2. CASE /\ o.pc = "refusedDone" /\ UNCHANGED active
             /\ r = [o EXCEPT !.pc = "direct", !.finished = @ \cup {"target"}]
    <3>p. "direct" \in Pcs
      BY DEF Pcs
    <3>1. r \in Handlers
      BY <1>o, <2>2, <3>p DEF Handlers, Ends
    <3>2. /\ o.pc = "refusedDone" /\ UNCHANGED active
          /\ r.pc = "direct" /\ r.direct = o.direct /\ r.open = o.open
          /\ r.directs = o.directs /\ r.finished = o.finished \cup {"target"}
          /\ r.sent = o.sent /\ r.pos = o.pos /\ r.got = o.got
      BY <1>o, <2>2 DEF Handlers
    <3>3. Ordered(r)
      BY <1>o, <3>1, <3>2 DEF Ordered, Handlers, Fine, Before
    <3> QED
      BY <1>o, <3>1, <3>2, <3>3 DEF Good, Fine, Passes, IsCounted, Before, OnDirectWay
  <2>3. CASE /\ o.pc = "cancelledDone" /\ UNCHANGED active
             /\ r = [o EXCEPT !.pc = "untrack", !.finished = @ \cup {"target"}]
    <3>p. "untrack" \in Pcs
      BY DEF Pcs
    <3>1. r \in Handlers
      BY <1>o, <2>3, <3>p DEF Handlers, Ends
    <3>2. /\ o.pc = "cancelledDone" /\ UNCHANGED active
          /\ r.pc = "untrack" /\ r.direct = o.direct /\ r.open = o.open
          /\ r.directs = o.directs /\ r.finished = o.finished \cup {"target"}
          /\ r.sent = o.sent /\ r.pos = o.pos /\ r.got = o.got
      BY <1>o, <2>3 DEF Handlers
    <3>3. Ordered(r)
      BY <1>o, <3>1, <3>2 DEF Ordered, Handlers, Fine, Before
    <3> QED
      BY <1>o, <3>1, <3>2, <3>3 DEF Good, Fine, Passes, IsCounted, Before, OnDirectWay
  <2> QED BY <2>1, <2>2, <2>3
<1>7. CASE Dial(c)
  <2>1. \/ /\ o.pc = "dial" /\ UNCHANGED active
           /\ r = [o EXCEPT !.pc = "trackUp", !.open = @ \cup {"upstream"}]
        \/ /\ o.pc = "dial" /\ UNCHANGED active
           /\ r = [o EXCEPT !.pc = "leave"]
    BY <1>7, Went DEF Dial, Steps, At
  <2> HIDE DEF o, r
  <2>2. CASE /\ o.pc = "dial" /\ UNCHANGED active
             /\ r = [o EXCEPT !.pc = "trackUp", !.open = @ \cup {"upstream"}]
    <3>p. "trackUp" \in Pcs
      BY DEF Pcs
    <3>1. r \in Handlers
      BY <1>o, <2>2, <3>p DEF Handlers, Ends
    <3>2. /\ o.pc = "dial" /\ UNCHANGED active
          /\ r.pc = "trackUp" /\ r.direct = o.direct /\ r.open = o.open \cup {"upstream"}
          /\ r.directs = o.directs /\ r.finished = o.finished
          /\ r.sent = o.sent /\ r.pos = o.pos /\ r.got = o.got
      BY <1>o, <2>2 DEF Handlers
    <3>3. Ordered(r)
      BY <1>o, <3>1, <3>2 DEF Ordered, Handlers, Fine, Before
    <3> QED
      BY <1>o, <3>1, <3>2, <3>3 DEF Good, Fine, Passes, IsCounted, Before, OnDirectWay
  <2>3. CASE /\ o.pc = "dial" /\ UNCHANGED active
             /\ r = [o EXCEPT !.pc = "leave"]
    <3>p. "leave" \in Pcs
      BY DEF Pcs
    <3>1. r \in Handlers
      BY <1>o, <2>3, <3>p DEF Handlers, Ends
    <3>2. /\ o.pc = "dial" /\ UNCHANGED active
          /\ r.pc = "leave" /\ r.direct = o.direct /\ r.open = o.open
          /\ r.directs = o.directs /\ r.finished = o.finished
          /\ r.sent = o.sent /\ r.pos = o.pos /\ r.got = o.got
      BY <1>o, <2>3 DEF Handlers
    <3>3. Ordered(r)
      BY <1>o, <3>1, <3>2 DEF Ordered, Handlers, Fine, Before
    <3> QED
      BY <1>o, <3>1, <3>2, <3>3 DEF Good, Fine, Passes, IsCounted, Before, OnDirectWay
  <2> QED BY <2>1, <2>2, <2>3
<1>8. CASE TrackUp(c)
  <2>1. o.pc = "trackUp" /\ UNCHANGED active
        /\ r = [o EXCEPT !.pc = "splice", !.out = "read", !.in = "read",
                         !.conns = @ \cup {"upstream"}]
    BY <1>8, Went DEF TrackUp, Steps, At, Splice
  <2> HIDE DEF o, r
  <2>p. "splice" \in Pcs
    BY DEF Pcs
  <2>2. r \in Handlers
    BY <1>o, <2>1, <2>p DEF Handlers, Ends
  <2>3. /\ o.pc = "trackUp" /\ UNCHANGED active
        /\ r.pc = "splice" /\ r.direct = o.direct /\ r.open = o.open
        /\ r.directs = o.directs /\ r.finished = o.finished
        /\ r.sent = o.sent /\ r.pos = o.pos /\ r.got = o.got
    BY <1>o, <2>1 DEF Handlers
  <2>4. Ordered(r)
    BY <1>o, <2>2, <2>3 DEF Ordered, Handlers, Fine, Before
  <2> QED
    BY <1>o, <2>2, <2>3, <2>4 DEF Good, Fine, Passes, IsCounted, Before, OnDirectWay
<1>9. CASE SetDirect(c)
  <2>1. o.pc = "direct" /\ UNCHANGED active
        /\ r = [o EXCEPT !.pc = "hosts", !.directs = {"client"}]
    BY <1>9, Went DEF SetDirect, Steps, At
  <2> HIDE DEF o, r
  <2>p. "hosts" \in Pcs
    BY DEF Pcs
  <2>2. r \in Handlers
    BY <1>o, <2>1, <2>p DEF Handlers, Ends
  <2>3. /\ o.pc = "direct" /\ UNCHANGED active
        /\ r.pc = "hosts" /\ r.direct = o.direct /\ r.open = o.open
        /\ r.directs = {"client"} /\ r.finished = o.finished
        /\ r.sent = o.sent /\ r.pos = o.pos /\ r.got = o.got
    BY <1>o, <2>1 DEF Handlers
  <2>4. Ordered(r)
    BY <1>o, <2>2, <2>3 DEF Ordered, Handlers, Fine, Before
  <2> QED
    BY <1>o, <2>2, <2>3, <2>4 DEF Good, Fine, Passes, IsCounted, Before, OnDirectWay
<1>10. CASE Hosts(c)
  <2>1. \/ /\ o.pc = "hosts" /\ UNCHANGED active /\ vpn = "away"
           /\ r = [o EXCEPT !.pc = "request", !.direct = TRUE]
        \/ /\ o.pc = "hosts" /\ UNCHANGED active
           /\ r = [o EXCEPT !.pc = "undirect"]
    BY <1>10, Went DEF Hosts, Steps, At
  <2> HIDE DEF o, r
  <2>2. CASE /\ o.pc = "hosts" /\ UNCHANGED active /\ vpn = "away"
             /\ r = [o EXCEPT !.pc = "request", !.direct = TRUE]
    <3>p. "request" \in Pcs
      BY DEF Pcs
    <3>1. r \in Handlers
      BY <1>o, <2>2, <3>p DEF Handlers, Ends
    <3>2. /\ o.pc = "hosts" /\ UNCHANGED active /\ vpn = "away"
          /\ r.pc = "request" /\ r.direct = TRUE /\ r.open = o.open
          /\ r.directs = o.directs /\ r.finished = o.finished
          /\ r.sent = o.sent /\ r.pos = o.pos /\ r.got = o.got
      BY <1>o, <2>2 DEF Handlers
    <3>3. Ordered(r)
      BY <1>o, <3>1, <3>2 DEF Ordered, Handlers, Fine, Before
    <3> QED
      BY <1>o, <3>1, <3>2, <3>3 DEF Good, Fine, Passes, IsCounted, Before, OnDirectWay
  <2>3. CASE /\ o.pc = "hosts" /\ UNCHANGED active
             /\ r = [o EXCEPT !.pc = "undirect"]
    <3>p. "undirect" \in Pcs
      BY DEF Pcs
    <3>1. r \in Handlers
      BY <1>o, <2>3, <3>p DEF Handlers, Ends
    <3>2. /\ o.pc = "hosts" /\ UNCHANGED active
          /\ r.pc = "undirect" /\ r.direct = o.direct /\ r.open = o.open
          /\ r.directs = o.directs /\ r.finished = o.finished
          /\ r.sent = o.sent /\ r.pos = o.pos /\ r.got = o.got
      BY <1>o, <2>3 DEF Handlers
    <3>3. Ordered(r)
      BY <1>o, <3>1, <3>2 DEF Ordered, Handlers, Fine, Before
    <3> QED
      BY <1>o, <3>1, <3>2, <3>3 DEF Good, Fine, Passes, IsCounted, Before, OnDirectWay
  <2> QED BY <2>1, <2>2, <2>3
<1>11. CASE Request(c)
  <2>1. \/ /\ o.pc = "request" /\ o.sent >= 2 /\ UNCHANGED active
           /\ r = [o EXCEPT !.pc = "dialDirect", !.waiter = "dial",
                            !.cancelled = (stop = "over"), !.pos = 2]
        \/ /\ o.pc = "request" /\ UNCHANGED active
           /\ r = [o EXCEPT !.pc = "undirect"]
    BY <1>11, Went DEF Request, Steps, At, Waiting
  <2> HIDE DEF o, r
  <2>2. CASE /\ o.pc = "request" /\ o.sent >= 2 /\ UNCHANGED active
             /\ r = [o EXCEPT !.pc = "dialDirect", !.waiter = "dial",
                              !.cancelled = (stop = "over"), !.pos = 2]
    <3>p. "dialDirect" \in Pcs
      BY DEF Pcs
    <3>1. r \in Handlers
      BY <1>o, <2>2, <3>p DEF Handlers, Ends
    <3>2. /\ o.pc = "request" /\ UNCHANGED active
          /\ r.pc = "dialDirect" /\ r.direct = o.direct /\ r.open = o.open
          /\ r.directs = o.directs /\ r.finished = o.finished
          /\ r.sent = o.sent /\ r.pos = 2 /\ r.got = o.got /\ o.sent >= 2
      BY <1>o, <2>2 DEF Handlers
    <3>3. Ordered(r)
      BY <1>o, <3>1, <3>2 DEF Ordered, Handlers, Fine, Before
    <3> QED
      BY <1>o, <3>1, <3>2, <3>3 DEF Good, Fine, Passes, IsCounted, Before, OnDirectWay
  <2>3. CASE /\ o.pc = "request" /\ UNCHANGED active
             /\ r = [o EXCEPT !.pc = "undirect"]
    <3>p. "undirect" \in Pcs
      BY DEF Pcs
    <3>1. r \in Handlers
      BY <1>o, <2>3, <3>p DEF Handlers, Ends
    <3>2. /\ o.pc = "request" /\ UNCHANGED active
          /\ r.pc = "undirect" /\ r.direct = o.direct /\ r.open = o.open
          /\ r.directs = o.directs /\ r.finished = o.finished
          /\ r.sent = o.sent /\ r.pos = o.pos /\ r.got = o.got
      BY <1>o, <2>3 DEF Handlers
    <3>3. Ordered(r)
      BY <1>o, <3>1, <3>2 DEF Ordered, Handlers, Fine, Before
    <3> QED
      BY <1>o, <3>1, <3>2, <3>3 DEF Good, Fine, Passes, IsCounted, Before, OnDirectWay
  <2> QED BY <2>1, <2>2, <2>3
<1>12. CASE DialDirect(c)
  <2>1. \/ /\ o.pc = "dialDirect" /\ UNCHANGED active
           /\ r = [o EXCEPT !.pc = "trackDirect", !.finished = @ \cup {"dial"},
                            !.waiter = "no", !.open = @ \cup {"upstream"}]
        \/ /\ o.pc = "dialDirect" /\ UNCHANGED active
           /\ r = [o EXCEPT !.pc = "undirect", !.finished = @ \cup {"dial"}, !.waiter = "no"]
    BY <1>12, Went DEF DialDirect, Steps, At, Done
  <2> HIDE DEF o, r
  <2>2. CASE /\ o.pc = "dialDirect" /\ UNCHANGED active
             /\ r = [o EXCEPT !.pc = "trackDirect", !.finished = @ \cup {"dial"},
                              !.waiter = "no", !.open = @ \cup {"upstream"}]
    <3>p. "trackDirect" \in Pcs
      BY DEF Pcs
    <3>1. r \in Handlers
      BY <1>o, <2>2, <3>p DEF Handlers, Ends
    <3>2. /\ o.pc = "dialDirect" /\ UNCHANGED active
          /\ r.pc = "trackDirect" /\ r.direct = o.direct /\ r.open = o.open \cup {"upstream"}
          /\ r.directs = o.directs /\ r.finished = o.finished \cup {"dial"}
          /\ r.sent = o.sent /\ r.pos = o.pos /\ r.got = o.got
      BY <1>o, <2>2 DEF Handlers
    <3>3. Ordered(r)
      BY <1>o, <3>1, <3>2 DEF Ordered, Handlers, Fine, Before
    <3> QED
      BY <1>o, <3>1, <3>2, <3>3 DEF Good, Fine, Passes, IsCounted, Before, OnDirectWay
  <2>3. CASE /\ o.pc = "dialDirect" /\ UNCHANGED active
             /\ r = [o EXCEPT !.pc = "undirect", !.finished = @ \cup {"dial"}, !.waiter = "no"]
    <3>p. "undirect" \in Pcs
      BY DEF Pcs
    <3>1. r \in Handlers
      BY <1>o, <2>3, <3>p DEF Handlers, Ends
    <3>2. /\ o.pc = "dialDirect" /\ UNCHANGED active
          /\ r.pc = "undirect" /\ r.direct = o.direct /\ r.open = o.open
          /\ r.directs = o.directs /\ r.finished = o.finished \cup {"dial"}
          /\ r.sent = o.sent /\ r.pos = o.pos /\ r.got = o.got
      BY <1>o, <2>3 DEF Handlers
    <3>3. Ordered(r)
      BY <1>o, <3>1, <3>2 DEF Ordered, Handlers, Fine, Before
    <3> QED
      BY <1>o, <3>1, <3>2, <3>3 DEF Good, Fine, Passes, IsCounted, Before, OnDirectWay
  <2> QED BY <2>1, <2>2, <2>3
<1>13. CASE TrackDirect(c)
  <2>1. \/ /\ o.pc = "trackDirect" /\ UNCHANGED active
           /\ r = [o EXCEPT !.pc = "setUpstream", !.conns = @ \cup {"upstream"}]
        \/ /\ o.pc = "setUpstream" /\ UNCHANGED active
           /\ r = [o EXCEPT !.pc = "reply", !.directs = @ \cup {"upstream"}]
    BY <1>13, Went DEF TrackDirect, Steps, At
  <2> HIDE DEF o, r
  <2>2. CASE /\ o.pc = "trackDirect" /\ UNCHANGED active
             /\ r = [o EXCEPT !.pc = "setUpstream", !.conns = @ \cup {"upstream"}]
    <3>p. "setUpstream" \in Pcs
      BY DEF Pcs
    <3>1. r \in Handlers
      BY <1>o, <2>2, <3>p DEF Handlers, Ends
    <3>2. /\ o.pc = "trackDirect" /\ UNCHANGED active
          /\ r.pc = "setUpstream" /\ r.direct = o.direct /\ r.open = o.open
          /\ r.directs = o.directs /\ r.finished = o.finished
          /\ r.sent = o.sent /\ r.pos = o.pos /\ r.got = o.got
      BY <1>o, <2>2 DEF Handlers
    <3>3. Ordered(r)
      BY <1>o, <3>1, <3>2 DEF Ordered, Handlers, Fine, Before
    <3> QED
      BY <1>o, <3>1, <3>2, <3>3 DEF Good, Fine, Passes, IsCounted, Before, OnDirectWay
  <2>3. CASE /\ o.pc = "setUpstream" /\ UNCHANGED active
             /\ r = [o EXCEPT !.pc = "reply", !.directs = @ \cup {"upstream"}]
    <3>p. "reply" \in Pcs
      BY DEF Pcs
    <3>1. r \in Handlers
      BY <1>o, <2>3, <3>p DEF Handlers, Ends
    <3>2. /\ o.pc = "setUpstream" /\ UNCHANGED active
          /\ r.pc = "reply" /\ r.direct = o.direct /\ r.open = o.open
          /\ r.directs = o.directs \cup {"upstream"} /\ r.finished = o.finished
          /\ r.sent = o.sent /\ r.pos = o.pos /\ r.got = o.got
      BY <1>o, <2>3 DEF Handlers
    <3>3. Ordered(r)
      BY <1>o, <3>1, <3>2 DEF Ordered, Handlers, Fine, Before
    <3> QED
      BY <1>o, <3>1, <3>2, <3>3 DEF Good, Fine, Passes, IsCounted, Before, OnDirectWay
  <2> QED BY <2>1, <2>2, <2>3
<1>14. CASE Reply(c)
  <2>1. \/ /\ o.pc = "reply" /\ UNCHANGED active
           /\ r = [o EXCEPT !.pc = "splice", !.out = "read", !.in = "read"]
        \/ /\ o.pc = "reply" /\ UNCHANGED active
           /\ r = [o EXCEPT !.pc = "unsetUpstream"]
    BY <1>14, Went DEF Reply, Steps, At, Splice
  <2> HIDE DEF o, r
  <2>2. CASE /\ o.pc = "reply" /\ UNCHANGED active
             /\ r = [o EXCEPT !.pc = "splice", !.out = "read", !.in = "read"]
    <3>p. "splice" \in Pcs
      BY DEF Pcs
    <3>1. r \in Handlers
      BY <1>o, <2>2, <3>p DEF Handlers, Ends
    <3>2. /\ o.pc = "reply" /\ UNCHANGED active
          /\ r.pc = "splice" /\ r.direct = o.direct /\ r.open = o.open
          /\ r.directs = o.directs /\ r.finished = o.finished
          /\ r.sent = o.sent /\ r.pos = o.pos /\ r.got = o.got
      BY <1>o, <2>2 DEF Handlers
    <3>3. Ordered(r)
      BY <1>o, <3>1, <3>2 DEF Ordered, Handlers, Fine, Before, OnDirectWay
    <3> QED
      BY <1>o, <3>1, <3>2, <3>3 DEF Good, Fine, Passes, IsCounted, Before, OnDirectWay
  <2>3. CASE /\ o.pc = "reply" /\ UNCHANGED active
             /\ r = [o EXCEPT !.pc = "unsetUpstream"]
    <3>p. "unsetUpstream" \in Pcs
      BY DEF Pcs
    <3>1. r \in Handlers
      BY <1>o, <2>3, <3>p DEF Handlers, Ends
    <3>2. /\ o.pc = "reply" /\ UNCHANGED active
          /\ r.pc = "unsetUpstream" /\ r.direct = o.direct /\ r.open = o.open
          /\ r.directs = o.directs /\ r.finished = o.finished
          /\ r.sent = o.sent /\ r.pos = o.pos /\ r.got = o.got
      BY <1>o, <2>3 DEF Handlers
    <3>3. Ordered(r)
      BY <1>o, <3>1, <3>2 DEF Ordered, Handlers, Fine, Before, OnDirectWay
    <3> QED
      BY <1>o, <3>1, <3>2, <3>3 DEF Good, Fine, Passes, IsCounted, Before, OnDirectWay
  <2> QED BY <2>1, <2>2, <2>3
<1>15. CASE Spliced(c)
  <2>1. \/ /\ o.pc = "splice" /\ UNCHANGED active
           /\ r = [o EXCEPT !.pc = IF o.direct THEN "unsetUpstream" ELSE "untrackUp"]
        \/ /\ o.pc = "splice" /\ UNCHANGED active
           /\ r = [o EXCEPT !.open = {}]
    BY <1>15, Went DEF Spliced, Steps
  <2> HIDE DEF o, r
  <2>2. CASE /\ o.pc = "splice" /\ UNCHANGED active
             /\ r = [o EXCEPT !.pc = IF o.direct THEN "unsetUpstream" ELSE "untrackUp"]
    <3>p. "unsetUpstream" \in Pcs /\ "untrackUp" \in Pcs
      BY DEF Pcs
    <3>1. r \in Handlers
      BY <1>o, <2>2, <3>p DEF Handlers, Ends
    <3>2. /\ o.pc = "splice" /\ UNCHANGED active
          /\ r.pc = (IF o.direct THEN "unsetUpstream" ELSE "untrackUp")
          /\ r.direct = o.direct /\ r.open = o.open
          /\ r.directs = o.directs /\ r.finished = o.finished
          /\ r.sent = o.sent /\ r.pos = o.pos /\ r.got = o.got
      BY <1>o, <2>2 DEF Handlers
    <3>3. Ordered(r)
      BY <1>o, <3>1, <3>2 DEF Ordered, Handlers, Fine, Before
    <3> QED
      BY <1>o, <3>1, <3>2, <3>3 DEF Good, Fine, Passes, IsCounted, Before, OnDirectWay
  <2>3. CASE /\ o.pc = "splice" /\ UNCHANGED active
             /\ r = [o EXCEPT !.open = {}]
    <3>1. r \in Handlers
      BY <1>o, <2>3 DEF Handlers, Pcs, Ends
    <3>2. /\ o.pc = "splice" /\ UNCHANGED active
          /\ r.pc = o.pc /\ r.direct = o.direct /\ r.open = {}
          /\ r.directs = o.directs /\ r.finished = o.finished
          /\ r.sent = o.sent /\ r.pos = o.pos /\ r.got = o.got
      BY <1>o, <2>3 DEF Handlers
    <3>3. Ordered(r)
      BY <1>o, <3>1, <3>2 DEF Ordered, Handlers, Fine, Before
    <3> QED
      BY <1>o, <3>1, <3>2, <3>3 DEF Good, Fine, Passes, IsCounted, Before, OnDirectWay
  <2> QED BY <2>1, <2>2, <2>3
<1>16. CASE UntrackUp(c)
  <2>1. o.pc = "untrackUp" /\ UNCHANGED active
        /\ r = [o EXCEPT !.pc = IF o.direct THEN "undirect" ELSE "leave",
                         !.conns = @ \ {"upstream"}, !.open = @ \ {"upstream"}]
    BY <1>16, Went DEF UntrackUp, Steps, At
  <2> HIDE DEF o, r
  <2>p. "undirect" \in Pcs /\ "leave" \in Pcs
    BY DEF Pcs
  <2>2. r \in Handlers
    BY <1>o, <2>1, <2>p DEF Handlers, Ends
  <2>3. /\ o.pc = "untrackUp" /\ UNCHANGED active
        /\ r.pc = (IF o.direct THEN "undirect" ELSE "leave")
        /\ r.direct = o.direct /\ r.open = o.open \ {"upstream"}
        /\ r.directs = o.directs /\ r.finished = o.finished
        /\ r.sent = o.sent /\ r.pos = o.pos /\ r.got = o.got
    BY <1>o, <2>1 DEF Handlers
  <2>4. Ordered(r)
    BY <1>o, <2>2, <2>3 DEF Ordered, Handlers, Fine, Before
  <2> QED
    BY <1>o, <2>2, <2>3, <2>4 DEF Good, Fine, Passes, IsCounted, Before, OnDirectWay
<1>17. CASE Leave(c)
  <2>1. \/ /\ o.pc = "leave" /\ active' = active - 1
           /\ r = [o EXCEPT !.pc = "leaveDone"]
        \/ /\ o.pc = "leaveDone" /\ UNCHANGED active
           /\ r = [o EXCEPT !.pc = "untrack", !.finished = @ \cup {"target"}]
    BY <1>17, Went DEF Leave, Steps, At, Done
  <2> HIDE DEF o, r
  <2>2. CASE /\ o.pc = "leave" /\ active' = active - 1
             /\ r = [o EXCEPT !.pc = "leaveDone"]
    <3>p. "leaveDone" \in Pcs
      BY DEF Pcs
    <3>1. r \in Handlers
      BY <1>o, <2>2, <3>p DEF Handlers, Ends
    <3>2. /\ o.pc = "leave" /\ active' = active - 1
          /\ r.pc = "leaveDone" /\ r.direct = o.direct /\ r.open = o.open
          /\ r.directs = o.directs /\ r.finished = o.finished
          /\ r.sent = o.sent /\ r.pos = o.pos /\ r.got = o.got
      BY <1>o, <2>2 DEF Handlers
    <3>3. Ordered(r)
      BY <1>o, <3>1, <3>2 DEF Ordered, Handlers, Fine, Before
    <3> QED
      BY <1>o, <3>1, <3>2, <3>3 DEF Good, Fine, Passes, IsCounted, Before, OnDirectWay
  <2>3. CASE /\ o.pc = "leaveDone" /\ UNCHANGED active
             /\ r = [o EXCEPT !.pc = "untrack", !.finished = @ \cup {"target"}]
    <3>p. "untrack" \in Pcs
      BY DEF Pcs
    <3>1. r \in Handlers
      BY <1>o, <2>3, <3>p DEF Handlers, Ends
    <3>2. /\ o.pc = "leaveDone" /\ UNCHANGED active
          /\ r.pc = "untrack" /\ r.direct = o.direct /\ r.open = o.open
          /\ r.directs = o.directs /\ r.finished = o.finished \cup {"target"}
          /\ r.sent = o.sent /\ r.pos = o.pos /\ r.got = o.got
      BY <1>o, <2>3 DEF Handlers
    <3>3. Ordered(r)
      BY <1>o, <3>1, <3>2 DEF Ordered, Handlers, Fine, Before
    <3> QED
      BY <1>o, <3>1, <3>2, <3>3 DEF Good, Fine, Passes, IsCounted, Before, OnDirectWay
  <2> QED BY <2>1, <2>2, <2>3
<1>18. CASE UnsetDirect(c)
  <2>1. \/ /\ o.pc = "unsetUpstream" /\ UNCHANGED active
           /\ r = [o EXCEPT !.pc = "untrackUp", !.directs = @ \ {"upstream"}]
        \/ /\ o.pc = "undirect" /\ UNCHANGED active
           /\ r = [o EXCEPT !.pc = "untrack", !.directs = @ \ {"client"}]
    BY <1>18, Went DEF UnsetDirect, Steps, At
  <2> HIDE DEF o, r
  <2>2. CASE /\ o.pc = "unsetUpstream" /\ UNCHANGED active
             /\ r = [o EXCEPT !.pc = "untrackUp", !.directs = @ \ {"upstream"}]
    <3>p. "untrackUp" \in Pcs
      BY DEF Pcs
    <3>1. r \in Handlers
      BY <1>o, <2>2, <3>p DEF Handlers, Ends
    <3>2. /\ o.pc = "unsetUpstream" /\ UNCHANGED active
          /\ r.pc = "untrackUp" /\ r.direct = o.direct /\ r.open = o.open
          /\ r.directs = o.directs \ {"upstream"} /\ r.finished = o.finished
          /\ r.sent = o.sent /\ r.pos = o.pos /\ r.got = o.got
      BY <1>o, <2>2 DEF Handlers
    <3>3. Ordered(r)
      BY <1>o, <3>1, <3>2 DEF Ordered, Handlers, Fine, Before
    <3> QED
      BY <1>o, <3>1, <3>2, <3>3 DEF Good, Fine, Passes, IsCounted, Before, OnDirectWay
  <2>3. CASE /\ o.pc = "undirect" /\ UNCHANGED active
             /\ r = [o EXCEPT !.pc = "untrack", !.directs = @ \ {"client"}]
    <3>p. "untrack" \in Pcs
      BY DEF Pcs
    <3>1. r \in Handlers
      BY <1>o, <2>3, <3>p DEF Handlers, Ends
    <3>2. /\ o.pc = "undirect" /\ UNCHANGED active
          /\ r.pc = "untrack" /\ r.direct = o.direct /\ r.open = o.open
          /\ r.directs = o.directs \ {"client"} /\ r.finished = o.finished
          /\ r.sent = o.sent /\ r.pos = o.pos /\ r.got = o.got
      BY <1>o, <2>3 DEF Handlers
    <3>3. Ordered(r)
      BY <1>o, <3>1, <3>2 DEF Ordered, Handlers, Fine, Before
    <3> QED
      BY <1>o, <3>1, <3>2, <3>3 DEF Good, Fine, Passes, IsCounted, Before, OnDirectWay
  <2> QED BY <2>1, <2>2, <2>3
<1>19. CASE Untrack(c)
  <2>1. o.pc = "untrack" /\ UNCHANGED active
        /\ r = [NoHandler EXCEPT !.pc = "gone", !.conns = o.conns \ {"client"},
                !.open = o.open \ {"client"}, !.directs = o.directs, !.waiter = o.waiter,
                !.finished = o.finished]
    BY <1>19, Went DEF Untrack, Steps
  <2> HIDE DEF o, r
  <2>p. "gone" \in Pcs
    BY DEF Pcs
  <2>2. r \in Handlers
    BY <1>o, <2>1, EmptySeq, <2>p, ZenonT(60) DEF Handlers, Ends, NoHandler
  <2>3. /\ o.pc = "untrack" /\ UNCHANGED active
        /\ r.pc = "gone" /\ r.direct = FALSE /\ r.open = o.open \ {"client"}
        /\ r.directs = o.directs /\ r.finished = o.finished
        /\ r.sent = 0 /\ r.pos = 0 /\ r.got = <<>>
    BY <1>o, <2>1 DEF Handlers, NoHandler
  <2>4. Ordered(r)
    BY <1>o, <2>2, <2>3 DEF Ordered, Handlers, Fine, Before
  <2> QED
    BY <1>o, <2>2, <2>3, <2>4 DEF Good, Fine, Passes, IsCounted, Before, OnDirectWay
<1> QED BY <1>1, <1>2, <1>3, <1>4, <1>5, <1>6, <1>7, <1>8, <1>9, <1>10, <1>11,
          <1>12, <1>13, <1>14, <1>15, <1>16, <1>17, <1>18, <1>19 DEF Handler

-----------------------------------------------------------------------------
\* The browser's steps, the daemon's answer and the two pipes.

LEMMA ByteAdded ==
  ASSUME NEW got \in Seq(Letters), NEW pos \in 1..2, Len(got) = pos,
         \A i \in 1..pos : got[i] = Bytes[i]
  PROVE  /\ got \o <<Bytes[pos + 1]>> \in Seq(Letters)
         /\ Told(FALSE, pos + 1, got \o <<Bytes[pos + 1]>>)
<1>1. Bytes[pos + 1] \in Letters
  BY DEF Bytes, Letters
<1> DEFINE b == <<Bytes[pos + 1]>>
<1>2. b \in Seq(Letters) /\ Len(b) = 1 /\ b[1] = Bytes[pos + 1]
  BY <1>1
<1> HIDE DEF b
<1>3. /\ got \o b \in Seq(Letters) /\ Len(got \o b) = pos + 1
      /\ \A i \in 1..pos : (got \o b)[i] = got[i]
      /\ (got \o b)[pos + 1] = b[1]
  BY <1>2, ConcatProperties
<1>4. \A i \in 1..(pos + 1) : i \in 1..pos \/ i = pos + 1
  OBVIOUS
<1>5. \A i \in 1..(pos + 1) : (got \o b)[i] = Bytes[i]
  BY <1>2, <1>3, <1>4
<1> QED BY <1>3, <1>5 DEF Told, b

LEMMA HeadTold ==
  /\ <<"v">> \in Seq(Letters) /\ <<"v">> # <<>> /\ Len(<<"v">>) = 1
  /\ \A i \in 1..1 : <<"v">>[i] = Bytes[i]
BY DEF Letters, Bytes

LEMMA DataTold ==
  /\ <<>> \o <<Bytes[3]>> \in Seq(Letters)
  /\ Told(TRUE, 3, <<>> \o <<Bytes[3]>>)
BY DEF Letters, Bytes, Told

LEMMA PipeOutGood ==
  ASSUME h \in [Conns -> Handlers], NEW c \in Conns, Fine(h[c]), Ordered(h[c]), PipeOut(c)
  PROVE  Good(h[c], h'[c]) /\ h' = [h EXCEPT ![c] = h'[c]] /\ UNCHANGED calls
<1> DEFINE o == h[c]
           r == h'[c]
           more == o.got \o Head1(c)
           next == more \o <<Bytes[o.pos + 1]>>
<1>1. /\ o \in Handlers /\ Fine(o) /\ Ordered(o) /\ o.pc = "splice" /\ o.out = "read"
      /\ UNCHANGED active /\ UNCHANGED calls
  BY DEF PipeOut
<1>2. \/ o.pos < o.sent /\ r = [o EXCEPT !.got = next, !.pos = @ + 1]
      \/ r = [o EXCEPT !.out = "end", !.got = more]
      \/ r = [o EXCEPT !.out = "end", !.got = o.got]
  BY DEF PipeOut
<1>3. h' = [h EXCEPT ![c] = r]
  BY DEF PipeOut
<1> SUFFICES Good(o, r)
  BY <1>1, <1>3 DEF calls
<1> DEFINE Sent(pos, s) == s # <<>> /\ Len(s) = pos /\ \A i \in 1..pos : s[i] = Bytes[i]
<1>g. /\ o.got \in Seq(Letters) /\ o.direct \in BOOLEAN /\ o.pos \in Nat /\ o.sent \in Nat
      /\ o.pos <= o.sent /\ o.sent <= 3
      /\ Head1(c) = (IF o.got = <<>> /\ ~o.direct THEN <<"v">> ELSE <<>>)
      /\ o.got = <<>> => o.pos = (IF o.direct THEN 2 ELSE 1)
      /\ o.got # <<>> => Told(o.direct, o.pos, o.got)
  BY <1>1 DEF Handlers, Ordered, Head1
<1> HIDE DEF o, r
<1>4. more \in Seq(Letters) /\ (~o.direct => Sent(o.pos, more)) /\ (o.direct => more = o.got)
  <2>1. CASE o.got = <<>> /\ ~o.direct
    <3>1. more = <<"v">> /\ o.pos = 1
      BY <2>1, <1>g, HeadTold, ConcatEmptySeq
    <3> QED BY <3>1, <2>1, HeadTold
  <2>2. CASE ~(o.got = <<>> /\ ~o.direct)
    <3>1. more = o.got
      BY <2>2, <1>g, ConcatEmptySeq
    <3> QED BY <3>1, <2>2, <1>g DEF Told
  <2> QED BY <2>1, <2>2
<1>5. ASSUME o.pos < o.sent
      PROVE  next \in Seq(Letters) /\ Told(o.direct, o.pos + 1, next)
  <2>1. CASE o.direct
    <3>1. o.pos = 2 /\ o.got = <<>>
      BY <2>1, <1>5, <1>g DEF Told
    <3>2. o.direct = TRUE /\ o.pos + 1 = 3 /\ more = <<>>
      BY <3>1, <2>1, <1>4, <1>g
    <3> HIDE DEF more
    <3> QED BY <3>2, DataTold
  <2>2. CASE ~o.direct
    <3>1. Sent(o.pos, more) /\ more \in Seq(Letters)
      BY <2>2, <1>4
    <3>2. o.pos \in 1..2
      <4>1. o.pos # 0
        BY <3>1, EmptySeq
      <4> QED BY <4>1, <1>5, <1>g
    <3> HIDE DEF more
    <3>3. next \in Seq(Letters) /\ Told(FALSE, o.pos + 1, next)
      BY <3>1, <3>2, ByteAdded
    <3>4. o.direct = FALSE
      BY <2>2, <1>g
    <3> QED BY <3>3, <3>4
  <2> QED BY <2>1, <2>2
<1>6. (more # <<>> => Told(o.direct, o.pos, more))
      /\ (more = <<>> => o.direct /\ o.got = <<>>)
  BY <1>4, <1>g DEF Told
<1> HIDE DEF more, next
<1>7. CASE o.pos < o.sent /\ r = [o EXCEPT !.got = next, !.pos = @ + 1]
  <2>a. next \in Seq(Letters) /\ o.pos + 1 \in Nat
    BY <1>7, <1>5, <1>g
  <2>1. r \in Handlers
    BY <1>1, <1>7, <2>a DEF Handlers
  <2>2. /\ r.pc = o.pc /\ r.direct = o.direct /\ r.open = o.open /\ r.directs = o.directs
        /\ r.finished = o.finished /\ r.sent = o.sent /\ r.pos = o.pos + 1 /\ r.got = next
    BY <1>1, <1>7 DEF Handlers
  <2>3. Ordered(r)
    BY <1>1, <1>7, <1>5, <1>g, <2>1, <2>2 DEF Ordered, Told
  <2> QED BY <1>1, <2>1, <2>2, <2>3 DEF Good, Fine, Passes, IsCounted
<1>8. CASE r = [o EXCEPT !.out = "end", !.got = more]
  <2>1. r \in Handlers
    BY <1>1, <1>8, <1>4, <1>5, <1>g DEF Handlers
  <2>2. /\ r.pc = o.pc /\ r.direct = o.direct /\ r.open = o.open /\ r.directs = o.directs
        /\ r.finished = o.finished /\ r.sent = o.sent /\ r.pos = o.pos /\ r.got = more
    BY <1>1, <1>8 DEF Handlers
  <2>3. Ordered(r)
    BY <1>1, <1>8, <1>4, <1>6, <1>g, <2>1, <2>2 DEF Ordered
  <2> QED BY <1>1, <2>1, <2>2, <2>3 DEF Good, Fine, Passes, IsCounted
<1>9. CASE r = [o EXCEPT !.out = "end", !.got = o.got]
  <2>1. r \in Handlers
    BY <1>1, <1>9, <1>4, <1>5, <1>g DEF Handlers
  <2>2. /\ r.pc = o.pc /\ r.direct = o.direct /\ r.open = o.open /\ r.directs = o.directs
        /\ r.finished = o.finished /\ r.sent = o.sent /\ r.pos = o.pos /\ r.got = o.got
    BY <1>1, <1>9 DEF Handlers
  <2>3. Ordered(r)
    BY <1>1, <1>9, <1>g, <1>g, <2>1, <2>2 DEF Ordered
  <2> QED BY <1>1, <2>1, <2>2, <2>3 DEF Good, Fine, Passes, IsCounted
<1> QED BY <1>2, <1>7, <1>8, <1>9

LEMMA OutsideGood ==
  ASSUME h \in [Conns -> Handlers], NEW c \in Conns, Fine(h[c]), Ordered(h[c]),
         \/ \E kind \in Kinds : Accept(c, kind)
         \/ Sends(c) \/ Leaves(c) \/ Acquire(c) \/ PipeIn(c)
  PROVE  Good(h[c], h'[c]) /\ h' = [h EXCEPT ![c] = h'[c]] /\ UNCHANGED calls
<1> DEFINE o == h[c]
           r == h'[c]
<1>o. o \in Handlers /\ Fine(o) /\ Ordered(o)
  OBVIOUS
<1>r. h' = [h EXCEPT ![c] = r] /\ UNCHANGED active /\ UNCHANGED calls
  BY Went DEF Accept, Sends, Leaves, Acquire, PipeIn
<1> SUFFICES Good(o, r)
  BY <1>r DEF calls
<1>1. CASE \E kind \in Kinds : Accept(c, kind)
  <2>1. PICK kind \in Kinds :
           /\ o.pc = "none"
           /\ r = [NoHandler EXCEPT !.pc = "accepted", !.kind = kind, !.open = {"client"}]
    BY <1>1, Went DEF Accept
  <2> HIDE DEF o, r
  <2>2. r \in Handlers
    <3>1. "accepted" \in Pcs
      BY DEF Pcs
    <3> QED BY <1>o, <2>1, <3>1, EmptySeq, ZenonT(60) DEF Handlers, Ends, NoHandler
  <2>3. /\ o.pc = "none" /\ r.pc = "accepted" /\ r.direct = FALSE /\ r.finished = {}
        /\ r.sent = 0 /\ r.pos = 0 /\ r.got = <<>>
    BY <2>1 DEF NoHandler
  <2>4. Ordered(r)
    BY <2>3 DEF Ordered
  <2> QED BY <1>r, <2>2, <2>3, <2>4 DEF Good, Fine, Passes, IsCounted, Before, OnDirectWay
<1>2. CASE Sends(c)
  <2>1. r = [o EXCEPT !.sent = @ + 1] /\ o.sent < 3
    BY <1>2 DEF Sends, Bytes
  <2> HIDE DEF o, r
  <2>a. o.sent + 1 \in Nat
    BY <1>o DEF Handlers
  <2>2. r \in Handlers
    BY <1>o, <2>1, <2>a DEF Handlers
  <2>3. /\ r.pc = o.pc /\ r.direct = o.direct /\ r.open = o.open /\ r.directs = o.directs
        /\ r.finished = o.finished /\ r.pos = o.pos /\ r.got = o.got /\ r.sent = o.sent + 1
    BY <1>o, <2>1 DEF Handlers
  <2>4. Ordered(r)
    BY <1>o, <2>1, <2>3 DEF Ordered, Handlers
  <2> QED BY <1>o, <1>r, <2>2, <2>3, <2>4 DEF Good, Fine, Passes, IsCounted
<1>3. CASE Leaves(c)
  <2>1. r = [o EXCEPT !.eof = TRUE]
    BY <1>3 DEF Leaves
  <2> HIDE DEF o, r
  <2>2. r \in Handlers
    BY <1>o, <2>1 DEF Handlers
  <2>3. /\ r.pc = o.pc /\ r.direct = o.direct /\ r.open = o.open /\ r.directs = o.directs
        /\ r.finished = o.finished /\ r.pos = o.pos /\ r.got = o.got /\ r.sent = o.sent
    BY <1>o, <2>1 DEF Handlers
  <2>4. Ordered(r)
    BY <1>o, <2>1, <2>3 DEF Ordered, Handlers
  <2> QED BY <1>o, <1>r, <2>2, <2>3, <2>4 DEF Good, Fine, Passes, IsCounted
<1>4. CASE Acquire(c)
  <2>1. r = [o EXCEPT !.answer = IF vpn = "up" THEN "port" ELSE "refused"]
    BY <1>4 DEF Acquire
  <2> HIDE DEF o, r
  <2>2. r \in Handlers
    BY <1>o, <2>1 DEF Handlers
  <2>3. /\ r.pc = o.pc /\ r.direct = o.direct /\ r.open = o.open /\ r.directs = o.directs
        /\ r.finished = o.finished /\ r.pos = o.pos /\ r.got = o.got /\ r.sent = o.sent
    BY <1>o, <2>1 DEF Handlers
  <2>4. Ordered(r)
    BY <1>o, <2>1, <2>3 DEF Ordered, Handlers
  <2> QED BY <1>o, <1>r, <2>2, <2>3, <2>4 DEF Good, Fine, Passes, IsCounted
<1>5. CASE PipeIn(c)
  <2>1. r = [o EXCEPT !.in = "end"]
    BY <1>5 DEF PipeIn
  <2> HIDE DEF o, r
  <2>2. r \in Handlers
    BY <1>o, <2>1 DEF Handlers
  <2>3. /\ r.pc = o.pc /\ r.direct = o.direct /\ r.open = o.open /\ r.directs = o.directs
        /\ r.finished = o.finished /\ r.pos = o.pos /\ r.got = o.got /\ r.sent = o.sent
    BY <1>o, <2>1 DEF Handlers
  <2>4. Ordered(r)
    BY <1>o, <2>1, <2>3 DEF Ordered, Handlers
  <2> QED BY <1>o, <1>r, <2>2, <2>3, <2>4 DEF Good, Fine, Passes, IsCounted
<1> QED BY <1>1, <1>2, <1>3, <1>4, <1>5

-----------------------------------------------------------------------------
\* The count of the demand and what CloseDirect still has to close.

DemandInv == IsFiniteSet(Counted) /\ active = Cardinality(Counted)

AwayInv == vpn = "up" => \A c \in Conns : Passes(h[c]) => <<c, "client">> \in toClose

SafetyInv == HandlersFine /\ DemandInv /\ AwayInv

LEMMA CountedIs == Counted = {c \in Conns : IsCounted(h[c])}
  BY DEF Counted, IsCounted

LEMMA CountedNext == Counted' = {c \in Conns : IsCounted(h'[c])}
  BY DEF Counted, IsCounted

\* A step of one handler keeps its record fine and the count right.
LEMMA OneHandler ==
  ASSUME SafetyInv, NEW c \in Conns, Good(h[c], h'[c]), h' = [h EXCEPT ![c] = h'[c]],
         UNCHANGED calls
  PROVE  SafetyInv'
<1>1. \A d \in Conns : d # c => h'[d] = h[d]
  BY DEF SafetyInv, HandlersFine
<1>2. HandlersFine'
  <2>1. h' \in [Conns -> Handlers]
    BY DEF SafetyInv, HandlersFine, Good
  <2>2. \A d \in Conns : Fine(h'[d]) /\ Ordered(h'[d])
    BY <1>1 DEF SafetyInv, HandlersFine, Good
  <2> QED BY <2>1, <2>2 DEF HandlersFine
<1>3. DemandInv'
  <2>1. IsFiniteSet(Counted) /\ active = Cardinality(Counted)
    BY DEF SafetyInv, DemandInv
  <2>2. CASE (IsCounted(h[c]) <=> IsCounted(h'[c])) /\ UNCHANGED active
    <3>1. Counted' = Counted
      BY <1>1, <2>2, CountedIs, CountedNext
    <3> QED BY <2>1, <2>2, <3>1 DEF DemandInv
  <2>3. CASE ~IsCounted(h[c]) /\ IsCounted(h'[c]) /\ active' = active + 1
    <3>1. Counted' = Counted \cup {c} /\ c \notin Counted
      BY <1>1, <2>3, CountedIs, CountedNext
    <3>2. IsFiniteSet(Counted') /\ Cardinality(Counted') = Cardinality(Counted) + 1
      BY <2>1, <3>1, FS_AddElement
    <3> QED BY <2>1, <2>3, <3>2 DEF DemandInv
  <2>4. CASE IsCounted(h[c]) /\ ~IsCounted(h'[c]) /\ active' = active - 1
    <3>1. Counted' = Counted \ {c} /\ c \in Counted
      BY <1>1, <2>4, CountedIs, CountedNext
    <3>2. IsFiniteSet(Counted') /\ Cardinality(Counted') = Cardinality(Counted) - 1
      BY <2>1, <3>1, FS_RemoveElement
    <3> QED BY <2>1, <2>4, <3>2 DEF DemandInv
  <2> QED BY <2>2, <2>3, <2>4 DEF Good
<1>4. AwayInv'
  <2>1. vpn' = vpn /\ toClose' = toClose
    BY DEF calls
  <2>2. ASSUME vpn' = "up", NEW d \in Conns, Passes(h'[d])
        PROVE  <<d, "client">> \in toClose'
    <3>1. Passes(h[d])
      BY <1>1, <2>1, <2>2 DEF Good
    <3> QED BY <2>1, <2>2, <3>1 DEF SafetyInv, AwayInv
  <2> QED BY <2>2 DEF AwayInv
<1> QED BY <1>2, <1>3, <1>4 DEF SafetyInv

\* What CloseAll, CloseDirect and Stop do to a record: sockets are closed, the handler is cancelled.
Closed(o, r) ==
    /\ r \in Handlers /\ r.open \subseteq o.open
    /\ r.pc = o.pc /\ r.direct = o.direct /\ r.directs = o.directs /\ r.finished = o.finished
    /\ r.sent = o.sent /\ r.pos = o.pos /\ r.got = o.got

LEMMA AllHandlers ==
  ASSUME SafetyInv, \A c \in Conns : Closed(h[c], h'[c]), h' \in [Conns -> Handlers],
         UNCHANGED active
  PROVE  HandlersFine' /\ DemandInv' /\ \A c \in Conns : Passes(h'[c]) => Passes(h[c])
<1>1. ASSUME NEW c \in Conns
      PROVE  /\ Fine(h'[c]) /\ Ordered(h'[c]) /\ (Passes(h'[c]) => Passes(h[c]))
             /\ (IsCounted(h[c]) <=> IsCounted(h'[c]))
  <2> DEFINE o == h[c]
             r == h'[c]
  <2>1. Fine(o) /\ Ordered(o) /\ Closed(o, r)
    BY DEF SafetyInv, HandlersFine
  <2> HIDE DEF o, r
  <2>2. Fine(r) /\ (Passes(r) => Passes(o)) /\ (IsCounted(o) <=> IsCounted(r))
    BY <2>1 DEF Closed, Fine, Passes, IsCounted
  <2>3. Ordered(r)
    BY <2>1 DEF Closed, Ordered
  <2> QED BY <2>2, <2>3 DEF o, r
<1>2. Counted' = Counted
  BY <1>1, CountedIs, CountedNext
<1> QED BY <1>1, <1>2 DEF SafetyInv, HandlersFine, DemandInv
\* Cut closes sockets and remembers who did.
LEMMA CutCloses ==
  ASSUME h \in [Conns -> Handlers], NEW pairs, NEW by \in {"all", "direct"}, Cut(pairs, by)
  PROVE  /\ h' \in [Conns -> Handlers]
         /\ \A c \in Conns : Closed(h[c], h'[c])
         /\ \A c \in Conns : <<c, "client">> \in pairs => "client" \notin h'[c].open
<1>1. ASSUME NEW c \in Conns
      PROVE  Closed(h[c], h'[c]) /\ (<<c, "client">> \in pairs => "client" \notin h'[c].open)
  <2> DEFINE o == h[c]
             r == h'[c]
             rest == {e \in o.open : <<c, e>> \notin pairs}
             who == IF \E e \in Ends : <<c, e>> \in pairs THEN by ELSE o.cut
  <2>1. o \in Handlers /\ r = [o EXCEPT !.open = rest, !.cut = who]
    BY DEF Cut
  <2>2. who \in {"no", "all", "direct"} /\ rest \subseteq o.open /\ rest \subseteq Ends
    BY <2>1 DEF Handlers
  <2>3. "client" \in rest => <<c, "client">> \notin pairs
    OBVIOUS
  <2> HIDE DEF o, r, rest, who
  <2>4. Closed(o, r) /\ r.open = rest
    BY <2>1, <2>2 DEF Closed, Handlers
  <2> QED BY <2>3, <2>4 DEF o, r
<1>2. h' \in [Conns -> Handlers]
  <2>1. \A c \in Conns : h'[c] \in Handlers
    BY <1>1 DEF Closed
  <2> QED BY <2>1 DEF Cut
<1> QED BY <1>1, <1>2

\* Cancel and Stop cancel handlers.
LEMMA CancelCloses ==
  ASSUME h \in [Conns -> Handlers], Cancel \/ Stopped
  PROVE  h' \in [Conns -> Handlers] /\ \A c \in Conns : Closed(h[c], h'[c])
<1>1. ASSUME NEW c \in Conns
      PROVE  Closed(h[c], h'[c])
  <2> DEFINE o == h[c]
             r == h'[c]
  <2>1. /\ o \in Handlers
        /\ \E b \in BOOLEAN : r = o \/ r = [o EXCEPT !.cancelled = b]
    BY DEF Cancel, Stopped
  <2>2. PICK b \in BOOLEAN : r = o \/ r = [o EXCEPT !.cancelled = b]
    BY <2>1
  <2> HIDE DEF o, r
  <2>3. Closed(o, r)
    BY <2>1, <2>2, ZenonT(60) DEF Closed, Handlers
  <2> QED BY <2>3 DEF o, r
<1>2. h' \in [Conns -> Handlers]
  <2>1. \A c \in Conns : h'[c] \in Handlers
    BY <1>1 DEF Closed
  <2> QED BY <2>1 DEF Cancel, Stopped
<1> QED BY <1>1, <1>2

LEMMA SafetyInit == Init => SafetyInv
<1> SUFFICES ASSUME Init PROVE SafetyInv
  OBVIOUS
<1>1. NoHandler \in Handlers
  BY EmptySeq DEF Handlers, NoHandler, Pcs, Ends
<1>2. Fine(NoHandler) /\ ~Passes(NoHandler) /\ ~IsCounted(NoHandler)
  BY DEF NoHandler, Fine, Passes, IsCounted, Before, OnDirectWay
<1>3. Ordered(NoHandler)
  BY DEF NoHandler, Ordered
<1>4. HandlersFine /\ AwayInv
  BY <1>1, <1>2, <1>3 DEF Init, HandlersFine, AwayInv
<1>5. Counted = {}
  BY <1>2, CountedIs DEF Init
<1>6. DemandInv
  BY <1>5, FS_EmptySet DEF Init, DemandInv
<1> QED BY <1>4, <1>6 DEF SafetyInv

\* The steps that change no handler's record.
LEMMA NothingMoves ==
  ASSUME SafetyInv, UNCHANGED <<h, active>>
  PROVE  HandlersFine' /\ DemandInv' /\ \A c \in Conns : Passes(h'[c]) => Passes(h[c])
<1>1. h' = h /\ active' = active /\ Counted' = Counted
  BY DEF Counted
<1> QED BY <1>1 DEF SafetyInv, HandlersFine, DemandInv

LEMMA SafetyNext == SafetyInv /\ [Next]_vars => SafetyInv'
<1> SUFFICES ASSUME SafetyInv, [Next]_vars PROVE SafetyInv'
  OBVIOUS
<1>1. CASE \E c \in Conns :
             \/ \E kind \in Kinds : Accept(c, kind)
             \/ Sends(c) \/ Leaves(c) \/ Acquire(c) \/ Handler(c) \/ PipeOut(c) \/ PipeIn(c)
  <2>1. PICK c \in Conns :
             \/ \E kind \in Kinds : Accept(c, kind)
             \/ Sends(c) \/ Leaves(c) \/ Acquire(c) \/ Handler(c) \/ PipeOut(c) \/ PipeIn(c)
    BY <1>1
  <2>2. h \in [Conns -> Handlers] /\ Fine(h[c]) /\ Ordered(h[c])
    BY DEF SafetyInv, HandlersFine
  <2>3. Good(h[c], h'[c]) /\ h' = [h EXCEPT ![c] = h'[c]] /\ UNCHANGED calls
    BY <2>1, <2>2, HandlerGood, PipeOutGood, OutsideGood
  <2> QED BY <2>3, OneHandler
<1>2. CASE VpnUp
  <2>1. UNCHANGED <<h, active>> /\ toClose' = Directs
    BY <1>2 DEF VpnUp
  <2>2. HandlersFine' /\ DemandInv' /\ \A c \in Conns : Passes(h'[c]) => Passes(h[c])
    BY <2>1, NothingMoves
  <2>3. ASSUME NEW c \in Conns, Passes(h'[c])
        PROVE  <<c, "client">> \in toClose'
    <3>1. "client" \in h[c].directs
      BY <2>2, <2>3 DEF SafetyInv, HandlersFine, Fine
    <3> QED BY <2>1, <3>1 DEF Directs, Ends
  <2> QED BY <2>2, <2>3 DEF SafetyInv, AwayInv
<1>3. CASE VpnChanges
  <2>1. UNCHANGED <<h, active>> /\ vpn' # "up"
    BY <1>3 DEF VpnChanges
  <2> QED BY <2>1, NothingMoves DEF SafetyInv, AwayInv
<1>4. CASE CloseDirect
  <2>1. Cut(toClose, "direct") /\ UNCHANGED <<active, vpn>>
    BY <1>4 DEF CloseDirect
  <2>2. /\ h' \in [Conns -> Handlers]
        /\ \A c \in Conns : Closed(h[c], h'[c])
        /\ \A c \in Conns : <<c, "client">> \in toClose => "client" \notin h'[c].open
    BY <2>1, CutCloses DEF SafetyInv, HandlersFine
  <2>3. HandlersFine' /\ DemandInv' /\ \A c \in Conns : Passes(h'[c]) => Passes(h[c])
    BY <2>1, <2>2, AllHandlers
  <2>4. vpn' = "up" => \A c \in Conns : ~Passes(h'[c])
    BY <2>1, <2>2, <2>3 DEF SafetyInv, AwayInv, Passes
  <2> QED BY <2>3, <2>4 DEF SafetyInv, AwayInv
<1>5. CASE CloseConns \/ Cancel \/ Stopped
  <2>1. UNCHANGED active /\ UNCHANGED vpn /\ UNCHANGED toClose
    BY <1>5 DEF CloseConns, Cancel, Stopped
  <2>2. h' \in [Conns -> Handlers] /\ \A c \in Conns : Closed(h[c], h'[c])
    BY <1>5, CutCloses, CancelCloses DEF CloseConns, SafetyInv, HandlersFine
  <2>3. HandlersFine' /\ DemandInv' /\ \A c \in Conns : Passes(h'[c]) => Passes(h[c])
    BY <2>1, <2>2, AllHandlers
  <2> QED BY <2>1, <2>3 DEF SafetyInv, AwayInv
<1>6. CASE CloseAll \/ Stop \/ Waited \/ Collect \/ UNCHANGED vars
  <2>1. UNCHANGED <<h, active>> /\ UNCHANGED vpn /\ UNCHANGED toClose
    BY <1>6 DEF CloseAll, Stop, Waited, Collect, vars
  <2> QED BY <2>1, NothingMoves DEF SafetyInv, AwayInv
<1> QED BY <1>1, <1>2, <1>3, <1>4, <1>5, <1>6 DEF Next, Closing

\* For any number of connections: the handlers' records are as the code's order of steps makes them,
\* the count is that of the connections that want the tunnel, and a website that was let through
\* and still has its client is one CloseDirect is about to close (handle, direct, CloseDirect).
THEOREM SafetyAlways == Spec => []SafetyInv
<1>1. Init => SafetyInv
  BY SafetyInit
<1>2. SafetyInv /\ [Next]_vars => SafetyInv'
  BY SafetyNext
<1> QED BY <1>1, <1>2, PTL DEF Spec

-----------------------------------------------------------------------------
\* A handler whose waiter is done keeps up no demand, with any number of connections
\* (handle, CloseAll).
THEOREM DoneIsNoDemandAlways == Spec => []DoneIsNoDemand
<1>1. SafetyInv => DoneIsNoDemand
  BY CountedIs DEF SafetyInv, HandlersFine, Fine, IsCounted, Before, DemandInv, DoneIsNoDemand
<1> QED BY <1>1, SafetyAlways, PTL

\* Once the tunnel is up and CloseDirect is through, every client let through before is closed,
\* however many there are (direct, CloseDirect, Daemon.directHosts).
THEOREM DirectOnlyWhileAwayAlways == Spec => []DirectOnlyWhileAway
<1>1. SafetyInv => DirectOnlyWhileAway
  BY DEF SafetyInv, AwayInv, DirectOnlyWhileAway, LetThrough, Passes, Locked
<1> QED BY <1>1, SafetyAlways, PTL

LEMMA PrefixByElements ==
  ASSUME NEW S, NEW s \in Seq(S), NEW t \in Seq(S), Len(s) <= Len(t),
         \A i \in 1..Len(s) : s[i] = t[i]
  PROVE  IsPrefix(s, t)
<1>1. Len(s) \in Nat /\ Len(t) \in Nat
  BY LenProperties
<1>2. (\A i \in 1..Len(s) : s[i] \in S) /\ (\A i \in 1..Len(s) : t[i] \in S)
  BY <1>1, ElementOfSeq
<1>3. /\ SubSeq(s, 1, Len(s)) \in Seq(S) /\ Len(SubSeq(s, 1, Len(s))) = Len(s)
      /\ \A i \in 1..Len(s) : SubSeq(s, 1, Len(s))[i] = s[i]
  BY <1>1, <1>2, SubSeqProperties
<1>4. /\ SubSeq(t, 1, Len(s)) \in Seq(S) /\ Len(SubSeq(t, 1, Len(s))) = Len(s)
      /\ \A i \in 1..Len(s) : SubSeq(t, 1, Len(s))[i] = t[i]
  BY <1>1, <1>2, SubSeqProperties
<1>5. SubSeq(s, 1, Len(s)) = SubSeq(t, 1, Len(s))
  BY <1>3, <1>4, SeqEqual
<1> QED BY <1>5 DEF IsPrefix

LEMMA PassedInOrder ==
  ASSUME NEW r \in Handlers, Ordered(r)
  PROVE  IF r.direct THEN IsPrefix(r.got, <<"d">>) ELSE IsPrefix(r.got, SubSeq(Bytes, 1, r.sent))
<1> DEFINE got == r.got
           first == SubSeq(Bytes, 1, r.sent)
           data == <<"d">>
<1>1. /\ got \in Seq(Letters) /\ r.direct \in BOOLEAN /\ r.pos \in Nat /\ r.sent \in 0..3
      /\ r.pos <= r.sent /\ (got # <<>> => Told(r.direct, r.pos, got))
  BY DEF Ordered, Handlers
<1>2. data \in Seq(Letters) /\ Len(data) = 1 /\ data[1] = "d"
  BY DEF Letters
<1>3. \A i \in 1..r.sent : Bytes[i] \in Letters
  BY <1>1 DEF Bytes, Letters
<1>4. /\ first \in Seq(Letters) /\ Len(first) = r.sent
      /\ \A i \in 1..r.sent : first[i] = Bytes[i]
  BY <1>1, <1>3, SubSeqProperties
<1> HIDE DEF got, first, data
<1>5. Len(got) \in Nat /\ (got = <<>> => Len(got) = 0)
  BY <1>1, LenProperties, EmptySeq
<1>6. r.direct => IsPrefix(got, data)
  <2>1. r.direct => Len(got) <= 1 /\ \A i \in 1..Len(got) : got[i] = data[i]
    <3>1. \A i \in 1..1 : i = 1
      OBVIOUS
    <3>2. CASE got = <<>>
      BY <1>5, <3>2
    <3>3. CASE got # <<>>
      <4>1. r.direct => Len(got) = 1 /\ got[1] = "d"
        BY <1>1, <3>3 DEF Told
      <4>2. r.direct => Len(got) <= 1
        <5>1. 1 <= 1
          OBVIOUS
        <5> QED BY <4>1, <5>1, Zenon
      <4>3. r.direct => \A i \in 1..Len(got) : got[i] = data[i]
        BY <1>2, <3>1, <4>1
      <4> QED BY <4>2, <4>3
    <3> QED BY <3>2, <3>3
  <2> QED BY <1>1, <1>2, <2>1, PrefixByElements
<1>7. ~r.direct => IsPrefix(got, first)
  <2>1. ~r.direct => Len(got) <= r.sent /\ \A i \in 1..Len(got) : got[i] = first[i]
    BY <1>1, <1>4, <1>5 DEF Told
  <2> QED BY <1>1, <1>4, <2>1, PrefixByElements
<1> QED BY <1>1, <1>6, <1>7 DEF got, first, data

\* What reaches a website or the tunnel is what the browser sent, in order and from its first byte,
\* on every one of any number of connections (greets, connectRequest, pipe).
THEOREM BytesInOrderAlways == Spec => []BytesInOrder
<1>1. SafetyInv => BytesInOrder
  BY PassedInOrder DEF SafetyInv, HandlersFine, BytesInOrder
<1> QED BY <1>1, SafetyAlways, PTL
=============================================================================
