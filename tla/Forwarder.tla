----------------------------- MODULE Forwarder -----------------------------
(***************************************************************************)
(* internal/forwarder: one handler per browser connection.  It reads the   *)
(* SOCKS version, asks the daemon for the tunnel's port (acquire), passes  *)
(* bytes on, or connects directly what the daemon's directHosts names.     *)
(* CloseAll, CloseDirect and Stop end connections from other goroutines.   *)
(*                                                                         *)
(* A browser's bytes are the SOCKS version "v", the rest of the greeting   *)
(* and the request "r", and data "d", in this order.                       *)
(***************************************************************************)
EXTENDS Naturals, Sequences, FiniteSets

CONSTANTS
    Conns,       \* browser connections
    Kinds,       \* "listed" and "other" websites, "scan": no SOCKS client
    MaxChanges,  \* changes of the daemon's state
    MaxCloses    \* calls of CloseAll

ASSUME ForwarderAssumption ==
    /\ Kinds \subseteq {"listed", "other", "scan"} /\ MaxChanges \in Nat /\ MaxCloses \in Nat

Bytes == <<"v", "r", "d">>
Ends == {"client", "upstream"}

VARIABLES
    h,          \* each connection's handler
    active,     \* Forwarder.active
    vpn,        \* the daemon: up, waits, refuses, away (listed websites directly)
    changes,
    listening, closes,
    all,        \* CloseAll: its waiters, its connections
    stop,       \* Stop: no, closing (CloseAll runs), wait (for the handlers), over (ctx cancelled)
    toClose     \* CloseDirect: the handlers and ends it collected, under the daemon's lock

vars == <<h, active, vpn, changes, listening, closes, all, stop, toClose>>

\* One handler.  open: sockets not closed by us; conns, directs: what f.conns and f.directs have;
\* waiter: f.waiting has it, at target or dial; finished: waiters whose done is closed; answer:
\* getTarget's; out, in: the two pipes; cut: history, a CloseAll or CloseDirect that closed it.
NoHandler ==
    [pc |-> "none", kind |-> "scan", sent |-> 0, eof |-> FALSE, pos |-> 0, open |-> {}, conns |-> {},
     directs |-> {}, waiter |-> "no", cancelled |-> FALSE, finished |-> {}, answer |-> "none",
     got |-> <<>>, direct |-> FALSE, out |-> "off", in |-> "off", cut |-> "no"]

NoCall == [pc |-> "idle", waiters |-> {}, conns |-> {}]

Init ==
    /\ h = [c \in Conns |-> NoHandler]
    /\ active = 0 /\ vpn \in {"waits", "away"} /\ changes = 0 /\ listening = TRUE /\ closes = 0
    /\ all = NoCall /\ stop = "no" /\ toClose = {}

\* The daemon's mutex is held by the loop while CloseDirect runs.
Locked == toClose # {}

\* Handler c, at pc, goes on as record r.
Goes(c, pc, r) == h[c].pc = pc /\ h' = [h EXCEPT ![c] = r]
At(c, pc) == [h[c] EXCEPT !.pc = pc]

calls == <<vpn, changes, listening, closes, all, stop, toClose>>
Steps(c, pc, r) == Goes(c, pc, r) /\ UNCHANGED <<active, calls>>

-----------------------------------------------------------------------------
\* serve: Accept, the handler's goroutine starts.
Accept(c, kind) ==
    /\ listening
    /\ Goes(c, "none", [NoHandler EXCEPT !.pc = "accepted", !.kind = kind, !.open = {"client"}])
    /\ UNCHANGED <<active, calls>>

\* It may still read what the browser does.
Reading(c) == h[c].pc \notin {"none", "leave", "leaveDone", "undirect", "untrack", "gone"}

\* The browser sends on, or closes its end (both may still be read).
Sends(c) ==
    /\ Reading(c) /\ ~h[c].eof /\ h[c].sent < Len(Bytes)
    /\ h' = [h EXCEPT ![c].sent = @ + 1]
    /\ UNCHANGED <<active, calls>>

Leaves(c) ==
    /\ Reading(c) /\ ~h[c].eof
    /\ h' = [h EXCEPT ![c].eof = TRUE]
    /\ UNCHANGED <<active, calls>>

Track(c) ==
    Steps(c, "accepted", [At(c, "greet") EXCEPT !.conns = {"client"}])

\* greets: the first byte is the SOCKS version; otherwise also when nothing comes in greetWait.
Greets(c) ==
    /\ \/ /\ h[c].sent > 0 /\ "client" \in h[c].open
          /\ h[c].kind # "scan"
          /\ Goes(c, "greet", [At(c, "register") EXCEPT !.pos = 1])
          /\ active' = active + 1
       \/ /\ h[c].kind = "scan" \/ h[c].sent = 0 \/ "client" \notin h[c].open
          /\ Goes(c, "greet", At(c, "untrack"))
          /\ UNCHANGED active
    /\ UNCHANGED calls

\* cancellable: CloseAll may cancel it from here on; Forwarder.ctx may be over already.
Waiting(c, pc, what) ==
    [At(c, pc) EXCEPT !.waiter = what, !.cancelled = (stop = "over")]

Register(c) ==
    Steps(c, "register", Waiting(c, "target", "target"))

\* Daemon.acquire on a goroutine of its own: the port, refused, or late (ClientWait).
Acquire(c) ==
    /\ h[c].waiter = "target" /\ h[c].answer = "none" /\ ~Locked
    /\ h' = [h EXCEPT ![c].answer = IF vpn = "up" THEN "port" ELSE "refused"]
    /\ UNCHANGED <<active, calls>>

\* target: an answer, or cancelled; end takes the handler off the waiting ones.
Target(c) ==
    /\ \E then \in (IF h[c].answer = "port" THEN {"dial"} ELSE {}) \cup
                   (IF h[c].answer = "refused" THEN {"refused"} ELSE {}) \cup
                   (IF h[c].cancelled THEN {"cancelled"} ELSE {}) :
          Goes(c, "target", [At(c, then) EXCEPT !.waiter = "no", !.answer = "none"])
    /\ UNCHANGED <<active, calls>>

Done(c, r, what) == [r EXCEPT !.finished = @ \cup {what}]

\* Refused or cancelled: no demand any more, then the waiter is done.
Refused(c) ==
    /\ \E from \in {"refused", "cancelled"} :
          /\ Goes(c, from, At(c, IF from = "refused" THEN "refusedDone" ELSE "cancelledDone"))
          /\ active' = active - 1
    /\ UNCHANGED calls

RefusedDone(c) ==
    /\ \/ Goes(c, "refusedDone", Done(c, At(c, "direct"), "target"))
       \/ Goes(c, "cancelledDone", Done(c, At(c, "untrack"), "target"))
    /\ UNCHANGED <<active, calls>>

\* The dial to ocproxy, whose port may be gone again; the upstream connection is tracked after it.
Dial(c) ==
    /\ \/ vpn = "up" /\ stop # "over" /\ Goes(c, "dial", [At(c, "trackUp") EXCEPT !.open = @ \cup {"upstream"}])
       \/ (vpn # "up" \/ stop = "over") /\ Goes(c, "dial", At(c, "leave"))
    /\ UNCHANGED <<active, calls>>

Splice(c) == [At(c, "splice") EXCEPT !.out = "read", !.in = "read"]

TrackUp(c) ==
    Steps(c, "trackUp", [Splice(c) EXCEPT !.conns = @ \cup {"upstream"}])

-----------------------------------------------------------------------------
\* Mutant: the daemon is asked before CloseDirect can see the client.
HostsFirst(c) ==
    /\ ~Locked
    /\ \/ vpn = "away" /\ Goes(c, "direct", [At(c, "setLate") EXCEPT !.direct = TRUE])
       \/ vpn # "away" /\ Goes(c, "direct", At(c, "undirect"))
       \/ Goes(c, "setLate", [At(c, "request") EXCEPT !.directs = {"client"}])
    /\ UNCHANGED <<active, calls>>

\* direct: CloseDirect sees the client before the daemon is asked.
SetDirect(c) ==
    Steps(c, "direct", [At(c, "hosts") EXCEPT !.directs = {"client"}])

\* Daemon.directHosts: the listed websites only while the gateway cannot be reached.
Hosts(c) ==
    /\ ~Locked
    /\ \/ vpn = "away" /\ Goes(c, "hosts", [At(c, "request") EXCEPT !.direct = TRUE])
       \/ vpn # "away" /\ Goes(c, "hosts", At(c, "undirect"))
    /\ UNCHANGED <<active, calls>>

\* connectRequest: greeting and request, or it does not come in time; a website that is not listed
\* is turned down.
Request(c) ==
    /\ \/ /\ h[c].sent >= 2 /\ "client" \in h[c].open /\ h[c].kind = "listed"
          /\ Goes(c, "request", [Waiting(c, "dialDirect", "dial") EXCEPT !.pos = 2])
       \/ /\ h[c].sent < 2 \/ "client" \notin h[c].open \/ h[c].kind # "listed"
          /\ Goes(c, "request", At(c, "undirect"))
    /\ UNCHANGED <<active, calls>>

\* The direct dial: connected, not reachable, or cancelled.
DialDirect(c) ==
    LET ended(pc) == [Done(c, At(c, pc), "dial") EXCEPT !.waiter = "no"]
    IN /\ \/ /\ ~h[c].cancelled
             /\ Goes(c, "dialDirect", [ended("trackDirect") EXCEPT !.open = @ \cup {"upstream"}])
          \/ Goes(c, "dialDirect", ended("undirect"))
       /\ UNCHANGED <<active, calls>>

TrackDirect(c) ==
    /\ \/ Goes(c, "trackDirect", [At(c, "setUpstream") EXCEPT !.conns = @ \cup {"upstream"}])
       \/ Goes(c, "setUpstream", [At(c, "reply") EXCEPT !.directs = @ \cup {"upstream"}])
    /\ UNCHANGED <<active, calls>>

\* A client closed meanwhile gets no reply, and nothing is passed on.
Reply(c) ==
    Steps(c, "reply", IF "client" \in h[c].open THEN Splice(c) ELSE At(c, "unsetUpstream"))

-----------------------------------------------------------------------------
\* The byte greets read goes out with the first bytes of a connection through the tunnel.
Head1(c) == IF h[c].got = <<>> /\ ~h[c].direct THEN <<"v">> ELSE <<>>

\* pipe to upstream: bytes are passed on, or the client ended, or one of the two was closed.
PipeOut(c) ==
    /\ h[c].pc = "splice" /\ h[c].out = "read"
    /\ IF Ends \subseteq h[c].open /\ h[c].pos < h[c].sent
       THEN h' = [h EXCEPT ![c].got = @ \o Head1(c) \o <<Bytes[h[c].pos + 1]>>, ![c].pos = @ + 1]
       ELSE /\ \/ h[c].eof \/ "client" \notin h[c].open
               \/ "upstream" \notin h[c].open /\ h[c].pos < h[c].sent
            /\ h' = [h EXCEPT ![c].out = "end",
                              ![c].got = IF "upstream" \in h[c].open THEN @ \o Head1(c) ELSE @]
    /\ UNCHANGED <<active, calls>>

\* pipe from upstream, which may end any time.
PipeIn(c) ==
    /\ h[c].pc = "splice" /\ h[c].in = "read"
    /\ h' = [h EXCEPT ![c].in = "end"]
    /\ UNCHANGED <<active, calls>>

PipeInClosed(c) == "upstream" \notin h[c].open /\ PipeIn(c)

\* Mutant: after one direction the other goes on for as long as it likes.
NoGrace(c) ==
    /\ h[c].pc = "splice" /\ h[c].out = "end" /\ h[c].in = "end"
    /\ h' = [h EXCEPT ![c].pc = IF h[c].direct THEN "unsetUpstream" ELSE "untrackUp"]
    /\ UNCHANGED <<active, calls>>

\* splice: both directions ended, or halfcloseGrace after the first both ends are closed.
Spliced(c) ==
    /\ h[c].pc = "splice" /\ "end" \in {h[c].out, h[c].in}
    /\ IF h[c].out = h[c].in
       THEN h' = [h EXCEPT ![c].pc = IF h[c].direct THEN "unsetUpstream" ELSE "untrackUp"]
       ELSE Ends \cap h[c].open # {} /\ h' = [h EXCEPT ![c].open = {}]
    /\ UNCHANGED <<active, calls>>

\* The deferred calls: upstream, demand, waiter, client.
UntrackUp(c) ==
    Steps(c, "untrackUp", [At(c, IF h[c].direct THEN "undirect" ELSE "leave") EXCEPT
                                !.conns = @ \ {"upstream"}, !.open = @ \ {"upstream"}])

\* Mutant: the waiter is done while the connection still counts as demand.
DoneFirst(c) ==
    /\ \/ Goes(c, "leave", Done(c, At(c, "leaveDone"), "target")) /\ UNCHANGED active
       \/ Goes(c, "leaveDone", At(c, "untrack")) /\ active' = active - 1
    /\ UNCHANGED calls

Leave(c) ==
    /\ \/ Goes(c, "leave", At(c, "leaveDone")) /\ active' = active - 1
       \/ Goes(c, "leaveDone", Done(c, At(c, "untrack"), "target")) /\ UNCHANGED active
    /\ UNCHANGED calls

UnsetDirect(c) ==
    /\ \/ Goes(c, "unsetUpstream", [At(c, "untrackUp") EXCEPT !.directs = @ \ {"upstream"}])
       \/ Goes(c, "undirect", [At(c, "untrack") EXCEPT !.directs = @ \ {"client"}])
    /\ UNCHANGED <<active, calls>>

\* Nobody asks a handler that has ended what it did.
Untrack(c) ==
    Steps(c, "untrack", [NoHandler EXCEPT !.pc = "gone", !.conns = h[c].conns \ {"client"},
                                            !.open = h[c].open \ {"client"}, !.directs = h[c].directs,
                                            !.waiter = h[c].waiter, !.finished = h[c].finished])

Handler(c) ==
    \/ Track(c) \/ Greets(c) \/ Register(c) \/ Target(c) \/ Refused(c) \/ RefusedDone(c) \/ Dial(c)
    \/ TrackUp(c) \/ SetDirect(c) \/ Hosts(c) \/ Request(c) \/ DialDirect(c) \/ TrackDirect(c)
    \/ Reply(c) \/ Spliced(c) \/ UntrackUp(c) \/ Leave(c) \/ UnsetDirect(c) \/ Untrack(c)

-----------------------------------------------------------------------------
\* The daemon's state changes; up only together with CloseDirect, which begins under its lock.
VpnChanges ==
    /\ ~Locked /\ changes < MaxChanges
    /\ vpn' \in {"waits", "refuses", "away"} \ {vpn}
    /\ changes' = changes + 1
    /\ UNCHANGED <<h, active, listening, closes, all, stop, toClose>>

Directs == {p \in Conns \X Ends : p[2] \in h[p[1]].directs}

VpnUp ==
    /\ ~Locked /\ changes < MaxChanges /\ vpn # "up"
    /\ vpn' = "up" /\ changes' = changes + 1
    /\ toClose' = Directs
    /\ UNCHANGED <<h, active, listening, closes, all, stop>>

Cut(pairs, by) ==
    h' = [c \in Conns |->
            [h[c] EXCEPT !.open = {e \in @ : <<c, e>> \notin pairs},
                         !.cut = IF \E e \in Ends : <<c, e>> \in pairs THEN by ELSE @]]

CloseDirect ==
    /\ Locked
    /\ Cut(toClose, "direct") /\ toClose' = {}
    /\ UNCHANGED <<active, vpn, changes, listening, closes, all, stop>>

\* CloseAll collects who waits and cancels them,
CloseAllBegins ==
    /\ all.pc = "idle" /\ closes < MaxCloses
    /\ closes' = closes + 1
    /\ LET w == {<<c, h[c].waiter>> : c \in {c \in Conns : h[c].waiter # "no"}}
       IN all' = [pc |-> "cancel", waiters |-> w, conns |-> {}]

CloseAll ==
    /\ CloseAllBegins
    /\ UNCHANGED <<h, active, vpn, changes, listening, stop, toClose>>

Cancel ==
    /\ all.pc = "cancel"
    /\ h' = [c \in Conns |->
               IF h[c].waiter # "no" /\ <<c, h[c].waiter>> \in all.waiters
               THEN [h[c] EXCEPT !.cancelled = TRUE] ELSE h[c]]
    /\ all' = [all EXCEPT !.pc = "wait"]
    /\ UNCHANGED <<active, vpn, changes, listening, closes, stop, toClose>>

AllDone == \A w \in all.waiters : w[2] \in h[w[1]].finished

\* waits until their handlers are done, at most cancelWait,
Waited ==
    /\ all.pc = "wait"
    /\ all' = [all EXCEPT !.pc = "collect", !.waiters = IF AllDone THEN @ ELSE {}]
    /\ UNCHANGED <<h, active, vpn, changes, listening, closes, stop, toClose>>

\* and closes every connection there is then.
Collect ==
    /\ all.pc = "collect"
    /\ all' = [all EXCEPT !.pc = "close", !.conns = {p \in Conns \X Ends : p[2] \in h[p[1]].conns}]
    /\ UNCHANGED <<h, active, vpn, changes, listening, closes, stop, toClose>>

CloseConns ==
    /\ all.pc = "close"
    /\ Cut(all.conns, "all")
    /\ all' = NoCall
    /\ stop' = IF stop = "closing" THEN "wait" ELSE stop
    /\ UNCHANGED <<active, vpn, changes, listening, closes, toClose>>

\* Stop: the listener, CloseAll, the handlers for at most stopWait, then the context.
Stop ==
    /\ stop = "no" /\ CloseAllBegins
    /\ stop' = "closing" /\ listening' = FALSE
    /\ UNCHANGED <<h, active, vpn, changes, toClose>>

Stopped ==
    /\ stop = "wait"
    /\ stop' = "over"
    /\ h' = [c \in Conns |-> [h[c] EXCEPT !.cancelled = @ \/ h[c].waiter # "no"]]
    /\ UNCHANGED <<active, vpn, changes, listening, closes, all, toClose>>

Closing == CloseDirect \/ Cancel \/ Waited \/ Collect \/ CloseConns \/ Stopped

Next ==
    \/ \E c \in Conns :
        \/ \E kind \in Kinds : Accept(c, kind)
        \/ Sends(c) \/ Leaves(c) \/ Acquire(c) \/ Handler(c) \/ PipeOut(c) \/ PipeIn(c)
    \/ VpnChanges \/ VpnUp \/ CloseAll \/ Stop \/ Closing

\* Goroutines run, waits and dials end at their deadline; browsers and websites may be silent.
Fairness ==
    /\ \A c \in Conns : WF_vars(Acquire(c)) /\ WF_vars(Handler(c)) /\ WF_vars(PipeOut(c))
                        /\ WF_vars(PipeInClosed(c))
    /\ WF_vars(Closing)

Spec == Init /\ [][Next]_vars /\ Fairness
=============================================================================
