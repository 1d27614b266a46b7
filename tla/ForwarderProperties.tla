------------------------ MODULE ForwarderProperties ------------------------
(* What internal/forwarder promises the browsers and the daemon. *)
EXTENDS Forwarder, SequencesExt

Pcs == {"none", "accepted", "greet", "register", "target", "refused", "refusedDone", "cancelled",
        "cancelledDone", "dial", "trackUp", "splice", "untrackUp", "leave", "leaveDone", "untrack",
        "gone", "direct", "hosts", "request", "dialDirect", "trackDirect", "setUpstream", "reply",
        "unsetUpstream", "undirect"}

TypeOK ==
    /\ h \in [Conns ->
        [pc: Pcs, kind: Kinds \cup {"scan"}, sent: 0..3, eof: BOOLEAN, pos: 0..3, open: SUBSET Ends,
         conns: SUBSET Ends, directs: SUBSET Ends, waiter: {"no", "target", "dial"},
         cancelled: BOOLEAN, finished: SUBSET {"target", "dial"}, answer: {"none", "port", "refused"},
         got: Seq({"v", "r", "d"}), direct: BOOLEAN, out: {"off", "read", "end"},
         in: {"off", "read", "end"}, cut: {"no", "all", "direct"}]]
    /\ active \in 0..Cardinality(Conns)
    /\ vpn \in {"up", "waits", "refuses", "away"} /\ changes \in 0..MaxChanges
    /\ listening \in BOOLEAN /\ closes \in 0..MaxCloses
    /\ all.pc \in {"idle", "cancel", "wait", "collect", "close"}
    /\ stop \in {"no", "closing", "wait", "over"} /\ toClose \subseteq Conns \X Ends

\* Handlers that count as demand for the tunnel.
Counted ==
    {c \in Conns :
        \/ h[c].pc \in {"register", "target", "refused", "cancelled", "dial", "trackUp", "leave"}
        \/ h[c].pc \in {"splice", "untrackUp"} /\ ~h[c].direct}

\* A handler whose waiter is done keeps up no demand: CloseAll may return on it without a
\* reconnect right after it (handle, CloseAll).
DoneIsNoDemand ==
    active = Cardinality(Counted) /\ \A c \in Counted : "target" \notin h[c].finished

\* Handlers that directHosts let through and that may still pass something on.
LetThrough ==
    {c \in Conns : h[c].direct /\ h[c].pc \in {"request", "dialDirect", "trackDirect", "setUpstream",
                                              "reply", "splice"}}

\* A listed website is connected directly only while the gateway cannot be reached: once the
\* tunnel is up and CloseDirect is through, every client let through before is closed
\* (direct, CloseDirect, Daemon.directHosts).
DirectOnlyWhileAway ==
    vpn = "up" /\ ~Locked => \A c \in LetThrough : "client" \notin h[c].open

\* What reaches a website or the tunnel is what the browser sent, in order and from its first
\* byte (after the request where the core answered it itself); a client closed before the reply
\* passes nothing on (greets, connectRequest, pipe).
BytesInOrder ==
    \A c \in Conns :
        IF h[c].direct THEN IsPrefix(h[c].got, <<"d">>) ELSE IsPrefix(h[c].got, SubSeq(Bytes, 1, h[c].sent))

\* A connection that CloseAll or CloseDirect closed, or whose browser is gone, ends and leaves
\* nothing behind, whatever browser and website do (handle, direct and their deferred calls,
\* splice, halfcloseGrace).
LeavesNothing(c) ==
    /\ h[c].pc = "gone" /\ h[c].open = {} /\ h[c].conns = {} /\ h[c].directs = {}
    /\ h[c].waiter = "no"
ConnectionsEnd == \A c \in Conns : (h[c].cut # "no" \/ h[c].eof) ~> LeavesNothing(c)
=============================================================================
