-------------------------------- MODULE Socks --------------------------------
(***************************************************************************)
(* internal/socks: the SOCKS5 server of the Windows and the in-process     *)
(* tunnel.  One goroutine accepts, one handler for each client reads the   *)
(* request, asks the VPN's DNS servers, dials and copies both ways until   *)
(* both ends are through; Stop closes what it knows of, whatever each      *)
(* handler is doing then.  Clients, DNS servers and websites are external. *)
(***************************************************************************)
CONSTANTS
    Clients     \* connections to the server

VARIABLES
    listens, acceptor,      \* the listener; serve, or the client it is about to track
    conns, closed,          \* s.conns (registered ends) and whether Stop took them
    ending, took,           \* Stop and the ends it took
    handler, copying,       \* the handler and its two pipes
    client, upstream,       \* the server's ends of both connections
    away                    \* the far ends that sent all they have

ends == <<client, upstream, away>>
serverSide == <<listens, acceptor, conns, closed>>
handling == <<handler, copying>>
socksVars == <<serverSide, ending, took, handling, ends>>

Side == {"client", "upstream"}

SocksInit ==
    /\ listens = TRUE /\ acceptor = "accepts" /\ conns = {} /\ closed = FALSE
    /\ ending = "no" /\ took = {}
    /\ handler = [c \in Clients |-> "no"] /\ copying = [c \in Clients |-> {}]
    /\ client = [c \in Clients |-> "none"] /\ upstream = [c \in Clients |-> "none"]
    /\ away = [c \in Clients |-> {}]

At(c, from, to) == handler[c] = from /\ handler' = [handler EXCEPT ![c] = to]
Closes(end, c) == [end EXCEPT ![c] = "closed"]

-----------------------------------------------------------------------------
\* Somebody connects to the port; the system queues what serve has not accepted.
Connects(c) ==
    /\ listens /\ client[c] = "none"
    /\ client' = [client EXCEPT ![c] = "queued"]
    /\ UNCHANGED <<serverSide, ending, took, handling, upstream, away>>

\* serve: the next client, or the listener was closed.
Accepts ==
    /\ acceptor = "accepts"
    /\ \/ \E c \in Clients : /\ client[c] = "queued" /\ listens
                             /\ client' = [client EXCEPT ![c] = "open"] /\ acceptor' = c
       \/ ~listens /\ acceptor' = "ended" /\ UNCHANGED client
    /\ UNCHANGED <<listens, conns, closed, ending, took, handling, upstream, away>>

\* Mutant: a connection that comes while the server stops is taken in.
TracksAlways(end, c) == conns' = conns \cup {<<end, c>>} /\ UNCHANGED ends

\* track: registered for Stop, or closed at once when the server is stopping.
Tracks(end, c) ==
    IF closed
    THEN /\ IF end = "client" THEN client' = Closes(client, c) /\ UNCHANGED upstream
            ELSE upstream' = Closes(upstream, c) /\ UNCHANGED client
         /\ UNCHANGED <<conns, away>>
    ELSE conns' = conns \cup {<<end, c>>} /\ UNCHANGED ends

\* serve: each tracked client gets a handler of its own.
AcceptorTracks ==
    \E c \in Clients :
        /\ acceptor = c /\ acceptor' = "accepts"
        /\ Tracks("client", c)
        /\ handler' = [handler EXCEPT ![c] = IF closed THEN "done" ELSE "negotiate"]
        /\ UNCHANGED <<listens, closed, ending, took, copying>>

Serves == Accepts \/ AcceptorTracks

-----------------------------------------------------------------------------
handleRest == <<serverSide, ending, took>>

\* negotiate up to the request: a read fails or takes too long, or what was read is refused.
Negotiates(c) ==
    /\ \/ At(c, "negotiate", "untrack")
       \/ client[c] = "open" /\ At(c, "negotiate", "resolve")
    /\ UNCHANGED <<handleRest, copying, ends>>

\* Resolve: no DNS server of the VPN knows the name, or it is this computer.
Resolves(c) ==
    /\ At(c, "resolve", "untrack") \/ At(c, "resolve", "dial")
    /\ UNCHANGED <<handleRest, copying, ends>>

\* dial: it ends by itself, by ConnectTimeout or because the server stops.
Dials(c) ==
    /\ \/ At(c, "dial", "untrack") /\ UNCHANGED upstream
       \/ At(c, "dial", "reply") /\ upstream' = [upstream EXCEPT ![c] = "open"]
    /\ UNCHANGED <<handleRest, copying, client, away>>

\* The reply with the bound address; a client that is gone takes the connection with it.
Replies(c) ==
    /\ \/ At(c, "reply", "untrack") /\ upstream' = Closes(upstream, c)
       \/ client[c] = "open" /\ At(c, "reply", "track") /\ UNCHANGED upstream
    /\ UNCHANGED <<handleRest, copying, client, away>>

\* handle: the connection is registered, too; two goroutines copy.
TracksUpstream(c) ==
    /\ At(c, "track", IF closed THEN "untrack" ELSE "copies")
    /\ Tracks("upstream", c)
    /\ copying' = [copying EXCEPT ![c] = IF closed THEN {} ELSE Side]
    /\ UNCHANGED <<listens, acceptor, closed, ending, took>>

\* pipe from one end: EOF, or its connection was closed.  The other one is half closed.
PipeEnds(c) ==
    /\ \E end \in copying[c] :
          /\ end \in away[c] \/ "closed" = IF end = "client" THEN client[c] ELSE upstream[c]
          /\ copying' = [copying EXCEPT ![c] = @ \ {end}]
    /\ UNCHANGED <<handleRest, handler, ends>>

\* A write fails because the other side is gone for good.
WriteFails(c) ==
    /\ \E end \in copying[c] : Side \ {end} \subseteq away[c] /\ copying' = [copying EXCEPT ![c] = @ \ {end}]
    /\ UNCHANGED <<handleRest, handler, ends>>

\* The deferred calls, the connection to the website first.
Untracks(c) ==
    /\ \/ /\ copying[c] = {} /\ At(c, "copies", "untrack")
          /\ upstream' = Closes(upstream, c) /\ conns' = conns \ {<<"upstream", c>>}
          /\ UNCHANGED client
       \/ /\ At(c, "untrack", "done")
          /\ client' = Closes(client, c) /\ conns' = conns \ {<<"client", c>>}
          /\ UNCHANGED upstream
    /\ UNCHANGED <<listens, acceptor, closed, ending, took, copying, away>>

Handles(c) ==
    Negotiates(c) \/ Resolves(c) \/ Dials(c) \/ Replies(c) \/ TracksUpstream(c) \/ PipeEnds(c)
        \/ Untracks(c)

\* The client or the website sends no more.
Leaves(c) ==
    /\ \/ client[c] = "open" /\ away' = [away EXCEPT ![c] = @ \cup {"client"}]
       \/ upstream[c] = "open" /\ away' = [away EXCEPT ![c] = @ \cup {"upstream"}]
    /\ UNCHANGED <<serverSide, ending, took, handling, client, upstream>>

-----------------------------------------------------------------------------
\* Stop: s.ln, s.conns and the context go under the lock.
StopTakesServer ==
    /\ ending = "no" /\ ending' = "listener"
    /\ closed' = TRUE /\ took' = conns /\ conns' = {}
    /\ UNCHANGED <<listens, acceptor, handling, ends>>

\* The system resets what was queued.
StopListener ==
    /\ ending = "listener" /\ ending' = "conns"
    /\ listens' = FALSE
    /\ client' = [c \in Clients |-> IF client[c] = "queued" THEN "closed" ELSE client[c]]
    /\ UNCHANGED <<acceptor, conns, closed, took, handling, upstream, away>>

StopConns ==
    /\ ending = "conns" /\ ending' = "waits"
    /\ client' = [c \in Clients |-> IF <<"client", c>> \in took THEN "closed" ELSE client[c]]
    /\ upstream' = [c \in Clients |-> IF <<"upstream", c>> \in took THEN "closed" ELSE upstream[c]]
    /\ UNCHANGED <<serverSide, took, handling, away>>

\* Every handler ended, or stopWait is over.
StopWaits ==
    /\ ending = "waits" /\ ending' = "returned"
    /\ UNCHANGED <<serverSide, took, handling, ends>>

StopServer == StopListener \/ StopConns \/ StopWaits

SocksNext ==
    \/ Serves \/ StopTakesServer \/ StopServer
    \/ \E c \in Clients : Connects(c) \/ Handles(c) \/ WriteFails(c) \/ Leaves(c)

\* Goroutines run; reads of a request, DNS questions and dials have time limits.
SocksFairness ==
    /\ WF_socksVars(Serves) /\ WF_socksVars(StopServer)
    /\ \A c \in Clients : WF_socksVars(Handles(c))

-----------------------------------------------------------------------------
\* What Stop, track, untrack and the deferred calls of handle leave of a client.
Through(c) == handler[c] \in {"no", "done"} /\ client[c] # "open" /\ upstream[c] # "open"
=============================================================================
