---------------------------- MODULE SafeListener ----------------------------
(***************************************************************************)
(* The listener thread (CSafeStorageListener::run) and its connections     *)
(* (CSafeStorageConnection): non-blocking sockets watched by epoll in      *)
(* edge-triggered mode, and requests cut out of what the sockets deliver.  *)
(* Clients connect, send, close and reset their connections between any    *)
(* two system calls of the thread.                                         *)
(*                                                                         *)
(* Streams are counted in words of 4 bytes.  The second word of a request  *)
(* is its length, header included.  Any other word, read as a length, is   *)
(* longer than every message (Huge): the signature is 0x23C4B955 and the   *)
(* rest taken for text.                                                    *)
(***************************************************************************)
EXTENDS Integers, Sequences, FiniteSets

CONSTANTS
    Clients,      \* connections that clients may make, each once
    NFds,         \* number of descriptors the process may have for them
    HeaderLen,    \* words of CSAFE_NET_HEADER
    Lens,         \* lengths of requests
    Huge,         \* what words that are not a length are as one
    InitSize,     \* words of a new connection's buffer
    BlockSize,    \* the buffer grows by blocks
    MaxEvents,    \* D_CSTORAGE_MAX_LISTENER_CONNECTIONS: room for the answer of epoll_wait
    MaxRequests,  \* bound on the requests of all clients
    NoOne,        \* not a client
    Allowed       \* liberties: "reset" by clients, "fault" of accept, fcntl, epoll_ctl

ASSUME SizesAssumption ==
    /\ NFds \in Nat \ {0} /\ BlockSize \in Nat \ {0} /\ InitSize \in Nat
    /\ HeaderLen \in Nat /\ HeaderLen >= 2 /\ MaxRequests \in Nat
    /\ MaxEvents \in Nat \ {0}
(* A request is as long as its header at least; in bytes, all lengths are  *)
(* less than 2^31, so that onData's ints hold them.                        *)
ASSUME LensAssumption ==
    /\ Huge \in Nat /\ HeaderLen < Huge /\ Huge < 2 ^ 29
    /\ Lens \subseteq HeaderLen .. Huge - 1
ASSUME NoOneAssumption == NoOne \notin Clients
ASSUME AllowedAssumption == Allowed \subseteq {"reset", "fault"}

VARIABLES
    client,       \* what each client did: state, lengths of its requests, words of the last
    sock,         \* the kernel's end: data received and not read, fin, rst
    backlog,      \* connections that wait for accept
    fds,          \* whose connection a descriptor is
    ready,        \* epoll's ready list: a set of descriptors, 0 is the listening one
    connections,  \* CSafeStorageListener::connections
    thread,       \* where the thread is: pc, the events still to handle, descriptor
    handled,      \* number of requests of each client that onRequest got
    fresh,        \* clients whose connection began with an empty buffer
    starved,      \* accept failed last time with a connection waiting
    begun         \* number of requests that the clients began (a bound)

environment == <<client, sock, backlog, begun>>
vars == <<client, sock, backlog, fds, ready, connections, thread, handled, fresh, starved,
          begun>>

Fds == 1 .. NFds
Listening == 0
NoConnection == [made |-> FALSE, buf |-> << >>, dsize |-> 0]

Word(c, k, i, len) == [of |-> c, request |-> k, at |-> i, len |-> IF i = 2 THEN len ELSE Huge]
Request(c, k) == LET len == client[c].lens[k] IN [i \in 1 .. len |-> Word(c, k, i, len)]

(* How many requests c has sent to their end: all but, perhaps, the last.  *)
SentWhole(c) ==
    LET n == Len(client[c].lens)
    IN  IF n = 0 \/ client[c].words = client[c].lens[n] THEN n ELSE n - 1

Init ==
    /\ client = [c \in Clients |-> [state |-> "idle", lens |-> << >>, words |-> 0]]
    /\ sock = [c \in Clients |-> [data |-> << >>, fin |-> FALSE, rst |-> FALSE]]
    /\ backlog = << >>
    /\ fds = [fd \in Fds |-> NoOne]
    /\ ready = {}
    /\ connections = [fd \in Fds |-> NoConnection]
    /\ thread = [pc |-> "wait", events |-> {}, fd |-> Listening]
    /\ handled = [c \in Clients |-> 0]
    /\ fresh = {}
    /\ starved = FALSE
    /\ begun = 0

-----------------------------------------------------------------------------
(* Sockets and epoll.                                                      *)

Free == {fd \in Fds : fds[fd] = NoOne}

FdsOf(c) == {fd \in Fds : fds[fd] = c}

Readable(fd) ==
    IF fd = Listening THEN backlog # << >>
    ELSE LET s == sock[fds[fd]] IN s.data # << >> \/ s.fin \/ s.rst

HangsUp(fd) == fd # Listening /\ sock[fds[fd]].rst

(* The events that epoll_wait reports of the descriptors in taken, in an   *)
(* order of its own: what is still so.                                     *)
Events(taken) == {[fd |-> fd, hup |-> HangsUp(fd)] : fd \in {r \in taken : Readable(r)}}

-----------------------------------------------------------------------------
(* Clients.                                                                *)

Connect(c) ==
    /\ client[c].state = "idle"
    /\ client' = [client EXCEPT ![c].state = "connected"]
    /\ backlog' = Append(backlog, c)
    /\ ready' = ready \cup {Listening}
    /\ UNCHANGED <<sock, fds, connections, thread, handled, fresh, starved, begun>>

(* The next word of the request begun, or the first of one of length len.  *)
Send(c, len) ==
    LET n     == Len(client[c].lens)
        going == SentWhole(c) < n
    IN  /\ client[c].state = "connected"
        /\ IF going THEN len = client[c].lens[n] ELSE begun < MaxRequests
        /\ LET k == IF going THEN n ELSE n + 1
               i == IF going THEN client[c].words + 1 ELSE 1
           IN  /\ client' = [client EXCEPT ![c] =
                     [state |-> "connected",
                      lens  |-> IF going THEN @.lens ELSE Append(@.lens, len),
                      words |-> i]]
               /\ sock' = [sock EXCEPT ![c].data = Append(@, Word(c, k, i, len))]
        /\ begun' = IF going THEN begun ELSE begun + 1
        /\ ready' = ready \cup FdsOf(c)
        /\ UNCHANGED <<backlog, fds, connections, thread, handled, fresh, starved>>

Finish(c) ==
    /\ client[c].state = "connected"
    /\ client' = [client EXCEPT ![c].state = "closed"]
    /\ sock' = [sock EXCEPT ![c].fin = TRUE]
    /\ ready' = ready \cup FdsOf(c)
    /\ UNCHANGED <<backlog, fds, connections, thread, handled, fresh, starved, begun>>

Reset(c) ==
    /\ "reset" \in Allowed
    /\ client[c].state = "connected"
    /\ client' = [client EXCEPT ![c].state = "closed"]
    /\ sock' = [sock EXCEPT ![c].rst = TRUE]
    /\ ready' = ready \cup FdsOf(c)
    /\ UNCHANGED <<backlog, fds, connections, thread, handled, fresh, starved, begun>>

-----------------------------------------------------------------------------
(* The loop of run.                                                        *)

Goto(pc) == thread' = [thread EXCEPT !.pc = pc]

(* epoll_wait answers with as many events as there is room for; what it    *)
(* takes from the ready list for that it does not report again.            *)
Wait ==
    /\ thread.pc = "wait"
    /\ ready # {}
    /\ \E taken \in SUBSET ready :
           /\ taken = ready \/ Cardinality(Events(taken)) = MaxEvents
           /\ Cardinality(Events(taken)) <= MaxEvents
           /\ ready' = ready \ taken
           /\ thread' = [thread EXCEPT !.events = Events(taken),
                                       !.pc = IF Events(taken) = {} THEN "wait" ELSE "events"]
    /\ UNCHANGED <<environment, fds, connections, handled, fresh, starved>>

AtEvent(e) == thread.pc = "events" /\ e \in thread.events

Handle(e, pc) == thread' = [pc |-> pc, events |-> thread.events \ {e}, fd |-> e.fd]

(* An error: the descriptor is closed, its connection stays in the map.    *)
HangUp(e) ==
    /\ AtEvent(e) /\ e.hup
    /\ fds' = [fds EXCEPT ![e.fd] = NoOne]
    /\ ready' = ready \ {e.fd}
    /\ Handle(e, "events")
    /\ UNCHANGED <<environment, connections, handled, fresh, starved>>

ListenEvent(e) ==
    /\ AtEvent(e) /\ ~e.hup /\ e.fd = Listening
    /\ Handle(e, "accept")
    /\ UNCHANGED <<environment, fds, ready, connections, handled, fresh, starved>>

(* getConnection finds the connection of the descriptor, in lastConnection *)
(* or in the map, from which nothing is ever removed.                      *)
DataEvent(e) ==
    /\ AtEvent(e) /\ ~e.hup /\ e.fd # Listening
    /\ Handle(e, "data")
    /\ UNCHANGED <<environment, fds, ready, connections, handled, fresh, starved>>

EndOfEvents ==
    /\ thread.pc = "events" /\ thread.events = {}
    /\ Goto("wait")
    /\ UNCHANGED <<environment, fds, ready, connections, handled, fresh, starved>>

-----------------------------------------------------------------------------
(* doListenEvent                                                           *)

(* addConnection: a descriptor that had a connection before gets it again. *)
AddConnection(fd) ==
    IF connections[fd].made THEN connections[fd]
    ELSE [made |-> TRUE, buf |-> << >>, dsize |-> InitSize]

(* The lowest free descriptor.                                             *)
NewFd == CHOOSE fd \in Free : \A other \in Free : fd <= other

(* Mutant of Accept: one connection for one event.                         *)
AcceptOne ==
    /\ thread.pc = "accept" /\ Free # {} /\ backlog # << >>
    /\ LET c == Head(backlog)
       IN  /\ backlog' = Tail(backlog)
           /\ fds' = [fds EXCEPT ![NewFd] = c]
           /\ ready' = IF sock[c] = [data |-> << >>, fin |-> FALSE, rst |-> FALSE]
                       THEN ready ELSE ready \cup {NewFd}
           /\ connections' = [connections EXCEPT ![NewFd] = AddConnection(NewFd)]
           /\ fresh' = IF AddConnection(NewFd).buf = << >> THEN fresh \cup {c} ELSE fresh
    /\ Goto("events")
    /\ UNCHANGED <<client, sock, handled, starved, begun>>

Accept ==
    /\ thread.pc = "accept" /\ Free # {} /\ backlog # << >>
    /\ LET c == Head(backlog)
       IN  /\ backlog' = Tail(backlog)
           /\ fds' = [fds EXCEPT ![NewFd] = c]
           /\ ready' = IF sock[c] = [data |-> << >>, fin |-> FALSE, rst |-> FALSE]
                       THEN ready ELSE ready \cup {NewFd}
           /\ connections' = [connections EXCEPT ![NewFd] = AddConnection(NewFd)]
           /\ fresh' = IF AddConnection(NewFd).buf = << >> THEN fresh \cup {c} ELSE fresh
    /\ UNCHANGED <<client, sock, thread, handled, starved, begun>>

(* fcntl fails and the new descriptor is closed, or epoll_ctl fails and it *)
(* is closed too, but gets its connection.                                 *)
AcceptFails ==
    /\ "fault" \in Allowed
    /\ thread.pc = "accept" /\ Free # {} /\ backlog # << >>
    /\ backlog' = Tail(backlog)
    /\ connections' \in {connections,
                         [connections EXCEPT ![NewFd] = AddConnection(NewFd)]}
    /\ UNCHANGED <<client, sock, fds, ready, thread, handled, fresh, starved, begun>>

(* accept returns -1: nobody waits, or there is no descriptor for him, in  *)
(* the process or in the whole system.                                     *)
AcceptEnds ==
    /\ thread.pc = "accept"
    /\ Free = {} \/ backlog = << >> \/ "fault" \in Allowed
    /\ starved' = (backlog # << >>)
    /\ Goto("events")
    /\ UNCHANGED <<environment, fds, ready, connections, handled, fresh>>

-----------------------------------------------------------------------------
(* onData                                                                  *)

Connection == connections[thread.fd]
Buffered == Len(Connection.buf)

(* Mutant of Wanted: off by one at the end of the header.                  *)
WantedHeader ==
    IF Buffered <= HeaderLen THEN HeaderLen - Buffered
    ELSE Connection.buf[2].len - Buffered

(* dmax: the rest of the header, or of the request.                        *)
Wanted ==
    IF Buffered < HeaderLen THEN HeaderLen - Buffered
    ELSE Connection.buf[2].len - Buffered

(* Mutant of Grown: rounds down to whole blocks.                           *)
GrownDown(dsize, size) ==
    IF dsize >= size THEN dsize ELSE (size \div BlockSize) * BlockSize

(* realloc: to whole blocks, the contents stay.                            *)
Grown(dsize, size) ==
    IF dsize >= size THEN dsize
    ELSE (size \div BlockSize + IF size % BlockSize # 0 THEN 1 ELSE 0) * BlockSize

(* Mutant of OnRequest: leaves onData, as if the socket were drained.      *)
OnRequestReturns ==
    /\ thread.pc = "data" /\ Wanted = 0
    /\ handled' = [handled EXCEPT ![fds[thread.fd]] = @ + 1]
    /\ connections' = [connections EXCEPT ![thread.fd].buf = << >>]
    /\ Goto("events")
    /\ UNCHANGED <<environment, fds, ready, fresh, starved>>

(* Mutant of OnRequest: dcur stays behind the request.                     *)
OnRequestKeeps ==
    /\ thread.pc = "data" /\ Wanted = 0
    /\ handled' = [handled EXCEPT ![fds[thread.fd]] = @ + 1]
    /\ UNCHANGED <<environment, fds, ready, connections, thread, fresh, starved>>

(* The request is whole: onRequest, and the buffer begins anew.            *)
OnRequest ==
    /\ thread.pc = "data" /\ Wanted = 0
    /\ handled' = [handled EXCEPT ![fds[thread.fd]] = @ + 1]
    /\ connections' = [connections EXCEPT ![thread.fd].buf = << >>]
    /\ UNCHANGED <<environment, fds, ready, thread, fresh, starved>>

Read ==
    LET c == fds[thread.fd]
        n == IF Wanted < Len(sock[c].data) THEN Wanted ELSE Len(sock[c].data)
    IN  /\ thread.pc = "data" /\ Wanted > 0 /\ n > 0
        /\ sock' = [sock EXCEPT ![c].data = SubSeq(@, n + 1, Len(@))]
        /\ connections' = [connections EXCEPT ![thread.fd] =
               [made  |-> TRUE,
                buf   |-> @.buf \o SubSeq(sock[c].data, 1, n),
                dsize |-> Grown(@.dsize, Buffered + Wanted)]]
        /\ UNCHANGED <<client, backlog, fds, ready, thread, handled, fresh, starved, begun>>

(* Mutant of ReadEnds: what was read so far is forgotten.                  *)
ReadEndsAnew ==
    /\ thread.pc = "data" /\ Wanted > 0 /\ sock[fds[thread.fd]].data = << >>
    /\ connections' = [connections EXCEPT ![thread.fd].buf = << >>]
    /\ Goto("events")
    /\ UNCHANGED <<environment, fds, ready, handled, fresh, starved>>

(* read returns -1 with EAGAIN or an error, or 0 at the end of the stream. *)
(* doDataEvent does not look at what onData returns.                       *)
ReadEnds ==
    /\ thread.pc = "data" /\ Wanted > 0 /\ sock[fds[thread.fd]].data = << >>
    /\ connections' = [connections EXCEPT ![thread.fd].dsize = Grown(@, Buffered + Wanted)]
    /\ Goto("events")
    /\ UNCHANGED <<environment, fds, ready, handled, fresh, starved>>

Listener ==
    \/ Wait
    \/ \E e \in thread.events : HangUp(e) \/ ListenEvent(e) \/ DataEvent(e)
    \/ EndOfEvents
    \/ Accept
    \/ AcceptFails
    \/ AcceptEnds
    \/ OnRequest
    \/ Read
    \/ ReadEnds

Client(c) ==
    \/ Connect(c)
    \/ \E len \in Lens : Send(c, len)
    \/ Finish(c)
    \/ Reset(c)

Next == Listener \/ \E c \in Clients : Client(c)

(* The thread runs; clients owe it nothing.                                *)
Spec == Init /\ [][Next]_vars /\ WF_vars(Listener)

-----------------------------------------------------------------------------
WordType == [of : Clients, request : 1 .. MaxRequests, at : Nat, len : Lens \cup {Huge}]

(* The types of the state; no more requests are handled than were begun.   *)
TypeOK ==
    /\ client \in [Clients -> [state : {"idle", "connected", "closed"},
                               lens : Seq(Lens), words : Nat]]
    /\ sock \in [Clients -> [data : Seq(WordType), fin : BOOLEAN, rst : BOOLEAN]]
    /\ backlog \in Seq(Clients)
    /\ fds \in [Fds -> Clients \cup {NoOne}]
    /\ ready \subseteq Fds \cup {Listening}
    /\ connections \in [Fds -> [made : BOOLEAN, buf : Seq(WordType), dsize : Nat]]
    /\ thread \in [pc : {"wait", "events", "accept", "data"},
                   events : SUBSET [fd : Fds \cup {Listening}, hup : BOOLEAN],
                   fd : Fds \cup {Listening}]
    /\ handled \in [Clients -> Nat]
    /\ fresh \subseteq Clients
    /\ starved \in BOOLEAN
    /\ begun \in 0 .. MaxRequests
    /\ \A c \in Clients : Len(client[c].lens) <= begun
    /\ \A c \in fresh : handled[c] <= Len(client[c].lens)

(* The word after w in the stream of c.                                    *)
Following(c, w) ==
    IF w.at < client[c].lens[w.request]
    THEN Word(c, w.request, w.at + 1, client[c].lens[w.request])
    ELSE Word(c, w.request + 1, 1, Huge)

(* Nothing is lost, repeated or moved between the client's stream and the  *)
(* requests: the buffer and the socket hold what the client sent after the *)
(* requests handled, each word once and in its order, to the last one      *)
(* sent, however the pieces fell.  A connection that began with the half   *)
(* request of the descriptor's owner before is the exception.              *)
StreamIntact ==
    \A fd \in Fds :
        fds[fd] \in fresh =>
            LET c == fds[fd]
                n == Len(client[c].lens)
                stream == connections[fd].buf \o sock[c].data
            IN  IF stream = << >> THEN handled[c] = n /\ SentWhole(c) = n
                ELSE /\ stream[1] = Word(c, handled[c] + 1, 1, Huge)
                     /\ \A i \in 1 .. Len(stream) - 1 :
                            stream[i + 1] = Following(c, stream[i])
                     /\ stream[Len(stream)] = Word(c, n, client[c].words, client[c].lens[n])

(* What onRequest gets is one whole request, the next one of its client.   *)
RequestsWhole ==
    [][\A c \in fresh :
           handled'[c] # handled[c] =>
               \E fd \in FdsOf(c) : connections[fd].buf = Request(c, handled'[c])]_vars

(* The buffer has room for what a read was asked for.                      *)
NoOverrun ==
    \A fd \in Fds : Len(connections[fd].buf) <= connections[fd].dsize

(* With edge-triggered events nothing is reported twice, so when the       *)
(* thread waits and nothing is on the ready list, it has seen to           *)
(* everything: no socket holds unread data, no dead one is open, and       *)
(* nobody waits for accept unless it failed on him.                        *)
NothingForgotten ==
    thread.pc = "wait" /\ ready = {} =>
        /\ \A fd \in Fds \ Free : sock[fds[fd]].data = << >> /\ ~sock[fds[fd]].rst
        /\ backlog = << >> \/ starved

(* Each whole request of a client that was accepted gets to onRequest,     *)
(* unless the client resets the connection.                                *)
RequestsServed ==
    \A c \in Clients, k \in 1 .. MaxRequests :
        (FdsOf(c) # {} /\ c \in fresh /\ SentWhole(c) >= k) ~>
            (handled[c] >= k \/ sock[c].rst)
=============================================================================
