------------------------------- MODULE Server -------------------------------
(***************************************************************************)
(* The event loop of src/src/main.cpp over src/src/core/Reactor: one       *)
(* thread that waits on an edge-triggered epoll instance and calls the     *)
(* handler for each event, the clients at the other end, and the signal    *)
(* that ends it.                                                           *)
(*                                                                         *)
(* A connection is written as its client; a client may connect again once  *)
(* the server has closed its last connection, and gets any free descriptor *)
(* for it.  What arrives on a connection is a sequence of pieces, of which *)
(* one recv reads one, and the piece "end" completes the header.  Whether  *)
(* the address is blocked or over its rate is any answer here; what it is, *)
(* module RateControl says.                                                *)
(*                                                                         *)
(* External, modelled from how src/ uses them: the kernel's sockets and    *)
(* epoll (an edge is a member of `ready', an event is delivered if it      *)
(* still holds when epoll_wait returns), the clients, and                  *)
(* server/ConnectionManager, whose source the repository does not have:    *)
(* add starts with empty buffers, remove and sweepIdle close the           *)
(* descriptor, which takes it out of epoll.                                *)
(*                                                                         *)
(* The Bug operators are plausible mistakes in the definition after them.  *)
(* No action uses one; the mutants of PROJECT.json put them in its place,  *)
(* to see that a property notices.                                         *)
(***************************************************************************)
EXTENDS Naturals, Sequences, FiniteSets

CONSTANTS
  Clients,
  Fds,              \* descriptors the process may have for connections
  server_fd,        \* the listening descriptor
  Nobody,           \* a descriptor is free
  MAX_CONNECTIONS,
  MaxRequest,       \* MAX_REQUEST_SIZE, in pieces
  Chunks,           \* a response, in what one send can take
  Room,             \* the send buffer of a socket, in the same unit
  MaxPieces,        \* bound: pieces a client sends on one connection
  MaxIdle           \* bound: connections idle at a time

ASSUME DescriptorAssumption == server_fd \notin Fds /\ Nobody \notin Clients
ASSUME SizeAssumption ==
  /\ MAX_CONNECTIONS \in Nat /\ MaxRequest \in Nat
  /\ Chunks \in Nat \ {0} /\ Room \in Nat \ {0}
  /\ MaxPieces \in Nat /\ MaxIdle \in Nat

VARIABLES
  \* the process
  pc,               \* where the main thread is; "killed": by SIGPIPE
  cur,              \* the descriptor the handler reads or writes
  batch,            \* events epoll_wait returned and run has not handled
  running,          \* main.cpp's flag
  reactor_running,  \* the reactor's flag
  early,            \* history: the last signal came before the reactor was known
  read_buffer, write_buffer,  \* per descriptor, in ConnectionManager
  idle,             \* per descriptor: no activity for IDLE_TIMEOUT_SEC
  \* the kernel
  listening,        \* server_fd is an open listening socket
  backlog,          \* connections not accepted
  spent,            \* history: accept failed, and nobody has connected since
  owner,            \* per descriptor: the client at the other end, or Nobody
  interest,         \* per descriptor: what epoll watches it for
  ready,            \* descriptors with an edge epoll_wait has not returned
  inbox,            \* per client: arrived and not read
  room,             \* per client: room in the socket's send buffer
  \* the clients
  phase,            \* "away", "queued" in the backlog, or "connected"
  gone,             \* has closed its end
  sent, asked,      \* pieces sent; the header's end was among them
  received,         \* chunks of response sent to it
  answer            \* how its last connection ended

loop     == <<pc, cur, batch>>
flags    == <<running, reactor_running, early>>
buffers  == <<read_buffer, write_buffer, idle>>
epoll    == <<owner, interest, ready>>
accepts  == <<listening, backlog, spent>>
wire     == <<inbox, room>>
clients  == <<phase, gone, sent, asked, received, answer>>
vars == <<loop, flags, buffers, epoll, accepts, wire, clients>>

(* How a connection may end for its client: "refused" stands for 503, 403  *)
(* and 429, "closed" for no answer at all.                                 *)
Answers == {"none", "200", "refused", "closed"}

Connected == {fd \in Fds : owner[fd] # Nobody}
FreeFds   == Fds \ Connected
Alive     == pc \notin {"exited", "killed"}

(* What poll would report of a connection, cut down to what epoll watches. *)
Readable(fd) == interest[fd] = "IN"  /\ (inbox[owner[fd]] # <<>> \/ gone[owner[fd]])
Writable(fd) == interest[fd] = "OUT" /\ (room[owner[fd]] > 0 \/ gone[owner[fd]])

Init ==
  /\ pc = "boot" /\ cur = server_fd /\ batch = {}
  /\ running = TRUE /\ reactor_running = TRUE /\ early = FALSE
  /\ read_buffer = [fd \in Fds |-> <<>>] /\ write_buffer = [fd \in Fds |-> 0]
  /\ idle = [fd \in Fds |-> FALSE]
  /\ listening = FALSE /\ backlog = <<>> /\ spent = FALSE
  /\ owner = [fd \in Fds |-> Nobody] /\ interest = [fd \in Fds |-> "none"]
  /\ ready = {}
  /\ inbox = [c \in Clients |-> <<>>] /\ room = [c \in Clients |-> Room]
  /\ phase = [c \in Clients |-> "away"] /\ gone = [c \in Clients |-> FALSE]
  /\ sent = [c \in Clients |-> 0] /\ asked = [c \in Clients |-> FALSE]
  /\ received = [c \in Clients |-> 0] /\ answer = [c \in Clients |-> "none"]

(* The connections of these clients are over.                              *)
Part(leaving, how) ==
  /\ phase'  = [c \in Clients |-> IF c \in leaving THEN "away" ELSE phase[c]]
  /\ answer' = [c \in Clients |-> IF c \in leaving THEN how ELSE answer[c]]
  /\ gone'   = [c \in Clients |-> gone[c] /\ c \notin leaving]
  /\ sent'   = [c \in Clients |-> IF c \in leaving THEN 0 ELSE sent[c]]
  /\ inbox'  = [c \in Clients |-> IF c \in leaving THEN <<>> ELSE inbox[c]]
  /\ room'   = [c \in Clients |-> IF c \in leaving THEN Room ELSE room[c]]
  /\ UNCHANGED <<asked, received>>

(* removeFd and remove: the server ends these connections.                 *)
Release(closing, how) ==
  /\ owner'    = [fd \in Fds |-> IF fd \in closing THEN Nobody ELSE owner[fd]]
  /\ interest' = [fd \in Fds |-> IF fd \in closing THEN "none" ELSE interest[fd]]
  /\ ready'    = ready \ closing
  /\ read_buffer'  = [fd \in Fds |-> IF fd \in closing THEN <<>> ELSE read_buffer[fd]]
  /\ write_buffer' = [fd \in Fds |-> IF fd \in closing THEN 0 ELSE write_buffer[fd]]
  /\ idle'     = [fd \in Fds |-> idle[fd] /\ fd \notin closing]
  /\ Part({owner[fd] : fd \in closing}, how)
-----------------------------------------------------------------------------
(* main up to the loop; the signal handler is already installed.           *)

Listen ==
  /\ pc = "boot"
  /\ pc' = "bound"
  /\ listening' = TRUE
  /\ UNCHANGED <<cur, batch, flags, buffers, epoll, backlog, spent, wire, clients>>

(* global_reactor = &reactor and addFd, which reports what is queued. *)
Install ==
  /\ pc = "bound"
  /\ pc' = "wait"
  /\ ready' = IF listening /\ backlog # <<>> THEN {server_fd} ELSE {}
  /\ UNCHANGED <<cur, batch, flags, buffers, owner, interest, accepts, wire, clients>>

(* SIGINT or SIGTERM, between any two steps.  The handler is one step: what *)
(* it sets is read by the loop only between events.  Closing server_fd     *)
(* resets the connections nobody accepted; closing it again (the handler   *)
(* does not clear it) does nothing here.                                   *)
BugKeepsReactor == reactor_running
StoppedReactor  == IF pc \in {"boot", "bound"} THEN reactor_running ELSE FALSE

Signal ==
  /\ Alive
  /\ running' = FALSE
  /\ reactor_running' = StoppedReactor
  /\ early' = (pc \in {"boot", "bound"})
  /\ listening' = FALSE
  /\ backlog' = <<>>
  /\ ready' = ready \ {server_fd}
  /\ Part({c \in Clients : phase[c] = "queued"}, "closed")
  /\ UNCHANGED <<loop, buffers, owner, interest, spent>>
-----------------------------------------------------------------------------
(* Reactor::run *)

Event(fd, kind) ==
  [fd |-> fd, kind |-> kind,
   client |-> IF fd \in Connected THEN owner[fd] ELSE Nobody]

Delivered ==
  {Event(fd, "IN")  : fd \in {f \in ready \cap Connected : Readable(f)}} \cup
  {Event(fd, "OUT") : fd \in {f \in ready \cap Connected : Writable(f)}} \cup
  {Event(fd, "IN")  : fd \in ready \cap {server_fd}}

EpollWait ==
  /\ pc = "wait" /\ reactor_running
  /\ Delivered # {}
  /\ batch' = Delivered /\ ready' = {}
  /\ pc' = "dispatch"
  /\ UNCHANGED <<cur, flags, buffers, owner, interest, accepts, wire, clients>>

(* epoll_wait timed out; the handler returns at once if not running. *)
BugBetweenEvents == pc \in {"wait", "dispatch"}
TimedOut == pc = "wait" /\ Delivered = {}

BugIgnoresTick == {}
Swept == IF running THEN {fd \in Connected : idle[fd]} ELSE {}

Heartbeat ==
  /\ reactor_running
  /\ TimedOut
  /\ Release(Swept, "closed")
  /\ UNCHANGED <<loop, flags, accepts>>

Leave ==
  /\ pc = "wait" /\ ~reactor_running
  /\ pc' = "exited"
  /\ UNCHANGED <<cur, batch, flags, buffers, epoll, accepts, wire, clients>>

(* Call the handler for one event of the batch. *)
Dispatch(e) ==
  /\ pc = "dispatch" /\ e \in batch
  /\ batch' = batch \ {e}
  /\ \/ /\ running /\ e.fd = server_fd
        /\ pc' = "accept" /\ UNCHANGED cur
     \/ /\ running /\ e.fd \in Connected
        /\ pc' = (IF e.kind = "IN" THEN "read" ELSE "write") /\ cur' = e.fd
     \/ /\ ~running \/ e.fd \notin Connected \cup {server_fd}
        /\ UNCHANGED <<pc, cur>>
  /\ UNCHANGED <<flags, buffers, epoll, accepts, wire, clients>>

EndBatch ==
  /\ pc = "dispatch" /\ batch = {}
  /\ pc' = "wait"
  /\ UNCHANGED <<cur, batch, flags, buffers, epoll, accepts, wire, clients>>
-----------------------------------------------------------------------------
(* Accept new connections: one iteration of the loop each. *)

Accepting == pc = "accept" /\ backlog # <<>> /\ FreeFds # {}

AtCapacity == Cardinality(Connected) >= MAX_CONNECTIONS

(* The loop goes on until accept finds nobody.                             *)
BugAcceptsOne == "dispatch"
AfterAccept   == "accept"

(* Answer 503 or, if the address is blocked, 403, and close.               *)
Refuse ==
  /\ Accepting
  /\ pc' = AfterAccept
  /\ backlog' = Tail(backlog)
  /\ Part({Head(backlog)}, "refused")
  /\ UNCHANGED <<cur, batch, flags, buffers, epoll, listening, spent>>

(* addFd reports at once what has already arrived. *)
Admit ==
  /\ Accepting /\ ~AtCapacity
  /\ LET c == Head(backlog) IN
     \E fd \in FreeFds :
       /\ owner' = [owner EXCEPT ![fd] = c]
       /\ interest' = [interest EXCEPT ![fd] = "IN"]
       /\ ready' = IF inbox[c] # <<>> \/ gone[c] THEN ready \cup {fd} ELSE ready
       /\ phase' = [phase EXCEPT ![c] = "connected"]
  /\ pc' = AfterAccept
  /\ backlog' = Tail(backlog)
  /\ UNCHANGED <<cur, batch, flags, buffers, listening, spent, wire,
                 gone, sent, asked, received, answer>>

(* EAGAIN (or EBADF, once the signal handler has closed server_fd) ... *)
AcceptDone ==
  /\ pc = "accept" /\ backlog = <<>>
  /\ pc' = "dispatch"
  /\ UNCHANGED <<cur, batch, flags, buffers, epoll, accepts, wire, clients>>

(* ... and any other error, at any time: leave the loop too. *)
AcceptFails ==
  /\ pc = "accept" /\ backlog # <<>>
  /\ spent' = TRUE
  /\ pc' = "dispatch"
  /\ UNCHANGED <<cur, batch, flags, buffers, epoll, listening, backlog, wire, clients>>
-----------------------------------------------------------------------------
(* Read event: recv until EAGAIN, then look for the end of the header. *)

Peer == owner[cur]

Return == pc' = "dispatch" /\ cur' = server_fd

Drop(how) ==
  /\ Return
  /\ Release({cur}, how)
  /\ UNCHANGED <<batch, flags, accepts>>

Recv ==
  /\ pc = "read" /\ inbox[Peer] # <<>>
  /\ Len(read_buffer[cur]) < MaxRequest
  /\ read_buffer' = [read_buffer EXCEPT ![cur] = Append(@, Head(inbox[Peer]))]
  /\ inbox' = [inbox EXCEPT ![Peer] = Tail(@)]
  /\ idle' = [idle EXCEPT ![cur] = FALSE]
  /\ UNCHANGED <<loop, flags, write_buffer, epoll, accepts, room, clients>>

RecvTooMuch ==
  /\ pc = "read" /\ inbox[Peer] # <<>>
  /\ Len(read_buffer[cur]) >= MaxRequest
  /\ Drop("closed")

(* recv returned 0 or an error: whatever was read is thrown away.          *)
RecvEnds ==
  /\ pc = "read" /\ inbox[Peer] = <<>> /\ gone[Peer]
  /\ Drop("closed")

(* One recv per event instead of the loop would be enough when it finds    *)
(* all that has arrived.                                                   *)
BugReadsOnce == read_buffer[cur] # <<>> \/ (inbox[Peer] = <<>> /\ ~gone[Peer])
WouldBlock   == inbox[Peer] = <<>> /\ ~gone[Peer]

BugAnyHeader == read_buffer[cur] # <<>>
HeaderEnded  == \E i \in DOMAIN read_buffer[cur] : read_buffer[cur][i] = "end"

RequestIncomplete ==
  /\ pc = "read" /\ WouldBlock /\ ~HeaderEnded
  /\ Return
  /\ UNCHANGED <<batch, flags, buffers, epoll, accepts, wire, clients>>

(* Over the rate: answer 429 and close. *)
TooManyRequests ==
  /\ pc = "read" /\ WouldBlock /\ HeaderEnded
  /\ Drop("refused")

(* Queue the response; modifyFd reports room that is already there. *)
BugWatchesRead == "IN"
BugWatchesBoth == "IN OUT"
WatchForWrite   == "OUT"

Respond ==
  /\ pc = "read" /\ WouldBlock /\ HeaderEnded
  /\ write_buffer' = [write_buffer EXCEPT ![cur] = Chunks]
  /\ read_buffer' = [read_buffer EXCEPT ![cur] = <<>>]
  /\ interest' = [interest EXCEPT ![cur] = WatchForWrite]
  /\ ready' = IF room[Peer] > 0 \/ gone[Peer] THEN ready \cup {cur} ELSE ready
  /\ Return
  /\ UNCHANGED <<batch, flags, idle, owner, accepts, wire, clients>>
-----------------------------------------------------------------------------
(* Write event: send until the response is out or the socket is full. *)

Send ==
  /\ pc = "write" /\ write_buffer[cur] > 0
  /\ room[Peer] > 0
  /\ write_buffer' = [write_buffer EXCEPT ![cur] = @ - 1]
  /\ room' = [room EXCEPT ![Peer] = @ - 1]
  /\ received' = [received EXCEPT ![Peer] = @ + 1]
  /\ UNCHANGED <<loop, flags, read_buffer, idle, epoll, accepts, inbox,
                 phase, gone, sent, asked, answer>>

(* EAGAIN *)
SendWouldBlock ==
  /\ pc = "write" /\ write_buffer[cur] > 0
  /\ room[Peer] = 0 /\ ~gone[Peer]
  /\ Return
  /\ UNCHANGED <<batch, flags, buffers, epoll, accepts, wire, clients>>

SendFails ==
  /\ pc = "write" /\ write_buffer[cur] > 0
  /\ gone[Peer]
  /\ Drop("closed")

(* send has no MSG_NOSIGNAL and nothing handles SIGPIPE: the peer closed,  *)
(* and has answered an earlier part of the response with a reset.          *)
Killed ==
  /\ pc = "write" /\ write_buffer[cur] \in 1..(Chunks - 1)
  /\ gone[Peer]
  /\ pc' = "killed"
  /\ UNCHANGED <<cur, batch, flags, buffers, epoll, accepts, wire, clients>>

BugAfterOneSend == write_buffer[cur] < Chunks
Written == write_buffer[cur] = 0

WriteDone ==
  /\ pc = "write" /\ Written
  /\ Drop("200")

Server ==
  \/ Listen \/ Install
  \/ EpollWait \/ Heartbeat \/ Leave
  \/ (\E e \in batch : Dispatch(e)) \/ EndBatch
  \/ Refuse \/ Admit \/ AcceptDone \/ AcceptFails
  \/ Recv \/ RecvTooMuch \/ RecvEnds \/ RequestIncomplete \/ TooManyRequests \/ Respond
  \/ Send \/ SendWouldBlock \/ SendFails \/ Killed \/ WriteDone
-----------------------------------------------------------------------------
(* The clients and the kernel; external. *)

(* An edge for the connection of c, if epoll watches it for that. *)
Edge(c, kinds) ==
  ready' = ready \cup {fd \in Connected : owner[fd] = c /\ interest[fd] \in kinds}

Connect(c) ==
  /\ Alive /\ phase[c] = "away" /\ listening
  /\ phase' = [phase EXCEPT ![c] = "queued"]
  /\ backlog' = Append(backlog, c)
  /\ ready' = IF pc \in {"boot", "bound"} THEN ready ELSE ready \cup {server_fd}
  /\ asked' = [asked EXCEPT ![c] = FALSE]
  /\ received' = [received EXCEPT ![c] = 0]
  /\ answer' = [answer EXCEPT ![c] = "none"]
  /\ spent' = FALSE
  /\ UNCHANGED <<loop, flags, buffers, owner, interest, listening, wire, gone, sent>>

(* One piece ends the header, and whatever comes after it does not.        *)
SendPiece(c, piece) ==
  /\ Alive /\ phase[c] # "away" /\ ~gone[c] /\ sent[c] < MaxPieces
  /\ piece = "end" => ~asked[c]
  /\ inbox' = [inbox EXCEPT ![c] = Append(@, piece)]
  /\ sent' = [sent EXCEPT ![c] = @ + 1]
  /\ asked' = [asked EXCEPT ![c] = @ \/ piece = "end"]
  /\ Edge(c, {"IN"})
  /\ UNCHANGED <<loop, flags, buffers, owner, interest, accepts, room,
                 phase, gone, received, answer>>

(* The client reads some of what was sent to it. *)
Drain(c) ==
  /\ Alive /\ phase[c] = "connected" /\ ~gone[c] /\ room[c] < Room
  /\ room' = [room EXCEPT ![c] = Room]
  /\ Edge(c, {"OUT"})
  /\ UNCHANGED <<loop, flags, buffers, owner, interest, accepts, inbox, clients>>

Close(c) ==
  /\ Alive /\ phase[c] # "away" /\ ~gone[c]
  /\ gone' = [gone EXCEPT ![c] = TRUE]
  /\ Edge(c, {"IN", "OUT"})
  /\ UNCHANGED <<loop, flags, buffers, owner, interest, accepts, wire,
                 phase, sent, asked, received, answer>>

(* IDLE_TIMEOUT_SEC pass without activity on a connection. *)
GrowIdle(fd) ==
  /\ Alive /\ fd \in Connected /\ ~idle[fd]
  /\ Cardinality({f \in Fds : idle[f]}) < MaxIdle
  /\ idle' = [idle EXCEPT ![fd] = TRUE]
  /\ UNCHANGED <<loop, flags, read_buffer, write_buffer, epoll, accepts, wire, clients>>

Environment ==
  \/ \E c \in Clients : \/ Connect(c) \/ Drain(c) \/ Close(c)
                        \/ \E piece \in {"part", "end"} : SendPiece(c, piece)
  \/ \E fd \in Fds : GrowIdle(fd)
  \/ Signal

Next == Server \/ Environment

Spec == Init /\ [][Next]_vars

(* The main thread runs, and a client reads what it is sent.  Nobody has   *)
(* to connect, send, close or stop the server.  The loop around accept is  *)
(* not bounded: connections must not arrive as fast as it takes them from  *)
(* some time on.                                                           *)
Fairness ==
  /\ WF_vars(Server)
  /\ \A c \in Clients : WF_vars(Drain(c))
  /\ []<>(pc # "accept")

FairSpec == Spec /\ Fairness
-----------------------------------------------------------------------------
(* Types. *)
TypeOK ==
  /\ pc \in {"boot", "bound", "wait", "dispatch", "accept", "read", "write",
            "exited", "killed"}
  /\ cur \in Fds \cup {server_fd}
  /\ batch \subseteq [fd : Fds \cup {server_fd}, kind : {"IN", "OUT"},
                      client : Clients \cup {Nobody}]
  /\ running \in BOOLEAN /\ reactor_running \in BOOLEAN /\ early \in BOOLEAN
  /\ read_buffer \in [Fds -> Seq({"part", "end"})]
  /\ write_buffer \in [Fds -> 0..Chunks]
  /\ idle \in [Fds -> BOOLEAN]
  /\ listening \in BOOLEAN
  /\ backlog \in Seq(Clients)
  /\ spent \in BOOLEAN
  /\ owner \in [Fds -> Clients \cup {Nobody}]
  /\ interest \in [Fds -> {"none", "IN", "OUT"}]
  /\ ready \subseteq Connected \cup {server_fd}
  /\ inbox \in [Clients -> Seq({"part", "end"})]
  /\ room \in [Clients -> 0..Room]
  /\ phase \in [Clients -> {"away", "queued", "connected"}]
  /\ gone \in [Clients -> BOOLEAN]
  /\ sent \in [Clients -> 0..MaxPieces]
  /\ asked \in [Clients -> BOOLEAN]
  /\ received \in [Clients -> 0..Chunks]
  /\ answer \in [Clients -> Answers]

(* A descriptor is closed and reused for the next client while events of   *)
(* one epoll_wait are handled one by one, yet no event that is still to be *)
(* handled, nor the one that is, is meant for an earlier client of its     *)
(* descriptor.                                                             *)
NoStaleEvents ==
  /\ \A e \in batch : e.fd # server_fd =>
       /\ owner[e.fd] = e.client /\ e.client # Nobody
       /\ e.kind = interest[e.fd]
  /\ pc \in {"read", "write"} => cur \in Connected

(* The connection the handler is not busy with: *)
Busy(fd)    == pc \in {"read", "write"} /\ cur = fd
Noticed(fd) == fd \in ready \/ \E e \in batch : e.fd = fd

(* Edges are reported once, so whatever can be done for a connection is    *)
(* being done or will be reported: the handler never leaves an event with  *)
(* something unread, or something unsent that would fit (until a signal    *)
(* tells it to ignore the rest).                                           *)
NoEdgeLost ==
  (running /\ Alive) => \A fd \in Connected :
    (~Busy(fd) /\ (Readable(fd) \/ Writable(fd))) => Noticed(fd)

(* A connection waits for room to write exactly while it has an answer to  *)
(* write: it neither waits for what it will not use, nor writes unwatched. *)
WatchesWhatItNeeds ==
  \A fd \in Connected : ~Busy(fd) =>
    (interest[fd] = "OUT" <=> write_buffer[fd] > 0)

(* What a client receives it asked for, on this connection, with a         *)
(* complete header; and one that was served received all of it.            *)
AnswersAreEarned ==
  \A c \in Clients :
    /\ received[c] > 0 => asked[c]
    /\ answer[c] = "200" => received[c] = Chunks

(* A connection in the backlog is being accepted or will be reported,      *)
(* unless accept has failed since the last one arrived.                    *)
BacklogNoticed ==
  (pc \notin {"boot", "bound", "accept", "killed"} /\ running
     /\ backlog # <<>> /\ ~spent)
    => Noticed(server_fd)

(* A client that sent a complete header and stays gets an answer, or its   *)
(* connection is closed.                                                   *)
RequestsAnswered ==
  \A c \in Clients :
    (phase[c] = "connected" /\ asked[c]) ~>
      (answer[c] # "none" \/ gone[c] \/ ~running \/ pc = "killed")

(* A signal that finds the reactor ends its loop.                          *)
SignalEndsLoop == (~running /\ ~early) ~> ~Alive

(* "Graceful shutdown handling" (README.md:60): a signal ends the loop.    *)
ShutdownIsGraceful == ~running ~> ~Alive

(* "optimized for concurrency and fault tolerance" (README.md:49): when    *)
(* accept fails and then works again, those who stay in the backlog are    *)
(* accepted, unless a signal has told the server to stop.                  *)
BacklogServed ==
  (<>[][~AcceptFails]_vars) =>
    \A c \in Clients :
      phase[c] = "queued" ~>
        (phase[c] # "queued" \/ gone[c] \/ ~running \/ ~Alive)

(* "heartbeat tick" (Reactor.cpp:45) is one of an idle loop: it is only    *)
(* called when epoll_wait returns nothing for a second.  If from some time *)
(* on events pause, an idle connection (main.cpp:23) is swept.             *)
IdleIsSwept ==
  (<>[][~EpollWait]_vars) =>
    \A fd \in Fds : (fd \in Connected /\ idle[fd]) ~>
      (fd \notin Connected \/ ~idle[fd] \/ ~running \/ ~Alive)
=============================================================================
