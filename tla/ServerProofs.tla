----------------------------- MODULE ServerProofs -----------------------------
(***************************************************************************)
(* Proofs about Server, for any clients, descriptors and bounds.           *)
(***************************************************************************)
EXTENDS Server, SequenceTheorems, TLAPS

(* A descriptor has a connection and all that belongs to one, or nothing.  *)
Sockets ==
  /\ \A fd \in Fds : owner[fd] = Nobody =>
       /\ interest[fd] = "none" /\ ~idle[fd]
       /\ read_buffer[fd] = <<>> /\ write_buffer[fd] = 0
  /\ \A fd \in Connected : interest[fd] # "none" /\ phase[owner[fd]] = "connected"
  /\ \A f, g \in Connected : owner[f] = owner[g] => f = g

(* Who waits in the backlog waits there once.                              *)
Queue ==
  /\ \A i \in DOMAIN backlog : phase[backlog[i]] = "queued"
  /\ \A i, j \in DOMAIN backlog : backlog[i] = backlog[j] => i = j
  /\ backlog # <<>> => listening

(* Nothing is left of a connection that is over.                           *)
CleanSlate ==
  \A c \in Clients : phase[c] = "away" =>
    inbox[c] = <<>> /\ room[c] = Room /\ ~gone[c] /\ sent[c] = 0

(* Where the loop is, and what it can find there.                          *)
Stages ==
  /\ pc \in {"boot", "bound"} => Connected = {}
  /\ pc \in {"boot", "bound", "wait"} => batch = {}
  /\ pc = "read"  => interest[cur] = "IN"
  /\ pc = "write" => interest[cur] = "OUT"
  /\ pc \in {"read", "write"} => \A e \in batch : e.fd # cur

HasEnd(pieces) == \E i \in DOMAIN pieces : pieces[i] = "end"

(* What was asked for and what is still to be sent, along the way of a     *)
(* request: on the wire, in the read buffer, and as a response.            *)
Ledger ==
  /\ \A c \in Clients :
       /\ HasEnd(inbox[c]) => asked[c]
       /\ phase[c] # "away" => answer[c] = "none"
       /\ phase[c] = "queued" => received[c] = 0
  /\ \A fd \in Connected :
       /\ HasEnd(read_buffer[fd]) => asked[owner[fd]]
       /\ interest[fd] = "IN" => received[owner[fd]] = 0 /\ write_buffer[fd] = 0
       /\ interest[fd] = "OUT" =>
            asked[owner[fd]] /\ received[owner[fd]] + write_buffer[fd] = Chunks

IInv ==
  /\ TypeOK /\ Sockets /\ Queue /\ CleanSlate /\ Stages /\ NoStaleEvents
  /\ WatchesWhatItNeeds /\ NoEdgeLost /\ Ledger /\ AnswersAreEarned
  /\ BacklogNoticed
-----------------------------------------------------------------------------
(* The steps by what they do to connections.  These leave them alone:      *)
Quiet ==
  \/ Listen \/ Install \/ EpollWait \/ Leave \/ (\E e \in batch : Dispatch(e))
  \/ EndBatch \/ AcceptDone \/ AcceptFails \/ RequestIncomplete \/ SendWouldBlock
  \/ Killed

(* and these end the one the handler is busy with.                         *)
Drops(how) ==
  /\ pc \in {"read", "write"}
  /\ how = "200" => pc = "write" /\ write_buffer[cur] = 0
  /\ Drop(how)

Endings == Answers \ {"none"}

LEMMA StepCases ==
  ASSUME [Next]_vars
  PROVE  \/ Quiet \/ Heartbeat \/ (\E how \in Endings : Drops(how))
         \/ Refuse \/ Admit \/ Recv \/ Respond \/ Send
         \/ \E c \in Clients : \/ Connect(c) \/ Drain(c) \/ Close(c)
                               \/ \E piece \in {"part", "end"} : SendPiece(c, piece)
         \/ (\E fd \in Fds : GrowIdle(fd)) \/ Signal \/ UNCHANGED vars
<1>1. RecvTooMuch \/ RecvEnds \/ SendFails => Drops("closed")
      BY DEF RecvTooMuch, RecvEnds, SendFails, Drops
<1>2. TooManyRequests => Drops("refused")
      BY DEF TooManyRequests, Drops
<1>3. WriteDone => Drops("200")
      BY DEF WriteDone, Written, Drops
<1>4. {"closed", "refused", "200"} \subseteq Endings
      BY DEF Endings, Answers
<1> QED BY <1>1, <1>2, <1>3, <1>4 DEF Next, Server, Environment, Quiet

LEMMA QuietEffect ==
  ASSUME Quiet
  PROVE  UNCHANGED <<flags, buffers, owner, interest, wire, clients>>
<1> USE DEF Quiet, loop, flags, buffers, epoll, accepts, wire, clients
<1>1. CASE Listen \/ Install \/ EpollWait \/ Leave \/ EndBatch
      BY <1>1 DEF Listen, Install, EpollWait, Leave, EndBatch
<1>2. ASSUME NEW e \in batch, Dispatch(e)
      PROVE  UNCHANGED <<flags, buffers, owner, interest, wire, clients>>
      BY <1>2 DEF Dispatch
<1>3. CASE AcceptDone \/ AcceptFails \/ RequestIncomplete
      BY <1>3 DEF AcceptDone, AcceptFails, RequestIncomplete
<1>4. CASE SendWouldBlock \/ Killed
      BY <1>4 DEF SendWouldBlock, Killed
<1> QED BY <1>1, <1>2, <1>3, <1>4
-----------------------------------------------------------------------------
(* Types.                                                                  *)

LEMMA InitTypes == Init => TypeOK
<1> SUFFICES ASSUME Init PROVE TypeOK
    OBVIOUS
<1> USE SizeAssumption DEF Init
<1>1. /\ <<>> \in Seq({"part", "end"}) /\ <<>> \in Seq(Clients)
      OBVIOUS
<1>2. /\ 0 \in 0..Chunks /\ Room \in 0..Room /\ 0 \in 0..MaxPieces
      OBVIOUS
<1>3. /\ pc = "boot" /\ cur \in Fds \cup {server_fd}
      /\ batch = {} /\ ready = {}
      OBVIOUS
<1>4. /\ read_buffer \in [Fds -> Seq({"part", "end"})]
      /\ write_buffer \in [Fds -> 0..Chunks] /\ idle \in [Fds -> BOOLEAN]
      /\ owner \in [Fds -> Clients \cup {Nobody}]
      /\ interest \in [Fds -> {"none", "IN", "OUT"}]
      BY <1>1, <1>2
<1>5. /\ inbox \in [Clients -> Seq({"part", "end"})]
      /\ room \in [Clients -> 0..Room]
      /\ phase \in [Clients -> {"away", "queued", "connected"}]
      /\ gone \in [Clients -> BOOLEAN] /\ sent \in [Clients -> 0..MaxPieces]
      /\ asked \in [Clients -> BOOLEAN] /\ received \in [Clients -> 0..Chunks]
      /\ answer \in [Clients -> Answers]
      BY <1>1, <1>2 DEF Answers
<1> QED BY <1>1, <1>2, <1>3, <1>4, <1>5 DEF TypeOK

LEMMA DeliveredType ==
  ASSUME TypeOK
  PROVE  Delivered \subseteq [fd : Fds \cup {server_fd}, kind : {"IN", "OUT"},
                              client : Clients \cup {Nobody}]
<1>1. ASSUME NEW fd \in Fds \cup {server_fd}, NEW kind \in {"IN", "OUT"}
      PROVE  Event(fd, kind) \in [fd : Fds \cup {server_fd}, kind : {"IN", "OUT"},
                                  client : Clients \cup {Nobody}]
      BY DEF Event, TypeOK, Connected
<1> QED BY <1>1 DEF Delivered, Connected

(* Ending connections keeps the types of all that belongs to them.         *)
LEMMA ReleaseTypes ==
  ASSUME TypeOK, NEW closing \in SUBSET Connected, NEW how \in Answers,
         Release(closing, how)
  PROVE  /\ owner' \in [Fds -> Clients \cup {Nobody}]
         /\ interest' \in [Fds -> {"none", "IN", "OUT"}]
         /\ ready' \subseteq Connected' \cup {server_fd}
         /\ read_buffer' \in [Fds -> Seq({"part", "end"})]
         /\ write_buffer' \in [Fds -> 0..Chunks]
         /\ idle' \in [Fds -> BOOLEAN]
<1> USE SizeAssumption DEF TypeOK, Release, Connected
<1>1. owner' \in [Fds -> Clients \cup {Nobody}] OBVIOUS
<1>2. interest' \in [Fds -> {"none", "IN", "OUT"}] OBVIOUS
<1>3. ready' \subseteq Connected' \cup {server_fd} OBVIOUS
<1>4. read_buffer' \in [Fds -> Seq({"part", "end"})] OBVIOUS
<1>5. write_buffer' \in [Fds -> 0..Chunks] OBVIOUS
<1>6. idle' \in [Fds -> BOOLEAN] OBVIOUS
<1> QED BY <1>1, <1>2, <1>3, <1>4, <1>5, <1>6

LEMMA PartTypes ==
  ASSUME TypeOK, NEW leaving, NEW how \in Answers, Part(leaving, how)
  PROVE  /\ phase' \in [Clients -> {"away", "queued", "connected"}]
         /\ answer' \in [Clients -> Answers]
         /\ gone' \in [Clients -> BOOLEAN]
         /\ sent' \in [Clients -> 0..MaxPieces]
         /\ inbox' \in [Clients -> Seq({"part", "end"})]
         /\ room' \in [Clients -> 0..Room]
         /\ asked' \in [Clients -> BOOLEAN]
         /\ received' \in [Clients -> 0..Chunks]
<1> USE SizeAssumption DEF TypeOK, Part
<1>1. phase' \in [Clients -> {"away", "queued", "connected"}] OBVIOUS
<1>2. answer' \in [Clients -> Answers] OBVIOUS
<1>3. gone' \in [Clients -> BOOLEAN] OBVIOUS
<1>4. sent' \in [Clients -> 0..MaxPieces] OBVIOUS
<1>5. inbox' \in [Clients -> Seq({"part", "end"})] OBVIOUS
<1>6. room' \in [Clients -> 0..Room] OBVIOUS
<1> QED BY <1>1, <1>2, <1>3, <1>4, <1>5, <1>6

LEMMA QuietTypes == ASSUME TypeOK, Quiet PROVE TypeOK'
<1> USE DEF Quiet, TypeOK, loop, flags, buffers, epoll, accepts, wire, clients
<1>0. UNCHANGED <<flags, buffers, owner, interest, wire, clients>>
      BY QuietEffect
<1>1. Connected' = Connected
      BY <1>0 DEF Connected
<1>2. /\ pc' \in {"boot", "bound", "wait", "dispatch", "accept", "read", "write",
                  "exited", "killed"}
      /\ cur' \in Fds \cup {server_fd}
  <2>1. CASE Listen \/ Install \/ EpollWait \/ Leave \/ EndBatch
        BY <2>1 DEF Listen, Install, EpollWait, Leave, EndBatch
  <2>2. ASSUME NEW e \in batch, Dispatch(e)
        PROVE  /\ pc' \in {"boot", "bound", "wait", "dispatch", "accept", "read",
                           "write", "exited", "killed"}
               /\ cur' \in Fds \cup {server_fd}
        BY <2>2 DEF Dispatch, Connected
  <2>3. CASE AcceptDone \/ AcceptFails \/ RequestIncomplete
        BY <2>3 DEF AcceptDone, AcceptFails, RequestIncomplete, Return
  <2>4. CASE SendWouldBlock \/ Killed
        BY <2>4 DEF SendWouldBlock, Killed, Return
  <2> QED BY <2>1, <2>2, <2>3, <2>4
<1>3. batch' \subseteq [fd : Fds \cup {server_fd}, kind : {"IN", "OUT"},
                        client : Clients \cup {Nobody}]
  <2>1. CASE EpollWait
        BY <2>1, DeliveredType DEF EpollWait
  <2>2. CASE ~EpollWait
    <3>1. batch' \subseteq batch
          BY <2>2 DEF Listen, Install, Leave, Dispatch, EndBatch, AcceptDone,
                      AcceptFails, RequestIncomplete, SendWouldBlock, Killed
    <3> QED BY <3>1
  <2> QED BY <2>1, <2>2
<1>4. ready' \subseteq Connected' \cup {server_fd}
  <2>1. ready' \subseteq ready \cup {server_fd}
        BY DEF Listen, Install, EpollWait, Leave, Dispatch, EndBatch, AcceptDone,
               AcceptFails, RequestIncomplete, SendWouldBlock, Killed
  <2> QED BY <1>1, <2>1
<1>5. listening' \in BOOLEAN /\ backlog' = backlog
      BY DEF Listen, Install, EpollWait, Leave, Dispatch, EndBatch, AcceptDone,
             AcceptFails, RequestIncomplete, SendWouldBlock, Killed
<1>6. spent' \in BOOLEAN
      BY DEF Listen, Install, EpollWait, Leave, Dispatch, EndBatch, AcceptDone,
             AcceptFails, RequestIncomplete, SendWouldBlock, Killed
<1> QED BY <1>0, <1>1, <1>2, <1>3, <1>4, <1>5, <1>6

LEMMA BusyIsConnected ==
  ASSUME NoStaleEvents, pc \in {"read", "write"}
  PROVE  cur \in Connected
BY DEF NoStaleEvents

LEMMA TypesStep == ASSUME IInv, [Next]_vars PROVE TypeOK'
<1> USE SizeAssumption DEF IInv, TypeOK, loop, flags, buffers, epoll, accepts, wire, clients
<1>1. CASE Quiet
      BY <1>1, QuietTypes
<1>2. CASE Heartbeat
  <2>1. Swept \in SUBSET Connected /\ "closed" \in Answers
        BY DEF Swept, Answers
  <2>2. Release(Swept, "closed") /\ Part({owner[fd] : fd \in Swept}, "closed")
        BY <1>2 DEF Heartbeat, Release
  <2> QED BY <1>2, <2>1, <2>2, ReleaseTypes, PartTypes DEF Heartbeat
<1>3. ASSUME NEW how \in Endings, Drops(how) PROVE TypeOK'
  <2>1. {cur} \in SUBSET Connected /\ how \in Answers
        BY <1>3, BusyIsConnected DEF Drops, Endings
  <2>2. Release({cur}, how) /\ Part({owner[fd] : fd \in {cur}}, how)
        BY <1>3 DEF Drops, Drop, Release
  <2>3. pc' = "dispatch" /\ cur' = server_fd /\ UNCHANGED <<batch, flags, accepts>>
        BY <1>3 DEF Drops, Drop, Return
  <2> QED BY <2>1, <2>2, <2>3, ReleaseTypes, PartTypes
<1>4. CASE Refuse
  <2>1. Part({Head(backlog)}, "refused") /\ "refused" \in Answers
        BY <1>4 DEF Refuse, Answers
  <2>2. backlog' \in Seq(Clients)
        BY <1>4 DEF Refuse, Accepting
  <2> QED BY <1>4, <2>1, <2>2, PartTypes DEF Refuse, AfterAccept, Connected
<1>5. CASE Admit
  <2>1. Head(backlog) \in Clients /\ backlog' \in Seq(Clients)
        BY <1>5 DEF Admit, Accepting
  <2>2. PICK fd \in FreeFds :
          /\ owner' = [owner EXCEPT ![fd] = Head(backlog)]
          /\ interest' = [interest EXCEPT ![fd] = "IN"]
          /\ ready' \subseteq ready \cup {fd}
          /\ phase' = [phase EXCEPT ![Head(backlog)] = "connected"]
        BY <1>5 DEF Admit
  <2>3. fd \in Fds /\ Connected' = Connected \cup {fd}
        BY <2>1, <2>2, DescriptorAssumption DEF FreeFds, Connected
  <2> QED BY <1>5, <2>1, <2>2, <2>3 DEF Admit, AfterAccept
<1>6. CASE Recv
  <2>1. cur \in Fds /\ Peer \in Clients /\ UNCHANGED Connected
        BY <1>6, BusyIsConnected DEF Recv, Connected, Peer
  <2>2. /\ read_buffer' \in [Fds -> Seq({"part", "end"})]
        /\ inbox' \in [Clients -> Seq({"part", "end"})]
    <3>1. Head(inbox[Peer]) \in {"part", "end"} /\ Tail(inbox[Peer]) \in Seq({"part", "end"})
          BY <1>6, <2>1 DEF Recv
    <3> QED BY <1>6, <2>1, <3>1 DEF Recv
  <2> QED BY <1>6, <2>1, <2>2 DEF Recv
<1>7. CASE Respond
  <2>1. cur \in Connected /\ cur \in Fds /\ UNCHANGED Connected
        BY <1>7, BusyIsConnected DEF Respond, Connected
  <2>2. read_buffer' \in [Fds -> Seq({"part", "end"})]
        BY <1>7, <2>1 DEF Respond
  <2> QED BY <1>7, <2>1, <2>2 DEF Respond, WatchForWrite, Return
<1>8. CASE Send
  <2>1. cur \in Connected /\ cur \in Fds /\ Peer \in Clients /\ UNCHANGED Connected
        BY <1>8, BusyIsConnected DEF Send, Connected, Peer
  <2>2. received[Peer] + write_buffer[cur] = Chunks /\ write_buffer[cur] > 0
        BY <1>8, <2>1 DEF Send, Stages, Ledger, Peer
  <2>3. received' \in [Clients -> 0..Chunks]
        BY <1>8, <2>1, <2>2 DEF Send
  <2>4. room[Peer] - 1 \in 0..Room /\ write_buffer[cur] - 1 \in 0..Chunks
    <3>1. room[Peer] \in 0..Room /\ write_buffer[cur] \in 0..Chunks
          BY <2>1
    <3>2. room[Peer] > 0 /\ write_buffer[cur] > 0
          BY <1>8 DEF Send
    <3> QED BY ONLY <3>1, <3>2, SizeAssumption
  <2>5. room' \in [Clients -> 0..Room]
        BY <1>8, <2>1, <2>4 DEF Send
  <2>6. write_buffer' \in [Fds -> 0..Chunks]
        BY <1>8, <2>1, <2>4 DEF Send
  <2> QED BY <1>8, <2>1, <2>3, <2>5, <2>6 DEF Send
<1>9. ASSUME NEW c \in Clients, Connect(c) PROVE TypeOK'
  <2>1. /\ backlog' \in Seq(Clients) /\ ready' \subseteq Connected \cup {server_fd}
        /\ Connected' = Connected
        BY <1>9 DEF Connect, Connected
  <2>2. /\ asked' \in [Clients -> BOOLEAN] /\ spent' \in BOOLEAN
        /\ answer' \in [Clients -> Answers]
        BY <1>9 DEF Connect, Answers
  <2>3. /\ phase' \in [Clients -> {"away", "queued", "connected"}]
        /\ received' \in [Clients -> 0..Chunks]
        BY <1>9, SizeAssumption DEF Connect
  <2> QED BY <1>9, <2>1, <2>2, <2>3 DEF Connect
<1>10. ASSUME NEW c \in Clients, NEW piece \in {"part", "end"}, SendPiece(c, piece)
       PROVE  TypeOK'
  <2>1. inbox' \in [Clients -> Seq({"part", "end"})] /\ sent' \in [Clients -> 0..MaxPieces]
        BY <1>10 DEF SendPiece
  <2>2. ready' \subseteq Connected \cup {server_fd} /\ Connected' = Connected
        BY <1>10 DEF SendPiece, Edge, Connected
  <2> QED BY <1>10, <2>1, <2>2 DEF SendPiece
<1>11. ASSUME NEW c \in Clients, Drain(c) \/ Close(c) PROVE TypeOK'
  <2>1. ready' \subseteq Connected \cup {server_fd} /\ Connected' = Connected
        BY <1>11 DEF Drain, Close, Edge, Connected
  <2>2. CASE Drain(c)
        BY <2>1, <2>2 DEF Drain
  <2>3. CASE Close(c)
        BY <2>1, <2>3 DEF Close
  <2> QED BY <1>11, <2>2, <2>3
<1>12. ASSUME NEW fd \in Fds, GrowIdle(fd) PROVE TypeOK'
       BY <1>12 DEF GrowIdle, Connected
<1>13. CASE Signal
  <2>1. Part({c \in Clients : phase[c] = "queued"}, "closed") /\ "closed" \in Answers
        BY <1>13 DEF Signal, Answers
  <2>2. UNCHANGED <<pc, cur, batch, read_buffer, write_buffer, idle, owner, interest,
                    spent, Connected>>
        BY <1>13 DEF Signal, Connected
  <2>3. /\ running' \in BOOLEAN /\ listening' \in BOOLEAN
        BY <1>13, Zenon DEF Signal
  <2>4. backlog' \in Seq(Clients) /\ ready' \subseteq Connected \cup {server_fd}
        BY <1>13 DEF Signal
  <2>5. reactor_running' \in BOOLEAN
        BY <1>13 DEF Signal, StoppedReactor
  <2>6. early' \in BOOLEAN
    <3>1. early' = (pc \in {"boot", "bound"})
          BY <1>13, Zenon DEF Signal
    <3>2. (pc \in {"boot", "bound"}) \in BOOLEAN
          OBVIOUS
    <3> QED BY <3>1, <3>2, Zenon
  <2> QED BY <2>1, <2>2, <2>3, <2>4, <2>5, <2>6, PartTypes
<1>14. CASE UNCHANGED vars
       BY <1>14 DEF vars, Connected
<1> QED BY StepCases, <1>1, <1>2, <1>3, <1>4, <1>5, <1>6, <1>7, <1>8, <1>9, <1>10,
           <1>11, <1>12, <1>13, <1>14
-----------------------------------------------------------------------------
(* What the larger steps do, in the terms of the invariants.               *)

(* Connections that stay are left alone by the end of others, and so are   *)
(* their clients.                                                          *)
LEMMA ReleaseEffect ==
  ASSUME TypeOK, Sockets, NEW closing \in SUBSET Connected, NEW how,
         Release(closing, how)
  PROVE  /\ Connected' = Connected \ closing
         /\ \A fd \in Connected' :
              /\ owner'[fd] = owner[fd] /\ interest'[fd] = interest[fd]
              /\ read_buffer'[fd] = read_buffer[fd]
              /\ write_buffer'[fd] = write_buffer[fd]
              /\ owner[fd] \in Clients
              /\ owner[fd] \notin {owner[f] : f \in closing}
         /\ \A fd \in closing :
              /\ owner'[fd] = Nobody /\ interest'[fd] = "none" /\ ~idle'[fd]
              /\ read_buffer'[fd] = <<>> /\ write_buffer'[fd] = 0
         /\ \A fd \in Fds : idle'[fd] => idle[fd]
         /\ Part({owner[f] : f \in closing}, how)
<1> USE DescriptorAssumption DEF Release
<1>1. Connected' = Connected \ closing
      BY DEF TypeOK, Connected
<1>2. ASSUME NEW fd \in Connected'
      PROVE  /\ owner'[fd] = owner[fd] /\ interest'[fd] = interest[fd]
             /\ read_buffer'[fd] = read_buffer[fd]
             /\ write_buffer'[fd] = write_buffer[fd]
             /\ owner[fd] \in Clients
             /\ owner[fd] \notin {owner[f] : f \in closing}
      BY <1>1 DEF TypeOK, Connected, Sockets
<1>3. ASSUME NEW fd \in closing
      PROVE  /\ owner'[fd] = Nobody /\ interest'[fd] = "none" /\ ~idle'[fd]
             /\ read_buffer'[fd] = <<>> /\ write_buffer'[fd] = 0
      BY DEF Connected
<1>4. \A fd \in Fds : idle'[fd] => idle[fd]
      OBVIOUS
<1> QED BY <1>1, <1>2, <1>3, <1>4

LEMMA PartEffect ==
  ASSUME TypeOK, NEW leaving, NEW how, Part(leaving, how)
  PROVE  /\ \A c \in Clients : c \in leaving =>
              /\ phase'[c] = "away" /\ answer'[c] = how /\ ~gone'[c] /\ sent'[c] = 0
              /\ inbox'[c] = <<>> /\ room'[c] = Room
         /\ \A c \in Clients : c \notin leaving =>
              /\ phase'[c] = phase[c] /\ answer'[c] = answer[c]
              /\ gone'[c] = gone[c] /\ sent'[c] = sent[c]
              /\ inbox'[c] = inbox[c] /\ room'[c] = room[c]
         /\ asked' = asked /\ received' = received
<1> USE DEF Part
<1>1. ASSUME NEW c \in Clients, c \in leaving
      PROVE  /\ phase'[c] = "away" /\ answer'[c] = how /\ ~gone'[c] /\ sent'[c] = 0
             /\ inbox'[c] = <<>> /\ room'[c] = Room
      BY <1>1
<1>2. ASSUME NEW c \in Clients, c \notin leaving, gone \in [Clients -> BOOLEAN]
      PROVE  /\ phase'[c] = phase[c] /\ answer'[c] = answer[c]
             /\ gone'[c] = gone[c] /\ sent'[c] = sent[c]
             /\ inbox'[c] = inbox[c] /\ room'[c] = room[c]
  <2>1. /\ phase'[c] = phase[c] /\ answer'[c] = answer[c] /\ sent'[c] = sent[c]
        /\ inbox'[c] = inbox[c] /\ room'[c] = room[c]
        BY <1>2
  <2>2. gone'[c] = gone[c]
        BY <1>2
  <2> QED BY <2>1, <2>2
<1> QED BY <1>1, <1>2 DEF TypeOK

LEMMA TailFacts ==
  ASSUME NEW S, NEW s \in Seq(S), s # <<>>
  PROVE  /\ Head(s) = s[1] /\ 1 \in DOMAIN s /\ Head(s) \in S /\ Tail(s) \in Seq(S)
         /\ \A i \in DOMAIN Tail(s) : i + 1 \in DOMAIN s /\ Tail(s)[i] = s[i + 1]
<1>1. /\ Head(s) \in S /\ Tail(s) \in Seq(S) /\ Len(Tail(s)) = Len(s) - 1
      /\ \A i \in 1..Len(Tail(s)) : Tail(s)[i] = s[i + 1]
      BY HeadTailProperties
<1>2. /\ DOMAIN s = 1..Len(s) /\ Len(s) \in Nat
      /\ DOMAIN Tail(s) = 1..Len(Tail(s)) /\ Len(Tail(s)) \in Nat
      BY <1>1, LenProperties
<1>3. Len(s) # 0
      BY EmptySeq
<1>4. ASSUME NEW i \in DOMAIN Tail(s)
      PROVE  i + 1 \in DOMAIN s /\ Tail(s)[i] = s[i + 1]
      BY <1>1, <1>2
<1> QED BY <1>1, <1>2, <1>3, <1>4

(* The first of the backlog gets a connection, or is turned away.          *)
LEMMA HeadOfBacklog ==
  ASSUME TypeOK, Sockets, Queue, backlog # <<>>
  PROVE  /\ Head(backlog) \in Clients /\ phase[Head(backlog)] = "queued"
         /\ \A fd \in Connected : owner[fd] # Head(backlog)
         /\ Tail(backlog) \in Seq(Clients)
         /\ \A i \in DOMAIN Tail(backlog) :
              /\ i + 1 \in DOMAIN backlog /\ Tail(backlog)[i] = backlog[i + 1]
              /\ Tail(backlog)[i] # Head(backlog)
<1> USE DEF TypeOK
<1>1. /\ Head(backlog) = backlog[1] /\ 1 \in DOMAIN backlog
      /\ Head(backlog) \in Clients /\ Tail(backlog) \in Seq(Clients)
      /\ \A i \in DOMAIN Tail(backlog) :
           i + 1 \in DOMAIN backlog /\ Tail(backlog)[i] = backlog[i + 1]
      BY TailFacts
<1>2. \A i \in DOMAIN Tail(backlog) : i + 1 # 1
      BY <1>1
<1> QED BY <1>1, <1>2 DEF Queue, Sockets

LEMMA AdmitEffect ==
  ASSUME TypeOK, Sockets, Queue, Admit
  PROVE  \E fd \in FreeFds :
           /\ fd \in Fds /\ owner[fd] = Nobody /\ Connected' = Connected \cup {fd}
           /\ owner' = [owner EXCEPT ![fd] = Head(backlog)]
           /\ interest' = [interest EXCEPT ![fd] = "IN"]
           /\ ready' = IF inbox[Head(backlog)] # <<>> \/ gone[Head(backlog)]
                       THEN ready \cup {fd} ELSE ready
           /\ phase' = [phase EXCEPT ![Head(backlog)] = "connected"]
<1>1. backlog # <<>>
      BY DEF Admit, Accepting
<1>2. PICK fd \in FreeFds :
        /\ owner' = [owner EXCEPT ![fd] = Head(backlog)]
        /\ interest' = [interest EXCEPT ![fd] = "IN"]
        /\ ready' = IF inbox[Head(backlog)] # <<>> \/ gone[Head(backlog)]
                    THEN ready \cup {fd} ELSE ready
        /\ phase' = [phase EXCEPT ![Head(backlog)] = "connected"]
      BY DEF Admit
<1>3. fd \in Fds /\ owner[fd] = Nobody
      BY DEF FreeFds, Connected
<1>4. Connected' = Connected \cup {fd}
      BY <1>1, <1>2, <1>3, HeadOfBacklog, DescriptorAssumption DEF Connected, TypeOK
<1> QED BY <1>2, <1>3, <1>4

(* The handler's own connection, while it has one.                         *)
LEMMA BusyPeer ==
  ASSUME TypeOK, Sockets, NoStaleEvents, pc \in {"read", "write"}
  PROVE  /\ cur \in Connected /\ cur \in Fds /\ Peer \in Clients /\ Peer = owner[cur]
         /\ phase[Peer] = "connected"
         /\ \A fd \in Connected : fd # cur => owner[fd] # Peer
BY DEF NoStaleEvents, Connected, TypeOK, Peer, Sockets
-----------------------------------------------------------------------------
(* Connections, the backlog, and what is left behind.                      *)

LEMMA SocketsStep == ASSUME IInv, [Next]_vars PROVE Sockets'
<1> USE DEF IInv, loop, flags, buffers, epoll, accepts, wire, clients
<1>0. TypeOK'
      BY TypesStep
<1>1. CASE Quiet
      BY <1>1, QuietEffect DEF Sockets, Connected
<1>2. ASSUME NEW closing \in SUBSET Connected, NEW how, Release(closing, how)
      PROVE  Sockets'
  <2>0. /\ Connected' = Connected \ closing
        /\ \A fd \in Connected' :
              /\ owner'[fd] = owner[fd] /\ interest'[fd] = interest[fd]
              /\ phase'[owner[fd]] = phase[owner[fd]]
    <3>1. Part({owner[f] : f \in closing}, how)
          BY <1>2 DEF Release
    <3>2. \A c \in Clients : c \notin {owner[f] : f \in closing} => phase'[c] = phase[c]
          BY <3>1, PartEffect
    <3> QED BY <1>2, <3>2, ReleaseEffect
  <2>1. \A fd \in Fds : owner'[fd] = Nobody =>
          /\ interest'[fd] = "none" /\ ~idle'[fd]
          /\ read_buffer'[fd] = <<>> /\ write_buffer'[fd] = 0
        BY <1>2 DEF Release, Sockets
  <2>2. \A fd \in Connected' : interest'[fd] # "none" /\ phase'[owner'[fd]] = "connected"
        BY <2>0 DEF Sockets
  <2>3. \A f, g \in Connected' : owner'[f] = owner'[g] => f = g
        BY <2>0 DEF Sockets
  <2> QED BY <2>1, <2>2, <2>3 DEF Sockets
<1>3. CASE Heartbeat
  <2>1. Swept \in SUBSET Connected
        BY DEF Swept
  <2> QED BY <1>2, <1>3, <2>1 DEF Heartbeat
<1>4. ASSUME NEW how, Drops(how) PROVE Sockets'
  <2>1. {cur} \in SUBSET Connected
        BY <1>4, BusyIsConnected DEF Drops
  <2> QED BY <1>2, <1>4, <2>1 DEF Drops, Drop
<1>5. CASE Refuse
  <2>1. Part({Head(backlog)}, "refused") /\ backlog # <<>>
        BY <1>5 DEF Refuse, Accepting
  <2>2. UNCHANGED <<Connected, owner, interest, buffers>>
        BY <1>5 DEF Refuse, Connected
  <2>3. \A fd \in Connected : phase'[owner[fd]] = phase[owner[fd]]
    <3>1. \A c \in Clients : c # Head(backlog) => phase'[c] = phase[c]
          BY <2>1, PartEffect
    <3> QED BY <2>1, <3>1, HeadOfBacklog DEF TypeOK, Connected
  <2> QED BY <2>2, <2>3 DEF Sockets
<1>6. CASE Admit
  <2>1. backlog # <<>> /\ UNCHANGED buffers
        BY <1>6 DEF Admit, Accepting
  <2>2. PICK fd \in FreeFds :
           /\ fd \in Fds /\ owner[fd] = Nobody /\ Connected' = Connected \cup {fd}
           /\ owner' = [owner EXCEPT ![fd] = Head(backlog)]
           /\ interest' = [interest EXCEPT ![fd] = "IN"]
           /\ phase' = [phase EXCEPT ![Head(backlog)] = "connected"]
        BY <1>6, AdmitEffect
  <2>3. \A f \in Fds : owner'[f] = Nobody =>
          /\ interest'[f] = "none" /\ ~idle'[f]
          /\ read_buffer'[f] = <<>> /\ write_buffer'[f] = 0
        BY <2>1, <2>2, HeadOfBacklog, DescriptorAssumption DEF Sockets, TypeOK
  <2>4. \A f \in Connected' : interest'[f] # "none" /\ phase'[owner'[f]] = "connected"
        BY <2>1, <2>2, HeadOfBacklog DEF Sockets, TypeOK, Connected
  <2>5. \A f, g \in Connected' : owner'[f] = owner'[g] => f = g
        BY <2>1, <2>2, HeadOfBacklog DEF Sockets, TypeOK, Connected
  <2> QED BY <2>3, <2>4, <2>5 DEF Sockets
<1>7. CASE Recv \/ Respond \/ Send
  <2>1. pc \in {"read", "write"}
        BY <1>7 DEF Recv, Respond, Send
  <2>2. UNCHANGED <<owner, phase, Connected>>
        BY <1>7 DEF Recv, Respond, Send, Connected
  <2>3. \A fd \in Fds : fd # cur =>
          /\ interest'[fd] = interest[fd] /\ idle'[fd] = idle[fd]
          /\ read_buffer'[fd] = read_buffer[fd] /\ write_buffer'[fd] = write_buffer[fd]
        BY <1>7 DEF Recv, Respond, Send, TypeOK
  <2>4. interest'[cur] # "none" /\ owner[cur] # Nobody
        BY <1>7, <2>1, BusyPeer DEF Recv, Respond, Send, TypeOK, Sockets, WatchForWrite,
                                    Connected
  <2>5. \A fd \in Fds : owner[fd] = Nobody => fd # cur
        BY <2>4
  <2> QED BY <2>2, <2>3, <2>4, <2>5 DEF Sockets, Connected
<1>8. ASSUME NEW c \in Clients, Connect(c) PROVE Sockets'
  <2>1. UNCHANGED <<owner, interest, buffers, Connected>>
        BY <1>8 DEF Connect, Connected
  <2>2. \A fd \in Connected : phase'[owner[fd]] = phase[owner[fd]]
        BY <1>8 DEF Connect, Sockets, TypeOK, Connected
  <2> QED BY <2>1, <2>2 DEF Sockets
<1>9. ASSUME NEW c \in Clients, \/ Drain(c) \/ Close(c)
                                \/ \E piece \in {"part", "end"} : SendPiece(c, piece)
      PROVE  Sockets'
      BY <1>9 DEF Drain, Close, SendPiece, Sockets, Connected
<1>10. ASSUME NEW fd \in Fds, GrowIdle(fd) PROVE Sockets'
       BY <1>10 DEF GrowIdle, Sockets, Connected, TypeOK
<1>11. CASE Signal
  <2>1. Part({c \in Clients : phase[c] = "queued"}, "closed")
        BY <1>11 DEF Signal
  <2>2. UNCHANGED <<owner, interest, buffers, Connected>>
        BY <1>11 DEF Signal, Connected
  <2>3. \A fd \in Connected : phase'[owner[fd]] = phase[owner[fd]]
    <3>1. \A c \in Clients : phase[c] # "queued" => phase'[c] = phase[c]
          BY <2>1, PartEffect
    <3> QED BY <3>1 DEF Sockets, TypeOK, Connected
  <2> QED BY <2>2, <2>3 DEF Sockets
<1>12. CASE UNCHANGED vars
       BY <1>12 DEF vars, Sockets, Connected
<1> QED BY StepCases, <1>1, <1>3, <1>4, <1>5, <1>6, <1>7, <1>8, <1>9, <1>10, <1>11, <1>12

LEMMA QueueStep == ASSUME IInv, [Next]_vars PROVE Queue'
<1> USE DEF IInv, loop, flags, buffers, epoll, accepts, wire, clients
<1>1. ASSUME UNCHANGED <<backlog, phase>>, listening => listening' PROVE Queue'
      BY <1>1 DEF Queue
<1>2. CASE Quiet
  <2>1. UNCHANGED phase
        BY <1>2, QuietEffect
  <2>2. UNCHANGED backlog /\ (listening => listening')
        BY <1>2 DEF Quiet, Listen, Install, EpollWait, Leave, Dispatch, EndBatch,
               AcceptDone, AcceptFails, RequestIncomplete, SendWouldBlock, Killed, TypeOK
  <2> QED BY <1>1, <2>1, <2>2
<1>3. ASSUME NEW closing \in SUBSET Connected, NEW how, Release(closing, how),
             UNCHANGED accepts
      PROVE  Queue'
  <2>1. Part({owner[f] : f \in closing}, how)
        BY <1>3 DEF Release
  <2>2. ASSUME NEW i \in DOMAIN backlog
        PROVE  phase'[backlog[i]] = "queued"
    <3>1. backlog[i] \in Clients /\ phase[backlog[i]] = "queued"
          BY DEF TypeOK, Queue
    <3>2. backlog[i] \notin {owner[f] : f \in closing}
          BY <3>1 DEF Sockets
    <3> QED BY <2>1, <3>1, <3>2, PartEffect
  <2> QED BY <1>3, <2>2 DEF Queue
<1>4. CASE Heartbeat
  <2>1. Swept \in SUBSET Connected
        BY DEF Swept
  <2> QED BY <1>3, <1>4, <2>1 DEF Heartbeat
<1>5. ASSUME NEW how, Drops(how) PROVE Queue'
  <2>1. {cur} \in SUBSET Connected
        BY <1>5, BusyIsConnected DEF Drops
  <2> QED BY <1>3, <1>5, <2>1 DEF Drops, Drop
<1>6. ASSUME backlog # <<>>, backlog' = Tail(backlog), UNCHANGED listening,
             \A c \in Clients : c # Head(backlog) => phase'[c] = phase[c]
      PROVE  Queue'
  <2>1. \A i \in DOMAIN backlog' :
          /\ i + 1 \in DOMAIN backlog /\ backlog'[i] = backlog[i + 1]
          /\ backlog'[i] # Head(backlog) /\ i \in Int
    <3>1. \A i \in DOMAIN backlog' : i \in Int
          BY <1>6, HeadOfBacklog
    <3> QED BY <1>6, <3>1, HeadOfBacklog
  <2>2. \A i \in DOMAIN backlog' : phase'[backlog'[i]] = "queued"
    <3>1. ASSUME NEW i \in DOMAIN backlog'
          PROVE  phase'[backlog'[i]] = "queued"
      <4>1. phase[backlog[i + 1]] = "queued" /\ backlog[i + 1] \in Clients
            BY <2>1 DEF Queue, TypeOK
      <4> QED BY <1>6, <2>1, <4>1
    <3> QED BY <3>1
  <2>3. ASSUME NEW i \in DOMAIN backlog', NEW j \in DOMAIN backlog',
               backlog'[i] = backlog'[j]
        PROVE  i = j
    <3>1. i + 1 = j + 1
          BY <2>1, <2>3 DEF Queue
    <3> QED BY <2>1, <3>1
  <2> QED BY <1>6, <2>2, <2>3 DEF Queue
<1>7. CASE Refuse
  <2>1. Part({Head(backlog)}, "refused")
        BY <1>7 DEF Refuse
  <2>2. \A c \in Clients : c # Head(backlog) => phase'[c] = phase[c]
        BY <2>1, PartEffect
  <2> QED BY <1>6, <1>7, <2>2 DEF Refuse, Accepting
<1>8. CASE Admit
  <2>1. backlog # <<>> /\ backlog' = Tail(backlog) /\ UNCHANGED listening
        BY <1>8 DEF Admit, Accepting
  <2>2. phase' = [phase EXCEPT ![Head(backlog)] = "connected"]
        BY <1>8 DEF Admit
  <2>3. \A c \in Clients : c # Head(backlog) => phase'[c] = phase[c]
        BY <2>1, <2>2, HeadOfBacklog DEF TypeOK
  <2> QED BY <1>6, <2>1, <2>3
<1>9. CASE Recv \/ Respond \/ Send
      BY <1>1, <1>9 DEF Recv, Respond, Send
<1>10. ASSUME NEW c \in Clients, Connect(c) PROVE Queue'
  <2>1. \A i \in DOMAIN backlog : backlog[i] # c /\ phase'[backlog[i]] = "queued"
        BY <1>10 DEF Connect, Queue, TypeOK
  <2>2. /\ DOMAIN backlog' = DOMAIN backlog \cup {Len(backlog) + 1}
        /\ Len(backlog) + 1 \notin DOMAIN backlog
        /\ backlog'[Len(backlog) + 1] = c
        /\ \A i \in DOMAIN backlog : backlog'[i] = backlog[i]
    <3>1. /\ backlog' = Append(backlog, c) /\ backlog' \in Seq(Clients)
          /\ Len(backlog') = Len(backlog) + 1 /\ backlog'[Len(backlog) + 1] = c
          /\ \A i \in 1..Len(backlog) : backlog'[i] = backlog[i]
          BY <1>10, AppendProperties DEF Connect, TypeOK
    <3>2. /\ DOMAIN backlog = 1..Len(backlog) /\ Len(backlog) \in Nat
          /\ DOMAIN backlog' = 1..Len(backlog')
          BY <3>1, LenProperties DEF TypeOK
    <3> QED BY <3>1, <3>2
  <2>3. phase'[c] = "queued" /\ listening'
        BY <1>10 DEF Connect, TypeOK
  <2> QED BY <2>1, <2>2, <2>3 DEF Queue
<1>11. ASSUME NEW c \in Clients, \/ Drain(c) \/ Close(c)
                                 \/ \E piece \in {"part", "end"} : SendPiece(c, piece)
       PROVE  Queue'
       BY <1>1, <1>11 DEF Drain, Close, SendPiece
<1>12. ASSUME NEW fd \in Fds, GrowIdle(fd) PROVE Queue'
       BY <1>1, <1>12 DEF GrowIdle
<1>13. CASE Signal
       BY <1>13 DEF Signal, Queue
<1>14. CASE UNCHANGED vars
       BY <1>1, <1>14 DEF vars
<1> QED BY StepCases, <1>2, <1>4, <1>5, <1>7, <1>8, <1>9, <1>10, <1>11, <1>12, <1>13, <1>14

LEMMA CleanSlateStep == ASSUME IInv, [Next]_vars PROVE CleanSlate'
<1> USE DEF IInv, loop, flags, buffers, epoll, accepts, wire, clients
<1>1. ASSUME UNCHANGED <<phase, gone, sent, wire>> PROVE CleanSlate'
      BY <1>1 DEF CleanSlate
<1>2. ASSUME NEW leaving, NEW how, Part(leaving, how) PROVE CleanSlate'
  <2> SUFFICES ASSUME NEW c \in Clients, phase'[c] = "away"
               PROVE  inbox'[c] = <<>> /\ room'[c] = Room /\ ~gone'[c] /\ sent'[c] = 0
      BY DEF CleanSlate
  <2>1. CASE c \in leaving
        BY <1>2, <2>1, PartEffect
  <2>2. CASE c \notin leaving
        BY <1>2, <2>2, PartEffect DEF CleanSlate
  <2> QED BY <2>1, <2>2
<1>3. CASE Quiet
      BY <1>1, <1>3, QuietEffect
<1>4. CASE Heartbeat \/ Refuse \/ Signal
  <2>1. \E leaving, how : Part(leaving, how)
        BY <1>4 DEF Heartbeat, Release, Refuse, Signal
  <2> QED BY <1>2, <2>1
<1>5. ASSUME NEW how, Drops(how) PROVE CleanSlate'
      BY <1>2, <1>5 DEF Drops, Drop, Release
<1>6. CASE Admit
  <2>1. UNCHANGED <<gone, sent, wire>> /\ backlog # <<>>
        BY <1>6 DEF Admit, Accepting
  <2>2. phase' = [phase EXCEPT ![Head(backlog)] = "connected"]
        BY <1>6 DEF Admit
  <2> QED BY <2>1, <2>2, HeadOfBacklog DEF CleanSlate, TypeOK
<1>7. CASE Recv
  <2>1. phase[Peer] = "connected" /\ Peer \in Clients
        BY <1>7, BusyPeer DEF Recv
  <2> QED BY <1>7, <2>1 DEF Recv, CleanSlate, TypeOK
<1>8. CASE Respond
      BY <1>1, <1>8 DEF Respond
<1>9. CASE Send
  <2>1. phase[Peer] = "connected" /\ Peer \in Clients
        BY <1>9, BusyPeer DEF Send
  <2> QED BY <1>9, <2>1 DEF Send, CleanSlate, TypeOK
<1>10. ASSUME NEW c \in Clients, \/ Connect(c) \/ Drain(c) \/ Close(c)
                                 \/ \E piece \in {"part", "end"} : SendPiece(c, piece)
       PROVE  CleanSlate'
  <2>1. CASE Connect(c)
        BY <2>1 DEF Connect, CleanSlate, TypeOK
  <2>2. CASE Drain(c)
        BY <2>2 DEF Drain, CleanSlate, TypeOK
  <2>3. CASE Close(c)
        BY <2>3 DEF Close, CleanSlate, TypeOK
  <2>4. ASSUME NEW piece \in {"part", "end"}, SendPiece(c, piece) PROVE CleanSlate'
        BY <2>4 DEF SendPiece, CleanSlate, TypeOK
  <2> QED BY <1>10, <2>1, <2>2, <2>3, <2>4
<1>11. ASSUME NEW fd \in Fds, GrowIdle(fd) PROVE CleanSlate'
       BY <1>1, <1>11 DEF GrowIdle
<1>12. CASE UNCHANGED vars
       BY <1>1, <1>12 DEF vars
<1> QED BY StepCases, <1>3, <1>4, <1>5, <1>6, <1>7, <1>8, <1>9, <1>10, <1>11, <1>12
-----------------------------------------------------------------------------
(* The loop and its batch of events.                                       *)

LEMMA DeliveredEvents ==
  ASSUME TypeOK, NEW e \in Delivered, e.fd # server_fd
  PROVE  /\ e.fd \in ready \cap Connected /\ e.kind = interest[e.fd]
         /\ e.client = owner[e.fd] /\ e.client # Nobody
<1>1. PICK fd \in ready \cap Connected :
             e = Event(fd, interest[fd])
  <2>1. CASE \E fd \in {f \in ready \cap Connected : Readable(f)} : e = Event(fd, "IN")
        BY <2>1 DEF Readable
  <2>2. CASE \E fd \in {f \in ready \cap Connected : Writable(f)} : e = Event(fd, "OUT")
        BY <2>2 DEF Writable
  <2>3. \A fd \in ready \cap {server_fd} : e # Event(fd, "IN")
        BY DEF Event
  <2> QED BY <2>1, <2>2, <2>3 DEF Delivered
<1> QED BY <1>1 DEF Event, Connected

(* There is one event for a connection in a batch.                         *)
LEMMA EventsDiffer ==
  ASSUME TypeOK, NoStaleEvents, NEW e \in batch, NEW f \in batch,
         e.fd # server_fd, e.fd = f.fd
  PROVE  e = f
<1>1. e.kind = f.kind /\ e.client = f.client
      BY DEF NoStaleEvents
<1>2. /\ e \in [fd : Fds \cup {server_fd}, kind : {"IN", "OUT"},
                client : Clients \cup {Nobody}]
      /\ f \in [fd : Fds \cup {server_fd}, kind : {"IN", "OUT"},
                client : Clients \cup {Nobody}]
      BY DEF TypeOK
<1> QED BY <1>1, <1>2

(* What a step must leave alone to keep Stages and NoStaleEvents.          *)
LEMMA LoopKept ==
  ASSUME Stages, NoStaleEvents, UNCHANGED <<pc, cur, batch, owner, interest>>
  PROVE  Stages' /\ NoStaleEvents'
BY DEF Stages, NoStaleEvents, Connected

(* The end of connections that no event of the batch is for.               *)
LEMMA LoopReleased ==
  ASSUME TypeOK, Sockets, Stages, NoStaleEvents, NEW closing \in SUBSET Connected,
         NEW how, Release(closing, how), UNCHANGED batch,
         \A e \in batch : e.fd \notin closing,
         pc' \in {"wait", "dispatch"}, pc' = "wait" => batch = {}
  PROVE  Stages' /\ NoStaleEvents'
<1>1. /\ Connected' = Connected \ closing
      /\ \A fd \in Connected' : owner'[fd] = owner[fd] /\ interest'[fd] = interest[fd]
      BY ReleaseEffect
<1>2. \A e \in batch : e.fd # server_fd => e.fd \in Connected'
      BY <1>1 DEF NoStaleEvents, Connected, TypeOK
<1> QED BY <1>1, <1>2 DEF Stages, NoStaleEvents

LEMMA LoopStep == ASSUME IInv, [Next]_vars PROVE Stages' /\ NoStaleEvents'
<1> USE DEF IInv, loop, flags, buffers, epoll, accepts, wire, clients
<1>1. CASE Quiet
  <2>0. UNCHANGED <<owner, interest, Connected>>
        BY <1>1, QuietEffect DEF Connected
  <2>1. CASE Listen \/ Install \/ Leave \/ EndBatch
        BY <2>0, <2>1 DEF Listen, Install, Leave, EndBatch, Stages, NoStaleEvents
  <2>2. CASE EpollWait
        BY <2>0, <2>2, DeliveredEvents DEF EpollWait, Stages, NoStaleEvents
  <2>3. ASSUME NEW e \in batch, Dispatch(e) PROVE Stages' /\ NoStaleEvents'
    <3>1. batch' \subseteq batch /\ batch' = batch \ {e} /\ pc = "dispatch"
          BY <2>3 DEF Dispatch
    <3>2. CASE e.fd \in Connected /\ pc' = (IF e.kind = "IN" THEN "read" ELSE "write")
               /\ cur' = e.fd
      <4>1. e.fd # server_fd /\ e.kind = interest[e.fd] /\ e.kind \in {"IN", "OUT"}
            BY <3>2, DescriptorAssumption DEF NoStaleEvents, Connected, TypeOK
      <4>2. \A f \in batch' : f.fd # cur'
            BY <3>1, <3>2, <4>1, EventsDiffer
      <4> QED BY <2>0, <3>1, <3>2, <4>1, <4>2 DEF Stages, NoStaleEvents
    <3>3. CASE pc' = "accept" /\ cur' = cur
          BY <2>0, <3>1, <3>3 DEF Stages, NoStaleEvents
    <3>4. CASE UNCHANGED <<pc, cur>>
          BY <2>0, <3>1, <3>4 DEF Stages, NoStaleEvents
    <3> QED BY <2>3, <3>2, <3>3, <3>4 DEF Dispatch
  <2>4. CASE AcceptDone \/ AcceptFails
        BY <2>0, <2>4 DEF AcceptDone, AcceptFails, Stages, NoStaleEvents
  <2>5. CASE RequestIncomplete \/ SendWouldBlock \/ Killed
        BY <2>0, <2>5 DEF RequestIncomplete, SendWouldBlock, Killed, Return,
                          Stages, NoStaleEvents
  <2> QED BY <1>1, <2>1, <2>2, <2>3, <2>4, <2>5 DEF Quiet
<1>2. CASE Heartbeat
  <2>1. Swept \in SUBSET Connected
        BY DEF Swept
  <2>2. pc' = "wait" /\ batch = {} /\ UNCHANGED batch /\ Release(Swept, "closed")
        BY <1>2 DEF Heartbeat, TimedOut, Stages
  <2> QED BY <2>1, <2>2, LoopReleased
<1>3. ASSUME NEW how, Drops(how) PROVE Stages' /\ NoStaleEvents'
  <2>1. {cur} \in SUBSET Connected /\ \A e \in batch : e.fd \notin {cur}
        BY <1>3, BusyIsConnected DEF Drops, Stages
  <2>2. pc' = "dispatch" /\ UNCHANGED batch /\ Release({cur}, how)
        BY <1>3 DEF Drops, Drop, Return
  <2> QED BY <2>1, <2>2, LoopReleased
<1>4. CASE Refuse
      BY <1>4 DEF Refuse, Accepting, AfterAccept, Stages, NoStaleEvents, Connected
<1>5. CASE Admit
  <2>1. PICK fd \in FreeFds :
          /\ fd \in Fds /\ owner[fd] = Nobody /\ Connected' = Connected \cup {fd}
          /\ owner' = [owner EXCEPT ![fd] = Head(backlog)]
          /\ interest' = [interest EXCEPT ![fd] = "IN"]
        BY <1>5, AdmitEffect
  <2>2. UNCHANGED batch /\ pc' = "accept"
        BY <1>5 DEF Admit, AfterAccept
  <2>3. \A e \in batch : e.fd # server_fd =>
          e.fd # fd /\ owner'[e.fd] = owner[e.fd] /\ interest'[e.fd] = interest[e.fd]
        BY <2>1 DEF NoStaleEvents, TypeOK
  <2> QED BY <2>2, <2>3 DEF Stages, NoStaleEvents
<1>6. CASE Recv \/ Send
      BY <1>6, LoopKept DEF Recv, Send
<1>7. CASE Respond
  <2>1. /\ pc' = "dispatch" /\ UNCHANGED <<batch, owner, Connected>>
        /\ \A fd \in Fds : fd # cur => interest'[fd] = interest[fd]
        BY <1>7 DEF Respond, Return, TypeOK, Connected
  <2>2. \A e \in batch : e.fd # server_fd => e.fd # cur /\ e.fd \in Fds
        BY <1>7 DEF Respond, Stages, TypeOK
  <2> QED BY <2>1, <2>2 DEF Stages, NoStaleEvents
<1>8. ASSUME NEW c \in Clients, \/ Connect(c) \/ Drain(c) \/ Close(c)
                                \/ \E piece \in {"part", "end"} : SendPiece(c, piece)
      PROVE  Stages' /\ NoStaleEvents'
      BY <1>8, LoopKept DEF Connect, Drain, Close, SendPiece
<1>9. ASSUME NEW fd \in Fds, GrowIdle(fd) PROVE Stages' /\ NoStaleEvents'
      BY <1>9, LoopKept DEF GrowIdle
<1>10. CASE Signal
       BY <1>10, LoopKept DEF Signal
<1>11. CASE UNCHANGED vars
       BY <1>11, LoopKept DEF vars
<1> QED BY StepCases, <1>1, <1>2, <1>3, <1>4, <1>5, <1>6, <1>7, <1>8, <1>9, <1>10, <1>11
-----------------------------------------------------------------------------
(* The way of a request and its answer.                                    *)

LEMMA LedgerKept ==
  ASSUME TypeOK, Ledger,
         UNCHANGED <<read_buffer, write_buffer, owner, interest, inbox, phase, asked,
                     received, answer>>
  PROVE  Ledger'
BY DEF Ledger, Connected, HasEnd

LEMMA LedgerReleased ==
  ASSUME TypeOK, Sockets, Ledger, NEW closing \in SUBSET Connected, NEW how,
         Release(closing, how)
  PROVE  Ledger'
<1>1. /\ Connected' = Connected \ closing
      /\ \A fd \in Connected' :
           /\ owner'[fd] = owner[fd] /\ interest'[fd] = interest[fd]
           /\ read_buffer'[fd] = read_buffer[fd] /\ write_buffer'[fd] = write_buffer[fd]
      BY ReleaseEffect
<1>2. PICK leaving : Part(leaving, how)
      BY DEF Release
<1>3. ASSUME NEW c \in Clients
      PROVE  /\ HasEnd(inbox'[c]) => asked'[c]
             /\ phase'[c] # "away" => answer'[c] = "none"
             /\ phase'[c] = "queued" => received'[c] = 0
  <2>1. CASE c \in leaving
    <3>1. inbox'[c] = <<>> /\ phase'[c] = "away"
          BY <1>2, <2>1, PartEffect
    <3>2. ~HasEnd(<<>>)
          BY DEF HasEnd
    <3> QED BY <3>1, <3>2
  <2>2. CASE c \notin leaving
    <3>1. /\ inbox'[c] = inbox[c] /\ phase'[c] = phase[c] /\ answer'[c] = answer[c]
          /\ asked' = asked /\ received' = received
          BY <1>2, <2>2, PartEffect
    <3> QED BY <3>1 DEF Ledger
  <2> QED BY <2>1, <2>2
<1>4. asked' = asked /\ received' = received
      BY <1>2, PartEffect
<1>5. ASSUME NEW fd \in Connected'
      PROVE  /\ HasEnd(read_buffer'[fd]) => asked'[owner'[fd]]
             /\ interest'[fd] = "IN" => received'[owner'[fd]] = 0 /\ write_buffer'[fd] = 0
             /\ interest'[fd] = "OUT" =>
                  asked'[owner'[fd]] /\ received'[owner'[fd]] + write_buffer'[fd] = Chunks
      BY <1>1, <1>4 DEF Ledger
<1> QED BY <1>3, <1>5 DEF Ledger

(* Clients whose connections are over, and nothing else.                   *)
LEMMA LedgerParted ==
  ASSUME TypeOK, Ledger, NEW leaving, NEW how, Part(leaving, how),
         UNCHANGED <<read_buffer, write_buffer, owner, interest>>
  PROVE  Ledger'
<1>1. ASSUME NEW c \in Clients
      PROVE  /\ HasEnd(inbox'[c]) => asked'[c]
             /\ phase'[c] # "away" => answer'[c] = "none"
             /\ phase'[c] = "queued" => received'[c] = 0
  <2>1. CASE c \in leaving
    <3>1. inbox'[c] = <<>> /\ phase'[c] = "away"
          BY <2>1, PartEffect
    <3>2. ~HasEnd(<<>>)
          BY DEF HasEnd
    <3> QED BY <3>1, <3>2
  <2>2. CASE c \notin leaving
    <3>1. /\ inbox'[c] = inbox[c] /\ phase'[c] = phase[c] /\ answer'[c] = answer[c]
          /\ asked' = asked /\ received' = received
          BY <2>2, PartEffect
    <3> QED BY <3>1 DEF Ledger
  <2> QED BY <2>1, <2>2
<1>2. asked' = asked /\ received' = received /\ Connected' = Connected
      BY PartEffect DEF Connected
<1> QED BY <1>1, <1>2 DEF Ledger

LEMMA HasEndMoves ==
  ASSUME NEW s \in Seq({"part", "end"}), NEW piece \in {"part", "end"}
  PROVE  /\ HasEnd(Append(s, piece)) => HasEnd(s) \/ piece = "end"
         /\ s # <<>> => /\ HasEnd(Tail(s)) => HasEnd(s)
                        /\ Head(s) = "end" => HasEnd(s)
                        /\ Head(s) \in {"part", "end"}
<1>1. ASSUME HasEnd(Append(s, piece)) PROVE HasEnd(s) \/ piece = "end"
  <2>1. /\ DOMAIN Append(s, piece) = 1..(Len(s) + 1) /\ DOMAIN s = 1..Len(s)
        /\ Len(s) \in Nat
        /\ \A i \in 1..Len(s) : Append(s, piece)[i] = s[i]
        /\ Append(s, piece)[Len(s) + 1] = piece
    <3>1. /\ Append(s, piece) \in Seq({"part", "end"})
          /\ Len(Append(s, piece)) = Len(s) + 1
          /\ \A i \in 1..Len(s) : Append(s, piece)[i] = s[i]
          /\ Append(s, piece)[Len(s) + 1] = piece
          BY AppendProperties
    <3> QED BY <3>1, LenProperties
  <2> QED BY <1>1, <2>1 DEF HasEnd
<1>2. ASSUME s # <<>>
      PROVE  /\ HasEnd(Tail(s)) => HasEnd(s)
             /\ Head(s) = "end" => HasEnd(s)
             /\ Head(s) \in {"part", "end"}
  <2>1. /\ Head(s) = s[1] /\ 1 \in DOMAIN s /\ Head(s) \in {"part", "end"}
        /\ \A i \in DOMAIN Tail(s) : i + 1 \in DOMAIN s /\ Tail(s)[i] = s[i + 1]
        BY <1>2, TailFacts
  <2> QED BY <2>1 DEF HasEnd
<1> QED BY <1>1, <1>2

LEMMA LedgerStep == ASSUME IInv, [Next]_vars PROVE Ledger'
<1> USE DEF IInv, loop, flags, buffers, epoll, accepts, wire, clients
<1>1. CASE Quiet
      BY <1>1, QuietEffect, LedgerKept
<1>2. CASE Heartbeat
  <2>1. Swept \in SUBSET Connected
        BY DEF Swept
  <2> QED BY <1>2, <2>1, LedgerReleased DEF Heartbeat
<1>3. ASSUME NEW how, Drops(how) PROVE Ledger'
  <2>1. {cur} \in SUBSET Connected
        BY <1>3, BusyIsConnected DEF Drops
  <2> QED BY <1>3, <2>1, LedgerReleased DEF Drops, Drop
<1>4. CASE Refuse
  <2>1. Part({Head(backlog)}, "refused")
        BY <1>4 DEF Refuse
  <2> QED BY <1>4, <2>1, LedgerParted DEF Refuse
<1>5. CASE Signal
  <2>1. Part({c \in Clients : phase[c] = "queued"}, "closed")
        BY <1>5 DEF Signal
  <2> QED BY <1>5, <2>1, LedgerParted DEF Signal
<1>6. CASE Admit
  <2>1. /\ backlog # <<>>
        /\ UNCHANGED <<read_buffer, write_buffer, inbox, asked, received, answer>>
        BY <1>6 DEF Admit, Accepting
  <2>2. PICK fd \in FreeFds :
          /\ fd \in Fds /\ owner[fd] = Nobody /\ Connected' = Connected \cup {fd}
          /\ owner' = [owner EXCEPT ![fd] = Head(backlog)]
          /\ interest' = [interest EXCEPT ![fd] = "IN"]
          /\ phase' = [phase EXCEPT ![Head(backlog)] = "connected"]
        BY <1>6, AdmitEffect
  <2>3. Head(backlog) \in Clients /\ phase[Head(backlog)] = "queued"
        BY <2>1, HeadOfBacklog
  <2>4. read_buffer[fd] = <<>> /\ write_buffer[fd] = 0 /\ ~HasEnd(<<>>)
        BY <2>2 DEF Sockets, HasEnd
  <2>5. \A c \in Clients :
          /\ HasEnd(inbox'[c]) => asked'[c]
          /\ phase'[c] # "away" => answer'[c] = "none"
          /\ phase'[c] = "queued" => received'[c] = 0
        BY <2>1, <2>2, <2>3 DEF Ledger, TypeOK
  <2>6. ASSUME NEW f \in Connected'
        PROVE  /\ HasEnd(read_buffer'[f]) => asked'[owner'[f]]
               /\ interest'[f] = "IN" => received'[owner'[f]] = 0 /\ write_buffer'[f] = 0
               /\ interest'[f] = "OUT" =>
                    asked'[owner'[f]] /\ received'[owner'[f]] + write_buffer'[f] = Chunks
    <3>1. CASE f = fd
      <4>1. owner'[f] = Head(backlog) /\ interest'[f] = "IN"
            BY <2>2, <3>1 DEF TypeOK
      <4>2. received[Head(backlog)] = 0
            BY <2>3 DEF Ledger
      <4> QED BY <2>1, <2>4, <3>1, <4>1, <4>2
    <3>2. CASE f # fd
      <4>1. f \in Connected /\ owner'[f] = owner[f] /\ interest'[f] = interest[f]
            BY <2>2, <3>2 DEF TypeOK, Connected
      <4> QED BY <2>1, <4>1 DEF Ledger
    <3> QED BY <3>1, <3>2
  <2> QED BY <2>5, <2>6 DEF Ledger
<1>7. CASE Recv
  <2>1. /\ cur \in Connected /\ cur \in Fds /\ Peer \in Clients /\ Peer = owner[cur]
        /\ inbox[Peer] # <<>> /\ pc = "read"
        BY <1>7, BusyPeer DEF Recv
  <2>2. /\ read_buffer' = [read_buffer EXCEPT ![cur] = Append(@, Head(inbox[Peer]))]
        /\ inbox' = [inbox EXCEPT ![Peer] = Tail(@)]
        /\ UNCHANGED <<write_buffer, owner, interest, phase, asked, received, answer,
                       Connected>>
        BY <1>7 DEF Recv, Connected
  <2>3. /\ HasEnd(Tail(inbox[Peer])) => HasEnd(inbox[Peer])
        /\ HasEnd(read_buffer[cur]) \/ Head(inbox[Peer]) = "end" => asked[Peer]
        /\ HasEnd(Append(read_buffer[cur], Head(inbox[Peer])))
             => HasEnd(read_buffer[cur]) \/ Head(inbox[Peer]) = "end"
    <3>1. inbox[Peer] \in Seq({"part", "end"}) /\ read_buffer[cur] \in Seq({"part", "end"})
          BY <2>1 DEF TypeOK
    <3>2. /\ HasEnd(Tail(inbox[Peer])) => HasEnd(inbox[Peer])
          /\ Head(inbox[Peer]) = "end" => HasEnd(inbox[Peer])
          /\ Head(inbox[Peer]) \in {"part", "end"}
          BY <2>1, <3>1, HasEndMoves
    <3>3. HasEnd(Append(read_buffer[cur], Head(inbox[Peer])))
             => HasEnd(read_buffer[cur]) \/ Head(inbox[Peer]) = "end"
          BY <3>1, <3>2, HasEndMoves
    <3> QED BY <2>1, <3>2, <3>3 DEF Ledger
  <2>4. \A c \in Clients : HasEnd(inbox'[c]) => asked[c]
        BY <2>1, <2>2, <2>3 DEF Ledger, TypeOK
  <2>5. \A fd \in Connected : HasEnd(read_buffer'[fd]) => asked[owner[fd]]
    <3>1. ASSUME NEW fd \in Connected, HasEnd(read_buffer'[fd]) PROVE asked[owner[fd]]
      <4>1. CASE fd = cur
            BY <2>1, <2>2, <2>3, <3>1, <4>1 DEF TypeOK
      <4>2. CASE fd # cur
            BY <2>1, <2>2, <3>1, <4>2 DEF TypeOK, Ledger, Connected
      <4> QED BY <4>1, <4>2
    <3> QED BY <3>1
  <2> QED BY <2>2, <2>4, <2>5 DEF Ledger
<1>8. CASE Respond
  <2>1. /\ cur \in Connected /\ cur \in Fds /\ Peer \in Clients /\ Peer = owner[cur]
        /\ pc = "read"
        BY <1>8, BusyPeer DEF Respond
  <2>2. /\ read_buffer' = [read_buffer EXCEPT ![cur] = <<>>]
        /\ write_buffer' = [write_buffer EXCEPT ![cur] = Chunks]
        /\ interest' = [interest EXCEPT ![cur] = "OUT"]
        /\ UNCHANGED <<inbox, owner, phase, asked, received, answer, Connected>>
        BY <1>8 DEF Respond, WatchForWrite, Connected
  <2>3. asked[Peer] /\ received[Peer] = 0
        BY <1>8, <2>1 DEF Respond, HeaderEnded, Ledger, HasEnd, Stages
  <2>4. ASSUME NEW f \in Connected'
        PROVE  /\ HasEnd(read_buffer'[f]) => asked'[owner'[f]]
               /\ interest'[f] = "IN" => received'[owner'[f]] = 0 /\ write_buffer'[f] = 0
               /\ interest'[f] = "OUT" =>
                    asked'[owner'[f]] /\ received'[owner'[f]] + write_buffer'[f] = Chunks
    <3>1. CASE f = cur
      <4>1. write_buffer'[f] = Chunks /\ interest'[f] = "OUT" /\ owner'[f] = Peer
            BY <2>1, <2>2, <3>1 DEF TypeOK
      <4> QED BY <2>2, <2>3, <4>1, SizeAssumption
    <3>2. CASE f # cur
      <4>1. /\ f \in Connected /\ interest'[f] = interest[f]
            /\ write_buffer'[f] = write_buffer[f] /\ read_buffer'[f] = read_buffer[f]
            BY <2>2, <3>2 DEF TypeOK, Connected
      <4> QED BY <2>2, <4>1 DEF Ledger
    <3> QED BY <3>1, <3>2
  <2> QED BY <2>2, <2>4 DEF Ledger
<1>9. CASE Send
  <2>1. /\ cur \in Connected /\ cur \in Fds /\ Peer \in Clients /\ Peer = owner[cur]
        /\ phase[Peer] = "connected" /\ pc = "write"
        /\ \A fd \in Connected : fd # cur => owner[fd] # Peer
        BY <1>9, BusyPeer DEF Send
  <2>2. /\ write_buffer[cur] > 0
        /\ write_buffer' = [write_buffer EXCEPT ![cur] = @ - 1]
        /\ received' = [received EXCEPT ![Peer] = @ + 1]
        /\ UNCHANGED <<read_buffer, interest, inbox, owner, phase, asked, answer,
                       Connected>>
        BY <1>9 DEF Send, Connected
  <2>3. \A c \in Clients : phase[c] = "queued" => received'[c] = 0
        BY <2>1, <2>2 DEF Ledger, TypeOK
  <2>4. ASSUME NEW f \in Connected
        PROVE  /\ interest[f] = "IN" => received'[owner[f]] = 0 /\ write_buffer'[f] = 0
               /\ interest[f] = "OUT" =>
                    asked[owner[f]] /\ received'[owner[f]] + write_buffer'[f] = Chunks
    <3>1. CASE f = cur
      <4>1. /\ received'[Peer] = received[Peer] + 1 /\ received[Peer] \in Int
            /\ write_buffer'[f] = write_buffer[f] - 1 /\ write_buffer[f] \in Int
            BY <2>1, <2>2, <3>1 DEF TypeOK
      <4>2. interest[f] = "OUT" /\ asked[Peer] /\ received[Peer] + write_buffer[f] = Chunks
            BY <2>1, <3>1 DEF Ledger, Stages
      <4> QED BY <2>1, <3>1, <4>1, <4>2, SizeAssumption
    <3>2. CASE f # cur
      <4>1. owner[f] # Peer /\ f \in Fds /\ owner[f] \in Clients
            BY <2>1, <3>2 DEF Connected, TypeOK
      <4>2. write_buffer'[f] = write_buffer[f] /\ received'[owner[f]] = received[owner[f]]
            BY <2>1, <2>2, <3>2, <4>1 DEF TypeOK
      <4> QED BY <4>2 DEF Ledger
    <3> QED BY <3>1, <3>2
  <2> QED BY <2>2, <2>3, <2>4 DEF Ledger
<1>10. ASSUME NEW c \in Clients, Connect(c) PROVE Ledger'
  <2>1. /\ UNCHANGED <<read_buffer, write_buffer, owner, interest, inbox, Connected>>
        /\ \A d \in Clients : d # c =>
             /\ phase'[d] = phase[d] /\ answer'[d] = answer[d]
             /\ received'[d] = received[d] /\ asked'[d] = asked[d]
        /\ received'[c] = 0 /\ answer'[c] = "none"
        BY <1>10 DEF Connect, TypeOK, Connected
  <2>2. inbox[c] = <<>> /\ ~HasEnd(<<>>)
        BY <1>10 DEF Connect, CleanSlate, HasEnd
  <2>3. \A fd \in Connected : owner[fd] # c /\ owner[fd] \in Clients
        BY <1>10 DEF Connect, Sockets, Connected, TypeOK
  <2>4. \A d \in Clients :
          /\ HasEnd(inbox'[d]) => asked'[d]
          /\ phase'[d] # "away" => answer'[d] = "none"
          /\ phase'[d] = "queued" => received'[d] = 0
        BY <2>1, <2>2 DEF Ledger
  <2> QED BY <2>1, <2>3, <2>4 DEF Ledger
<1>11. ASSUME NEW c \in Clients, NEW piece \in {"part", "end"}, SendPiece(c, piece)
       PROVE  Ledger'
  <2>1. /\ UNCHANGED <<read_buffer, write_buffer, owner, interest, phase, received,
                       answer, Connected>>
        /\ inbox' = [inbox EXCEPT ![c] = Append(@, piece)]
        /\ asked' = [asked EXCEPT ![c] = @ \/ piece = "end"]
        BY <1>11 DEF SendPiece, Connected
  <2>2. \A d \in Clients : asked[d] => asked'[d]
        BY <2>1 DEF TypeOK
  <2>3. \A d \in Clients : HasEnd(inbox'[d]) => asked'[d]
    <3>1. ASSUME NEW d \in Clients, HasEnd(inbox'[d]) PROVE asked'[d]
      <4>1. CASE d = c
        <5>1. HasEnd(inbox[c]) \/ piece = "end"
              BY <2>1, <3>1, <4>1, HasEndMoves DEF TypeOK
        <5>2. asked'[c] = (asked[c] \/ piece = "end")
              BY <2>1 DEF TypeOK
        <5> QED BY <4>1, <5>1, <5>2 DEF Ledger
      <4>2. CASE d # c
            BY <2>1, <2>2, <3>1, <4>2 DEF Ledger, TypeOK
      <4> QED BY <4>1, <4>2
    <3> QED BY <3>1
  <2>4. \A fd \in Connected : owner[fd] \in Clients
        BY DEF TypeOK, Connected
  <2> QED BY <2>1, <2>2, <2>3, <2>4 DEF Ledger
<1>12. ASSUME NEW c \in Clients, Drain(c) \/ Close(c) PROVE Ledger'
       BY <1>12, LedgerKept DEF Drain, Close
<1>13. ASSUME NEW fd \in Fds, GrowIdle(fd) PROVE Ledger'
       BY <1>13, LedgerKept DEF GrowIdle
<1>14. CASE UNCHANGED vars
       BY <1>14, LedgerKept DEF vars
<1> QED BY StepCases, <1>1, <1>2, <1>3, <1>4, <1>5, <1>6, <1>7, <1>8, <1>9, <1>10, <1>11,
           <1>12, <1>13, <1>14
-----------------------------------------------------------------------------
(* What a connection waits for.                                            *)

(* What is left to show where a step ends, the ledger being in order.      *)
LEMMA WatchesIf ==
  ASSUME TypeOK', Sockets', Ledger',
         \A fd \in Connected' :
           (interest'[fd] = "OUT" /\ ~Busy(fd)') => write_buffer'[fd] > 0
  PROVE  WatchesWhatItNeeds'
<1> SUFFICES ASSUME NEW fd \in Connected', ~Busy(fd)'
             PROVE  interest'[fd] = "OUT" <=> write_buffer'[fd] > 0
    BY DEF WatchesWhatItNeeds
<1>1. interest'[fd] \in {"IN", "OUT"}
      BY DEF TypeOK, Sockets, Connected
<1>2. interest'[fd] = "IN" => ~(write_buffer'[fd] > 0)
      BY DEF Ledger
<1> QED BY <1>1, <1>2

(* A step that leaves to each what it waits for and has to write, and the  *)
(* handler with the connection it was busy with.                           *)
LEMMA WatchesKept ==
  ASSUME TypeOK', Sockets', Ledger', WatchesWhatItNeeds,
         Connected' \subseteq Connected,
         \A fd \in Connected' :
           /\ interest'[fd] = interest[fd] /\ write_buffer'[fd] = write_buffer[fd]
           /\ Busy(fd) => Busy(fd)'
  PROVE  WatchesWhatItNeeds'
BY WatchesIf DEF WatchesWhatItNeeds

LEMMA WatchesStep == ASSUME IInv, [Next]_vars PROVE WatchesWhatItNeeds'
<1> USE DEF IInv, loop, flags, buffers, epoll, accepts, wire, clients
<1>0. TypeOK' /\ Sockets' /\ Ledger'
      BY TypesStep, SocketsStep, LedgerStep
<1>1. CASE Quiet
  <2>0. UNCHANGED <<owner, interest, write_buffer, Connected>>
        BY <1>1, QuietEffect DEF Connected
  <2>1. CASE RequestIncomplete \/ SendWouldBlock \/ Killed
    <3>1. ASSUME NEW fd \in Connected, interest[fd] = "OUT" PROVE write_buffer[fd] > 0
      <4>1. CASE Busy(fd)
        <5>1. ~RequestIncomplete
              BY <3>1, <4>1 DEF RequestIncomplete, Stages, Busy
        <5>2. SendWouldBlock \/ Killed => write_buffer[cur] > 0
              BY SizeAssumption DEF SendWouldBlock, Killed
        <5> QED BY <2>1, <4>1, <5>1, <5>2 DEF Busy
      <4>2. CASE ~Busy(fd)
            BY <3>1, <4>2 DEF WatchesWhatItNeeds
      <4> QED BY <4>1, <4>2
    <3> QED BY <1>0, <2>0, <3>1, WatchesIf
  <2>2. CASE ~(RequestIncomplete \/ SendWouldBlock \/ Killed)
    <3>1. pc \notin {"read", "write"}
          BY <1>1, <2>2 DEF Quiet, Listen, Install, EpollWait, Leave, Dispatch, EndBatch,
                            AcceptDone, AcceptFails
    <3>2. \A fd \in Connected' : ~Busy(fd)
          BY <3>1 DEF Busy
    <3> QED BY <1>0, <2>0, <3>2, WatchesKept
  <2> QED BY <2>1, <2>2
<1>2. CASE Heartbeat
  <2>1. Swept \in SUBSET Connected
        BY DEF Swept
  <2>2. Release(Swept, "closed") /\ UNCHANGED <<pc, cur>>
        BY <1>2 DEF Heartbeat
  <2>3. \A fd \in Connected' :
          /\ interest'[fd] = interest[fd] /\ write_buffer'[fd] = write_buffer[fd]
          /\ Busy(fd) => Busy(fd)'
        BY <2>1, <2>2, ReleaseEffect DEF Busy
  <2> QED BY <1>0, <2>1, <2>2, <2>3, ReleaseEffect, WatchesKept
<1>3. ASSUME NEW how, Drops(how) PROVE WatchesWhatItNeeds'
  <2>1. {cur} \in SUBSET Connected /\ Release({cur}, how)
        BY <1>3, BusyIsConnected DEF Drops, Drop
  <2>2. /\ Connected' = Connected \ {cur}
        /\ \A fd \in Connected' :
             interest'[fd] = interest[fd] /\ write_buffer'[fd] = write_buffer[fd]
        BY <2>1, ReleaseEffect
  <2>3. \A fd \in Connected' : ~Busy(fd)
        BY <2>2 DEF Busy
  <2> QED BY <1>0, <2>2, <2>3, WatchesKept
<1>4. CASE Refuse
  <2>1. /\ UNCHANGED <<owner, interest, write_buffer, Connected>>
        /\ pc \notin {"read", "write"}
        BY <1>4 DEF Refuse, Accepting, Connected
  <2> QED BY <1>0, <2>1, WatchesKept DEF Busy
<1>5. CASE Admit
  <2>1. UNCHANGED write_buffer /\ pc = "accept"
        BY <1>5 DEF Admit, Accepting
  <2>2. PICK fd \in FreeFds :
          /\ fd \in Fds /\ Connected' = Connected \cup {fd}
          /\ interest' = [interest EXCEPT ![fd] = "IN"]
        BY <1>5, AdmitEffect
  <2>3. ASSUME NEW f \in Connected', interest'[f] = "OUT" PROVE write_buffer'[f] > 0
    <3>1. f # fd /\ f \in Connected /\ interest[f] = "OUT"
          BY <2>2, <2>3 DEF TypeOK, Connected
    <3> QED BY <2>1, <3>1 DEF WatchesWhatItNeeds, Busy
  <2> QED BY <1>0, <2>3, WatchesIf
<1>6. CASE Recv
  <2>1. UNCHANGED <<pc, cur, owner, interest, write_buffer, Connected>>
        BY <1>6 DEF Recv, Connected
  <2> QED BY <1>0, <2>1, WatchesKept DEF Busy
<1>7. CASE Respond
  <2>1. /\ write_buffer' = [write_buffer EXCEPT ![cur] = Chunks]
        /\ interest' = [interest EXCEPT ![cur] = "OUT"] /\ UNCHANGED Connected
        BY <1>7 DEF Respond, WatchForWrite, Connected
  <2>2. ASSUME NEW f \in Connected, interest'[f] = "OUT" PROVE write_buffer'[f] > 0
    <3>1. CASE f = cur
          BY <2>1, <3>1, SizeAssumption DEF Connected, TypeOK
    <3>2. CASE f # cur
      <4>1. interest[f] = "OUT" /\ write_buffer'[f] = write_buffer[f] /\ ~Busy(f)
            BY <2>1, <2>2, <3>2 DEF Connected, TypeOK, Busy
      <4> QED BY <4>1 DEF WatchesWhatItNeeds
    <3> QED BY <3>1, <3>2
  <2> QED BY <1>0, <2>1, <2>2, WatchesIf
<1>8. CASE Send
  <2>1. /\ UNCHANGED <<pc, cur, owner, interest, Connected>> /\ pc = "write"
        /\ write_buffer' = [write_buffer EXCEPT ![cur] = @ - 1]
        BY <1>8 DEF Send, Connected
  <2>2. ASSUME NEW f \in Connected, interest[f] = "OUT", ~Busy(f)'
        PROVE  write_buffer'[f] > 0
    <3>1. f # cur /\ ~Busy(f) /\ write_buffer'[f] = write_buffer[f]
          BY <2>1, <2>2 DEF Busy, TypeOK, Connected
    <3> QED BY <2>2, <3>1 DEF WatchesWhatItNeeds
  <2> QED BY <1>0, <2>1, <2>2, WatchesIf
<1>9. ASSUME NEW c \in Clients, \/ Connect(c) \/ Drain(c) \/ Close(c)
                                \/ \E piece \in {"part", "end"} : SendPiece(c, piece)
      PROVE  WatchesWhatItNeeds'
  <2>1. UNCHANGED <<pc, cur, owner, interest, write_buffer, Connected>>
        BY <1>9 DEF Connect, Drain, Close, SendPiece, Connected
  <2> QED BY <1>0, <2>1, WatchesKept DEF Busy
<1>10. ASSUME NEW fd \in Fds, GrowIdle(fd) PROVE WatchesWhatItNeeds'
  <2>1. UNCHANGED <<pc, cur, owner, interest, write_buffer, Connected>>
        BY <1>10 DEF GrowIdle, Connected
  <2> QED BY <1>0, <2>1, WatchesKept DEF Busy
<1>11. CASE Signal \/ UNCHANGED vars
  <2>1. UNCHANGED <<pc, cur, owner, interest, write_buffer, Connected>>
        BY <1>11 DEF Signal, vars, Connected
  <2> QED BY <1>0, <2>1, WatchesKept DEF Busy
<1> QED BY StepCases, <1>1, <1>2, <1>3, <1>4, <1>5, <1>6, <1>7, <1>8, <1>9, <1>10, <1>11
-----------------------------------------------------------------------------
(* No edge is lost.                                                        *)

Due(fd) == Readable(fd) \/ Writable(fd)

(* What a step must do for each connection: leave it with nothing due, or  *)
(* busy, or noticed, or as it was.                                         *)
LEMMA EdgesIf ==
  ASSUME NoEdgeLost, (running' /\ Alive') => (running /\ Alive),
         \A fd \in Connected' : (~Busy(fd)' /\ Due(fd)') =>
           \/ Noticed(fd)'
           \/ /\ fd \in Connected /\ ~Busy(fd) /\ Due(fd)
              /\ Noticed(fd) => Noticed(fd)'
  PROVE  NoEdgeLost'
BY DEF NoEdgeLost, Due

(* Where nothing is due that was not.                                      *)
LEMMA DueKept ==
  ASSUME NEW fd \in Connected, owner'[fd] = owner[fd], interest'[fd] = interest[fd],
         /\ inbox'[owner[fd]] = inbox[owner[fd]] /\ room'[owner[fd]] = room[owner[fd]]
         /\ gone'[owner[fd]] = gone[owner[fd]]
  PROVE  Due(fd)' <=> Due(fd)
BY DEF Due, Readable, Writable

(* The end of some connections is nothing to the others.                   *)
LEMMA EdgesReleased ==
  ASSUME TypeOK, Sockets, NoEdgeLost, NEW closing \in SUBSET Connected, NEW how,
         Release(closing, how), UNCHANGED <<batch, running>>, Alive,
         \A fd \in Connected' : ~Busy(fd) \/ Busy(fd)'
  PROVE  NoEdgeLost'
<1>1. /\ Connected' = Connected \ closing
      /\ \A fd \in Connected' :
           /\ owner'[fd] = owner[fd] /\ interest'[fd] = interest[fd]
           /\ owner[fd] \in Clients /\ owner[fd] \notin {owner[f] : f \in closing}
      /\ Part({owner[f] : f \in closing}, how)
      BY ReleaseEffect
<1>2. \A fd \in Connected' :
        /\ inbox'[owner[fd]] = inbox[owner[fd]] /\ room'[owner[fd]] = room[owner[fd]]
        /\ gone'[owner[fd]] = gone[owner[fd]]
      BY <1>1, PartEffect
<1>3. ASSUME NEW fd \in Connected' PROVE Due(fd)' <=> Due(fd)
      BY <1>1, <1>2, DueKept
<1>4. \A fd \in Connected' : Noticed(fd) => Noticed(fd)'
      BY <1>1 DEF Release, Noticed
<1> QED BY <1>1, <1>3, <1>4, EdgesIf

LEMMA EdgesQuiet == ASSUME IInv, Quiet PROVE NoEdgeLost'
<1> USE DEF IInv, loop, flags, buffers, epoll, accepts, wire, clients
<1>0. UNCHANGED <<running, owner, interest, wire, gone, Connected>>
      BY QuietEffect DEF Connected
<1>1. ASSUME NEW fd \in Connected PROVE Due(fd)' <=> Due(fd)
      BY <1>0, DueKept
<1>2. CASE Listen \/ Install
      BY <1>0, <1>2 DEF Listen, Install, Stages, NoEdgeLost
<1>3. CASE EpollWait
  <2>1. pc = "wait" /\ batch = {} /\ batch' = Delivered
        BY <1>3 DEF EpollWait, Stages
  <2>2. ASSUME NEW fd \in Connected, fd \in ready, Due(fd)
        PROVE  \E e \in batch' : e.fd = fd
    <3>1. /\ Readable(fd) => Event(fd, "IN") \in Delivered
          /\ Writable(fd) => Event(fd, "OUT") \in Delivered
          BY <2>2 DEF Delivered
    <3>2. Event(fd, "IN").fd = fd /\ Event(fd, "OUT").fd = fd
          BY DEF Event
    <3> QED BY <2>1, <2>2, <3>1, <3>2 DEF Due
  <2>3. \A fd \in Connected : Due(fd) /\ Noticed(fd) => Noticed(fd)'
        BY <2>1, <2>2 DEF Noticed
  <2>4. \A fd \in Connected : ~Busy(fd)
        BY <2>1 DEF Busy
  <2>5. Alive
        BY <2>1 DEF Alive
  <2> QED BY <1>0, <1>1, <2>3, <2>4, <2>5, EdgesIf
<1>4. CASE Leave \/ Killed
      BY <1>4 DEF Leave, Killed, NoEdgeLost, Alive
<1>5. ASSUME NEW e \in batch, Dispatch(e) PROVE NoEdgeLost'
  <2>1. pc = "dispatch" /\ batch' = batch \ {e} /\ ready' = ready
        BY <1>5 DEF Dispatch
  <2>2. ASSUME NEW fd \in Connected, running, ~Busy(fd)' PROVE e.fd # fd
        BY <1>5, <2>2, DescriptorAssumption DEF Dispatch, Busy, Connected
  <2>3. \A fd \in Connected : e.fd # fd /\ Noticed(fd) => Noticed(fd)'
        BY <2>1 DEF Noticed
  <2>4. (\A fd \in Connected : ~Busy(fd)) /\ Alive
        BY <2>1 DEF Busy, Alive
  <2>5. CASE running
        BY <1>0, <1>1, <2>2, <2>3, <2>4, <2>5, EdgesIf
  <2>6. CASE ~running
        BY <1>0, <2>6 DEF NoEdgeLost
  <2> QED BY <2>5, <2>6
<1>6. CASE EndBatch \/ AcceptDone \/ AcceptFails
  <2>1. /\ UNCHANGED <<batch, ready>> /\ Alive
        /\ pc \notin {"read", "write"}
        BY <1>6 DEF EndBatch, AcceptDone, AcceptFails, Alive
  <2> QED BY <1>0, <1>1, <2>1, EdgesIf DEF Noticed, Busy
<1>7. CASE RequestIncomplete \/ SendWouldBlock
  <2>1. /\ UNCHANGED <<batch, ready>> /\ Alive
        /\ pc \in {"read", "write"}
        BY <1>7 DEF RequestIncomplete, SendWouldBlock, Alive
  <2>2. ~Due(cur)
        BY <1>7 DEF RequestIncomplete, SendWouldBlock, WouldBlock, Due, Readable,
                    Writable, Stages, Peer
  <2>3. \A fd \in Connected : fd # cur => ~Busy(fd)
        BY DEF Busy
  <2> QED BY <1>0, <1>1, <2>1, <2>2, <2>3, EdgesIf DEF Noticed
<1> QED BY <1>2, <1>3, <1>4, <1>5, <1>6, <1>7 DEF Quiet

LEMMA EdgesStep == ASSUME IInv, [Next]_vars PROVE NoEdgeLost'
<1> USE DEF IInv, loop, flags, buffers, epoll, accepts, wire, clients
<1>1. CASE Quiet
      BY <1>1, EdgesQuiet
<1>2. CASE Heartbeat
  <2>1. Swept \in SUBSET Connected
        BY DEF Swept
  <2>2. Release(Swept, "closed") /\ UNCHANGED <<pc, cur, batch, running>> /\ Alive
        BY <1>2 DEF Heartbeat, TimedOut, Alive
  <2> QED BY <2>1, <2>2, EdgesReleased DEF Busy
<1>3. ASSUME NEW how, Drops(how) PROVE NoEdgeLost'
  <2>1. {cur} \in SUBSET Connected /\ Release({cur}, how)
        BY <1>3, BusyIsConnected DEF Drops, Drop
  <2>2. UNCHANGED <<batch, running>> /\ Alive
        BY <1>3 DEF Drops, Drop, Alive
  <2>3. \A fd \in Connected' : ~Busy(fd)
        BY <2>1, ReleaseEffect DEF Busy
  <2> QED BY <2>1, <2>2, <2>3, EdgesReleased
<1>4. CASE Refuse
  <2>1. /\ Part({Head(backlog)}, "refused") /\ backlog # <<>> /\ pc = "accept"
        /\ UNCHANGED <<running, owner, interest, batch, ready, Connected>>
        BY <1>4 DEF Refuse, Accepting, Connected
  <2>2. ASSUME NEW fd \in Connected PROVE Due(fd)' <=> Due(fd)
    <3>1. owner[fd] \in Clients /\ owner[fd] # Head(backlog)
          BY <2>1, HeadOfBacklog DEF TypeOK, Connected
    <3> QED BY <2>1, <3>1, PartEffect, DueKept
  <2>3. Alive /\ \A fd \in Connected : ~Busy(fd)
        BY <2>1 DEF Alive, Busy
  <2>4. \A fd \in Connected : Noticed(fd) => Noticed(fd)'
        BY <2>1 DEF Noticed
  <2> QED BY <2>1, <2>2, <2>3, <2>4, EdgesIf
<1>5. CASE Admit
  <2>1. /\ UNCHANGED <<running, batch, wire, gone>> /\ backlog # <<>> /\ pc = "accept"
        BY <1>5 DEF Admit, Accepting
  <2>2. PICK fd \in FreeFds :
          /\ fd \in Fds /\ Connected' = Connected \cup {fd}
          /\ owner' = [owner EXCEPT ![fd] = Head(backlog)]
          /\ interest' = [interest EXCEPT ![fd] = "IN"]
          /\ ready' = IF inbox[Head(backlog)] # <<>> \/ gone[Head(backlog)]
                      THEN ready \cup {fd} ELSE ready
        BY <1>5, AdmitEffect
  <2>3. Due(fd)' => Noticed(fd)'
        BY <2>1, <2>2 DEF Due, Readable, Writable, Noticed, TypeOK
  <2>4. ASSUME NEW f \in Connected, f # fd PROVE Due(f)' <=> Due(f)
        BY <2>1, <2>2, <2>4, DueKept DEF TypeOK, Connected
  <2>5. Alive /\ \A f \in Connected : ~Busy(f)
        BY <2>1 DEF Alive, Busy
  <2>6. \A f \in Connected : Noticed(f) => Noticed(f)'
        BY <2>1, <2>2 DEF Noticed
  <2> QED BY <2>1, <2>2, <2>3, <2>4, <2>5, <2>6, EdgesIf
<1>6. CASE Recv \/ Send
  <2>1. /\ pc \in {"read", "write"} /\ UNCHANGED <<pc, cur, batch, running, owner, interest,
                                                  ready, gone, Connected>>
        /\ inbox' = [inbox EXCEPT ![Peer] = Tail(@)] \/ inbox' = inbox
        /\ room' = [room EXCEPT ![Peer] = @ - 1] \/ room' = room
        BY <1>6 DEF Recv, Send, Connected
  <2>2. ASSUME NEW fd \in Connected, fd # cur PROVE Due(fd)' <=> Due(fd)
    <3>1. owner[fd] \in Clients /\ owner[fd] # Peer
          BY <2>1, <2>2, BusyPeer DEF TypeOK, Connected
    <3> QED BY <2>1, <3>1, DueKept DEF TypeOK
  <2>3. Alive /\ Busy(cur)' /\ \A fd \in Connected : fd # cur => ~Busy(fd)
        BY <2>1 DEF Alive, Busy
  <2>4. \A fd \in Connected : Noticed(fd) => Noticed(fd)'
        BY <2>1 DEF Noticed
  <2> QED BY <2>1, <2>2, <2>3, <2>4, EdgesIf
<1>7. CASE Respond
  <2>1. /\ pc = "read" /\ UNCHANGED <<batch, running, owner, wire, gone, Connected>>
        /\ interest' = [interest EXCEPT ![cur] = "OUT"]
        /\ ready' = IF room[Peer] > 0 \/ gone[Peer] THEN ready \cup {cur} ELSE ready
        BY <1>7 DEF Respond, WatchForWrite, Connected
  <2>2. ASSUME NEW fd \in Connected, fd = cur PROVE Due(fd)' => Noticed(fd)'
    <3>1. interest'[fd] = "OUT"
          BY <2>1, <2>2 DEF TypeOK, Connected
    <3> QED BY <2>1, <2>2, <3>1 DEF Due, Readable, Writable, Noticed, Peer
  <2>3. ASSUME NEW fd \in Connected, fd # cur PROVE Due(fd)' <=> Due(fd)
        BY <2>1, <2>3, DueKept DEF TypeOK, Connected
  <2>4. Alive /\ \A fd \in Connected : fd # cur => ~Busy(fd)
        BY <2>1 DEF Alive, Busy
  <2>5. \A fd \in Connected : Noticed(fd) => Noticed(fd)'
        BY <2>1 DEF Noticed
  <2> QED BY <2>1, <2>2, <2>3, <2>4, <2>5, EdgesIf
<1>8. ASSUME NEW c \in Clients, \/ Connect(c) \/ Drain(c) \/ Close(c)
                                \/ \E piece \in {"part", "end"} : SendPiece(c, piece)
      PROVE  NoEdgeLost'
  <2>1. UNCHANGED <<pc, cur, batch, running, owner, interest, Connected>> /\ Alive
        BY <1>8 DEF Connect, Drain, Close, SendPiece, Connected
  <2>2. ready \subseteq ready'
        BY <1>8 DEF Connect, Drain, Close, SendPiece, Edge
  <2>3. ASSUME NEW fd \in Connected PROVE Due(fd)' => Due(fd) \/ fd \in ready'
    <3>1. CASE Connect(c)
          BY <2>1, <3>1, DueKept DEF Connect
    <3>2. CASE owner[fd] # c
          BY <1>8, <2>1, <3>2, DueKept DEF Connect, Drain, Close, SendPiece, TypeOK,
                                           Connected
    <3>3. CASE Drain(c) /\ owner[fd] = c
          BY <2>1, <3>3 DEF Drain, Edge, Due, Readable, Writable
    <3>4. CASE Close(c) /\ owner[fd] = c
          BY <2>1, <3>4 DEF Close, Edge, Due, Readable, Writable
    <3>5. ASSUME NEW piece \in {"part", "end"}, SendPiece(c, piece), owner[fd] = c
          PROVE  Due(fd)' => Due(fd) \/ fd \in ready'
          BY <2>1, <3>5 DEF SendPiece, Edge, Due, Readable, Writable
    <3> QED BY <1>8, <3>1, <3>2, <3>3, <3>4, <3>5
  <2>4. \A fd \in Connected : (Noticed(fd) => Noticed(fd)') /\ (Busy(fd)' <=> Busy(fd))
        BY <2>1, <2>2 DEF Noticed, Busy
  <2>5. \A fd \in ready' : Noticed(fd)'
        BY DEF Noticed
  <2> QED BY <2>1, <2>3, <2>4, <2>5, EdgesIf
<1>9. ASSUME NEW fd \in Fds, GrowIdle(fd) PROVE NoEdgeLost'
  <2>1. UNCHANGED <<pc, cur, batch, running, owner, interest, ready, wire, gone>>
        BY <1>9 DEF GrowIdle
  <2> QED BY <2>1 DEF NoEdgeLost, Connected, Alive, Busy, Noticed, Readable, Writable
<1>10. CASE Signal
       BY <1>10 DEF Signal, NoEdgeLost
<1>11. CASE UNCHANGED vars
       BY <1>11 DEF vars, NoEdgeLost, Connected, Alive, Busy, Noticed, Readable, Writable
<1> QED BY StepCases, <1>1, <1>2, <1>3, <1>4, <1>5, <1>6, <1>7, <1>8, <1>9, <1>10, <1>11
-----------------------------------------------------------------------------
(* Answers, and the backlog.                                               *)

LEMMA AnswersStep == ASSUME IInv, [Next]_vars PROVE AnswersAreEarned'
<1> USE DEF IInv, loop, flags, buffers, epoll, accepts, wire, clients
<1>1. ASSUME UNCHANGED <<asked, received, answer>> PROVE AnswersAreEarned'
      BY <1>1 DEF AnswersAreEarned
<1>2. ASSUME NEW leaving, NEW how, Part(leaving, how),
             \A c \in Clients : (c \in leaving /\ how = "200") => received[c] = Chunks
      PROVE  AnswersAreEarned'
  <2>1. UNCHANGED <<asked, received>>
        BY <1>2, PartEffect
  <2>2. \A c \in Clients : answer'[c] = "200" => received[c] = Chunks
        BY <1>2, PartEffect DEF AnswersAreEarned
  <2> QED BY <2>1, <2>2 DEF AnswersAreEarned
<1>3. CASE Quiet
      BY <1>1, <1>3, QuietEffect
<1>4. CASE Heartbeat \/ Refuse \/ Signal
  <2>1. \E leaving, how : Part(leaving, how) /\ how # "200"
        BY <1>4 DEF Heartbeat, Release, Refuse, Signal
  <2> QED BY <1>2, <2>1
<1>5. ASSUME NEW how, Drops(how) PROVE AnswersAreEarned'
  <2>1. /\ cur \in Connected /\ cur \in Fds /\ Peer \in Clients /\ Peer = owner[cur]
        BY <1>5, BusyPeer DEF Drops
  <2>2. Part({owner[f] : f \in {cur}}, how)
        BY <1>5 DEF Drops, Drop, Release
  <2>3. {owner[f] : f \in {cur}} = {Peer}
        BY <2>1
  <2>4. how = "200" => received[Peer] = Chunks
    <3>1. ASSUME how = "200" PROVE received[Peer] = Chunks
      <4>1. interest[cur] = "OUT" /\ write_buffer[cur] = 0
            BY <1>5, <3>1 DEF Drops, Stages
      <4>2. received[Peer] + write_buffer[cur] = Chunks /\ received[Peer] \in Int
            BY <2>1, <4>1 DEF Ledger, TypeOK
      <4> QED BY <4>1, <4>2
    <3> QED BY <3>1
  <2> QED BY <1>2, <2>2, <2>3, <2>4
<1>6. CASE Admit \/ Recv \/ Respond
      BY <1>1, <1>6 DEF Admit, Recv, Respond
<1>7. CASE Send
  <2>1. /\ cur \in Connected /\ Peer \in Clients /\ Peer = owner[cur]
        /\ phase[Peer] = "connected" /\ interest[cur] = "OUT"
        BY <1>7, BusyPeer DEF Send, Stages
  <2>2. asked[Peer] /\ answer[Peer] = "none"
        BY <2>1 DEF Ledger
  <2>3. /\ UNCHANGED <<asked, answer>>
        /\ \A c \in Clients : c # Peer => received'[c] = received[c]
        BY <1>7 DEF Send, TypeOK
  <2> QED BY <2>2, <2>3 DEF AnswersAreEarned
<1>8. ASSUME NEW c \in Clients, Connect(c) PROVE AnswersAreEarned'
      BY <1>8 DEF Connect, AnswersAreEarned, TypeOK
<1>9. ASSUME NEW c \in Clients, NEW piece \in {"part", "end"}, SendPiece(c, piece)
      PROVE  AnswersAreEarned'
  <2>1. UNCHANGED <<received, answer>> /\ \A d \in Clients : asked[d] => asked'[d]
        BY <1>9 DEF SendPiece, TypeOK
  <2> QED BY <2>1 DEF AnswersAreEarned
<1>10. ASSUME NEW c \in Clients, Drain(c) \/ Close(c) PROVE AnswersAreEarned'
       BY <1>1, <1>10 DEF Drain, Close
<1>11. ASSUME NEW fd \in Fds, GrowIdle(fd) PROVE AnswersAreEarned'
       BY <1>1, <1>11 DEF GrowIdle
<1>12. CASE UNCHANGED vars
       BY <1>1, <1>12 DEF vars
<1> QED BY StepCases, <1>3, <1>4, <1>5, <1>6, <1>7, <1>8, <1>9, <1>10, <1>11, <1>12

LEMMA BacklogKept ==
  ASSUME BacklogNoticed, UNCHANGED <<batch, backlog, spent, running>>,
         pc \notin {"boot", "bound", "accept", "killed"},
         server_fd \in ready => server_fd \in ready'
  PROVE  BacklogNoticed'
BY DEF BacklogNoticed, Noticed

LEMMA BacklogStep == ASSUME IInv, [Next]_vars PROVE BacklogNoticed'
<1> USE DEF IInv, loop, flags, buffers, epoll, accepts, wire, clients
<1>1. CASE Listen \/ Killed \/ Refuse \/ Admit \/ AcceptDone \/ Signal
      BY <1>1 DEF Listen, Killed, Refuse, Admit, AfterAccept, AcceptDone, Signal,
                  BacklogNoticed
<1>2. CASE Install
      BY <1>2 DEF Install, Queue, BacklogNoticed, Noticed
<1>3. CASE EpollWait
  <2>1. /\ pc = "wait" /\ batch = {} /\ batch' = Delivered
        /\ UNCHANGED <<running, backlog, spent>>
        BY <1>3 DEF EpollWait, Stages
  <2>2. Event(server_fd, "IN").fd = server_fd
        BY DEF Event
  <2>3. server_fd \in ready => Noticed(server_fd)'
        BY <2>1, <2>2 DEF Delivered, Noticed
  <2> QED BY <2>1, <2>3 DEF BacklogNoticed, Noticed
<1>4. CASE Leave \/ EndBatch \/ RequestIncomplete \/ SendWouldBlock
      BY <1>4, BacklogKept DEF Leave, EndBatch, RequestIncomplete, SendWouldBlock
<1>5. ASSUME NEW e \in batch, Dispatch(e) PROVE BacklogNoticed'
  <2>1. /\ pc = "dispatch" /\ batch' = batch \ {e}
        /\ UNCHANGED <<ready, running, backlog, spent>>
        BY <1>5 DEF Dispatch
  <2>2. (running /\ e.fd = server_fd) => pc' = "accept"
        BY <1>5, DescriptorAssumption DEF Dispatch, Connected
  <2>3. e.fd # server_fd => (Noticed(server_fd) => Noticed(server_fd)')
        BY <2>1 DEF Noticed
  <2> QED BY <2>1, <2>2, <2>3 DEF BacklogNoticed
<1>6. CASE AcceptFails
      BY <1>6 DEF AcceptFails, BacklogNoticed
<1>7. ASSUME NEW closing \in SUBSET Connected, NEW how, Release(closing, how),
             UNCHANGED <<batch, flags, accepts>>,
             pc \notin {"boot", "bound", "accept", "killed"}
      PROVE  BacklogNoticed'
  <2>1. server_fd \in ready => server_fd \in ready'
        BY <1>7, DescriptorAssumption DEF Release, Connected
  <2> QED BY <1>7, <2>1, BacklogKept
<1>8. CASE Heartbeat
  <2>1. Swept \in SUBSET Connected
        BY DEF Swept
  <2> QED BY <1>7, <1>8, <2>1 DEF Heartbeat, TimedOut
<1>9. ASSUME NEW how, Drops(how) PROVE BacklogNoticed'
  <2>1. {cur} \in SUBSET Connected
        BY <1>9, BusyIsConnected DEF Drops
  <2> QED BY <1>7, <1>9, <2>1 DEF Drops, Drop
<1>10. CASE Recv \/ Respond \/ Send
       BY <1>10, BacklogKept DEF Recv, Respond, Send
<1>11. ASSUME NEW c \in Clients, Connect(c) PROVE BacklogNoticed'
       BY <1>11 DEF Connect, BacklogNoticed, Noticed
<1>12. ASSUME NEW c \in Clients, \/ Drain(c) \/ Close(c)
                                 \/ \E piece \in {"part", "end"} : SendPiece(c, piece)
       PROVE  BacklogNoticed'
  <2>1. UNCHANGED <<pc, batch, backlog, spent, running>> /\ ready \subseteq ready'
        BY <1>12 DEF Drain, Close, SendPiece, Edge
  <2> QED BY <2>1 DEF BacklogNoticed, Noticed
<1>13. ASSUME NEW fd \in Fds, GrowIdle(fd) PROVE BacklogNoticed'
       BY <1>13 DEF GrowIdle, BacklogNoticed, Noticed
<1>14. CASE UNCHANGED vars
       BY <1>14 DEF vars, BacklogNoticed, Noticed
<1> QED BY StepCases, <1>1, <1>2, <1>3, <1>4, <1>5, <1>6, <1>8, <1>9, <1>10, <1>11,
           <1>12, <1>13, <1>14 DEF Quiet
-----------------------------------------------------------------------------
(* The invariant, and what it says of every behaviour.                     *)

LEMMA InitInvariant == Init => IInv
<1> SUFFICES ASSUME Init PROVE IInv
    OBVIOUS
<1>1. TypeOK
      BY InitTypes
<1>2. /\ pc = "boot" /\ batch = {} /\ backlog = <<>> /\ Connected = {}
      BY DEF Init, Connected
<1>3. Sockets /\ Queue /\ CleanSlate /\ Stages /\ NoStaleEvents
      BY <1>2 DEF Init, Sockets, Queue, CleanSlate, Stages, NoStaleEvents
<1>4. WatchesWhatItNeeds /\ NoEdgeLost /\ BacklogNoticed
      BY <1>2 DEF WatchesWhatItNeeds, NoEdgeLost, BacklogNoticed
<1>5. Ledger
  <2>1. ~HasEnd(<<>>)
        BY DEF HasEnd
  <2> QED BY <1>2, <2>1 DEF Init, Ledger
<1>6. AnswersAreEarned
      BY DEF Init, AnswersAreEarned
<1> QED BY <1>1, <1>3, <1>4, <1>5, <1>6 DEF IInv

LEMMA InductiveStep == IInv /\ [Next]_vars => IInv'
BY TypesStep, SocketsStep, QueueStep, CleanSlateStep, LoopStep, WatchesStep, EdgesStep,
   LedgerStep, AnswersStep, BacklogStep DEF IInv

LEMMA Invariance == Spec => []IInv
BY InitInvariant, InductiveStep, PTL DEF Spec

(* Every variable of the event loop keeps its type; with what the ledger   *)
(* adds, no response is longer than what the handler queued, whatever      *)
(* clients send, read and close.                                           *)
THEOREM Types == Spec => []TypeOK
<1>1. IInv => TypeOK
      BY DEF IInv
<1> QED BY <1>1, Invariance, PTL

(* Descriptors are closed and reused while the events of one epoll_wait    *)
(* are handled one by one (Reactor::run), and yet no event that is still   *)
(* to be handled is meant for an earlier client of its descriptor, for any *)
(* number of clients and descriptors.                                      *)
THEOREM EventsAreCurrent == Spec => []NoStaleEvents
<1>1. IInv => NoStaleEvents
      BY DEF IInv
<1> QED BY <1>1, Invariance, PTL

(* A connection is watched for room to write exactly while the handler has *)
(* an answer to write to it.                                               *)
THEOREM InterestIsNeed == Spec => []WatchesWhatItNeeds
<1>1. IInv => WatchesWhatItNeeds
      BY DEF IInv
<1> QED BY <1>1, Invariance, PTL

(* Until a signal, the handler never leaves a connection with something it *)
(* could read or write that epoll has reported and will not report again,  *)
(* although every edge is reported once (EPOLLET).                         *)
THEOREM EdgesAreKept == Spec => []NoEdgeLost
<1>1. IInv => NoEdgeLost
      BY DEF IInv
<1> QED BY <1>1, Invariance, PTL

(* A client receives what it asked for with a complete header on this      *)
(* connection, and one that was served got every piece of the response.    *)
THEOREM EarnedAnswers == Spec => []AnswersAreEarned
<1>1. IInv => AnswersAreEarned
      BY DEF IInv
<1> QED BY <1>1, Invariance, PTL

(* Nobody waits in the backlog unnoticed, unless accept has failed since   *)
(* the last connection arrived: otherwise the loop around it ends only     *)
(* when it finds nobody.                                                   *)
THEOREM BacklogIsNoticed == Spec => []BacklogNoticed
<1>1. IInv => BacklogNoticed
      BY DEF IInv
<1> QED BY <1>1, Invariance, PTL
=============================================================================
