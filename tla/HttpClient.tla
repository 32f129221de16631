----------------------------- MODULE HttpClient -----------------------------
(***************************************************************************)
(* src/src/http/HttpClient.cpp: one call of checkWebsite at a time, by the *)
(* scheduler thread.  Each action is a call into the system and what the   *)
(* code does with its result.  A blocking call ends with a result or with  *)
(* the timeout of the socket, which is counted anew by every call.         *)
(*                                                                         *)
(* What one recv returns is cut down to what the parser sees in it: the    *)
(* number between two spaces after "HTTP/" (a member of Codes), words in   *)
(* that place, which std::stoi throws at, or neither (Plain).              *)
(*                                                                         *)
(* The Bug operators are plausible mistakes in the definition after them.  *)
(* No action uses one; the mutants of PROJECT.json put them in its place.  *)
(***************************************************************************)
EXTENDS Integers

CONSTANTS
  Fds,            \* descriptors a socket may get
  NoFd,
  Codes, Plain,   \* what a recv may bring, see above
  NoPiece         \* nothing has been received

ASSUME ClientAssumption ==
  /\ NoFd \notin Fds
  /\ Codes \subseteq Nat /\ Plain \notin Codes
  /\ NoPiece \notin Codes \cup {Plain}

VARIABLES
  at,             \* where the call is; "idle": there is none;
                  \* "terminated", "killed": the process is gone
  sock,
  open_fds,       \* the members of Fds that are open in the process
  status_code, status_parsed,
  first,          \* history: what the first recv brought
  result          \* of the Response, while at = "returned"

parsed == <<status_code, status_parsed, first>>
clientvars == <<at, sock, open_fds, parsed, result>>

Goto(there) ==
  /\ at' = there
  /\ UNCHANGED <<sock, open_fds, parsed, result>>

(* Response(r): no status, no bytes. *)
Return(r) ==
  /\ at' = "returned" /\ result' = r
  /\ status_code' = 0 /\ status_parsed' = FALSE /\ first' = NoPiece

BugJustReturns(r) == Return(r) /\ UNCHANGED <<sock, open_fds>>
CloseAndReturn(r) == Return(r) /\ sock' = NoFd /\ open_fds' = open_fds \ {sock}
-----------------------------------------------------------------------------
Call == at = "idle" /\ Goto("resolve")

Resolved == at = "resolve" /\ Goto("socket")

DnsFails ==
  /\ at = "resolve"
  /\ Return("DNS_ERROR")
  /\ UNCHANGED <<sock, open_fds>>

NewSocket ==
  /\ at = "socket"
  /\ \E fd \in Fds \ open_fds : sock' = fd /\ open_fds' = open_fds \cup {fd}
  /\ at' = "connect"
  /\ UNCHANGED <<parsed, result>>

SocketFails ==
  /\ at = "socket"
  /\ Return("CONNECTION_ERROR")
  /\ UNCHANGED <<sock, open_fds>>

Connected == at = "connect" /\ Goto("send")

(* errno is read after close(sock), which changes it if sock is not open   *)
(* any more.  A connect that SO_SNDTIMEO ends has EINPROGRESS.             *)
ConnectFails ==
  /\ at = "connect"
  /\ \E errno \in {"ETIMEDOUT", "EINPROGRESS", "ECONNREFUSED"} :
       CloseAndReturn(IF errno = "ETIMEDOUT" /\ sock \in open_fds
                      THEN "TIMEOUT" ELSE "CONNECTION_ERROR")

Sent == at = "send" /\ sock \in open_fds /\ Goto("recv")

SendFails == at = "send" /\ CloseAndReturn("CONNECTION_ERROR")

(* SIGPIPE: the peer has closed and then reset the connection.             *)
SendKills == at = "send" /\ sock \in open_fds /\ Goto("killed")

Recv == at = "recv" /\ sock \in open_fds /\ Goto("blocked")

BugParsesAgain(piece) == piece \in Codes
ParsesStatus(piece)   == ~status_parsed /\ piece \in Codes

RecvData(piece) ==
  /\ at = "blocked"
  /\ at' = "recv"
  /\ IF ParsesStatus(piece)
     THEN status_code' = piece /\ status_parsed' = TRUE
     ELSE UNCHANGED <<status_code, status_parsed>>
  /\ first' = IF first = NoPiece THEN piece ELSE first
  /\ UNCHANGED <<sock, open_fds, result>>

(* std::stoi throws at words; nothing catches it.                          *)
RecvThrows == at = "blocked" /\ ~status_parsed /\ Goto("terminated")

(* recv returned 0: the end of the response.                               *)
RecvEnds ==
  /\ at = "blocked"
  /\ at' = "returned" /\ result' = "SUCCESS"
  /\ sock' = NoFd /\ open_fds' = open_fds \ {sock}
  /\ UNCHANGED parsed

BugRetries == at = "blocked" /\ Goto("recv")
RecvTimesOut == at = "blocked" /\ CloseAndReturn("TIMEOUT")

RecvFails ==
  /\ at = "blocked" \/ (at = "recv" /\ sock \notin open_fds)
  /\ CloseAndReturn("RECEIVE_ERROR")

Data == \E piece \in Codes \cup {Plain} : RecvData(piece)

(* The steps that come by themselves: the calls the code makes, the end of *)
(* those that cannot block for ever, and of a recv that gets nothing.      *)
Progress ==
  \/ Resolved \/ DnsFails \/ NewSocket \/ SocketFails
  \/ Connected \/ ConnectFails \/ Sent \/ SendFails \/ SendKills
  \/ Recv \/ RecvTimesOut \/ (at = "recv" /\ RecvFails)

checkWebsite == Progress \/ Data \/ RecvThrows \/ RecvEnds \/ RecvFails
-----------------------------------------------------------------------------
ClientInit ==
  /\ at = "idle" /\ sock = NoFd
  /\ status_code = 0 /\ status_parsed = FALSE /\ first = NoPiece
  /\ result = "none"
=============================================================================
