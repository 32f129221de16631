---------------------------- MODULE ProbingProofs ----------------------------
(***************************************************************************)
(* Proofs about Probing: what a check leaves behind in the process and in  *)
(* the metrics, for any urls, descriptors, latencies, thresholds and       *)
(* length of the window, and any number of checks.                         *)
(***************************************************************************)
EXTENDS Probing, MetricsProofs

Types ==
  /\ at \in {"idle", "resolve", "socket", "connect", "send", "recv", "blocked",
             "returned", "terminated", "killed"}
  /\ sock \in Fds \cup {NoFd} /\ open_fds \subseteq Fds
  /\ status_code \in Nat /\ status_parsed \in BOOLEAN
  /\ url \in Urls /\ signals \in Nat

(* Between two calls of socket() there is no descriptor, and none has the  *)
(* number of server_fd before server_fd is closed.                         *)
Descriptors ==
  /\ at \in {"idle", "resolve", "socket", "returned"} => sock = NoFd
  /\ signals = 0 => sock # server_fd
  /\ DescriptorsAccounted

(* The flag tells whether a status was seen; it was, if in the first piece.*)
StatusLine ==
  /\ first = NoPiece => ~status_parsed
  /\ first \in Codes => status_parsed
  /\ StatusIsThePeers

Recorded(s) ==
  /\ s \in Stats /\ Sampled(s)
  /\ s.last_health # -1 =>
       \/ getHealth(s) = s.last_health
       \/ s.last_health = HEALTHY /\ getHealth(s) = DEGRADED

Records ==
  /\ stats_map \in [Urls -> Stats]
  /\ \A u \in Urls : Recorded(stats_map[u])

LEMMA InitInvariant == Init => Types /\ Descriptors /\ StatusLine /\ Records
<1> SUFFICES ASSUME Init PROVE Types /\ Descriptors /\ StatusLine /\ Records
    OBVIOUS
<1>1. Types /\ Descriptors /\ StatusLine
      BY ClientAssumption, ProbingAssumption
         DEF Init, ClientInit, Types, Descriptors, DescriptorsAccounted,
             StatusLine, StatusIsThePeers
<1>2. SiteStats \in Stats /\ Sampled(SiteStats) /\ SiteStats.last_health = -1
      BY NewIsSampled DEF SiteStats
<1>3. Records
      BY <1>2 DEF Init, Records, Recorded
<1> QED BY <1>1, <1>3
-----------------------------------------------------------------------------
(* The steps of a check, by what they do to the descriptors.               *)

Calls == /\ \/ Resolved \/ Connected \/ Sent \/ SendKills \/ Recv
            \/ Data \/ RecvThrows

Ends == DnsFails \/ SocketFails \/ ConnectFails \/ SendFails \/ RecvEnds
          \/ RecvTimesOut \/ RecvFails

LEMMA StepsOfACheck == checkWebsite => Calls \/ Ends \/ NewSocket
BY DEF checkWebsite, Progress, Calls, Ends

LEMMA TypesStep == ASSUME Types, [Next]_vars PROVE Types'
<1> USE DEF Types
<1>1. CASE Begin
      BY <1>1 DEF Begin, Call, Goto, parsed
<1>2. CASE Record
      BY <1>2 DEF Record
<1>3. CASE Signal
      BY <1>3 DEF Signal, parsed
<1>4. CASE Calls /\ UNCHANGED <<url, stats_map, signals>>
  <2>1. CASE Resolved \/ Connected \/ Sent \/ SendKills \/ Recv \/ RecvThrows
        BY <1>4, <2>1 DEF Resolved, Connected, Sent, SendKills, Recv, RecvThrows, Goto, parsed
  <2>2. ASSUME NEW piece \in Codes \cup {Plain}, RecvData(piece) PROVE Types'
        BY <1>4, <2>2, ClientAssumption DEF RecvData, ParsesStatus
  <2> QED BY <1>4, <2>1, <2>2 DEF Calls, Data
<1>5. CASE Ends /\ UNCHANGED <<url, stats_map, signals>>
  <2>1. /\ at' = "returned" /\ sock' \in {sock, NoFd} /\ open_fds' \subseteq open_fds
        /\ status_code' \in {status_code, 0} /\ status_parsed' \in {status_parsed, FALSE}
        BY <1>5 DEF Ends, DnsFails, SocketFails, ConnectFails, SendFails, RecvEnds,
                    RecvTimesOut, RecvFails, CloseAndReturn, Return, parsed
  <2>2. UNCHANGED <<url, signals>>
        BY <1>5
  <2>3. status_parsed' \in BOOLEAN
        BY <2>1
  <2>4. status_code' \in Nat /\ sock' \in Fds \cup {NoFd} /\ open_fds' \subseteq Fds
        BY <2>1
  <2> QED BY <2>1, <2>2, <2>3, <2>4
<1>6. CASE NewSocket /\ UNCHANGED <<url, stats_map, signals>>
      BY <1>6 DEF NewSocket, parsed
<1>7. CASE UNCHANGED vars
      BY <1>7 DEF vars, clientvars, parsed
<1> QED BY <1>1, <1>2, <1>3, <1>4, <1>5, <1>6, <1>7, StepsOfACheck DEF Next

LEMMA DescriptorsStep == ASSUME Types, Descriptors, [Next]_vars PROVE Descriptors'
<1> USE ClientAssumption, ProbingAssumption DEF Types, Descriptors, DescriptorsAccounted
<1>1. CASE Begin
      BY <1>1 DEF Begin, Call, Goto, parsed
<1>2. CASE Record
      BY <1>2 DEF Record
<1>3. CASE Signal
      BY <1>3 DEF Signal, parsed
<1>4. CASE Calls /\ UNCHANGED <<url, stats_map, signals>>
  <2>1. UNCHANGED <<sock, open_fds>>
        BY <1>4 DEF Calls, Resolved, Connected, Sent, SendKills, Recv, Data, RecvData,
                    RecvThrows, Goto
  <2>2. at' \in {"idle", "resolve", "socket", "returned"} => at = "resolve"
        BY <1>4 DEF Calls, Resolved, Connected, Sent, SendKills, Recv, Data, RecvData,
                    RecvThrows, Goto
  <2> QED BY <1>4, <2>1, <2>2
<1>5. CASE Ends /\ UNCHANGED <<url, stats_map, signals>>
  <2>1. \/ /\ at \in {"resolve", "socket"} /\ at' = "returned"
           /\ UNCHANGED <<sock, open_fds>>
        \/ sock' = NoFd /\ open_fds' = open_fds \ {sock}
        BY <1>5 DEF Ends, DnsFails, SocketFails, ConnectFails, SendFails, RecvEnds,
                    RecvTimesOut, RecvFails, CloseAndReturn, Return
  <2> QED BY <1>5, <2>1
<1>6. CASE NewSocket /\ UNCHANGED <<url, stats_map, signals>>
  <2>1. PICK fd \in Fds \ open_fds : sock' = fd /\ open_fds' = open_fds \cup {fd}
        BY <1>6 DEF NewSocket
  <2>2. sock = NoFd /\ at' = "connect" /\ UNCHANGED signals
        BY <1>6 DEF NewSocket
  <2> QED BY <2>1, <2>2
<1>7. CASE UNCHANGED vars
      BY <1>7 DEF vars, clientvars
<1> QED BY <1>1, <1>2, <1>3, <1>4, <1>5, <1>6, <1>7, StepsOfACheck DEF Next

LEMMA StatusStep == ASSUME Types, StatusLine, [Next]_vars PROVE StatusLine'
<1> USE ClientAssumption DEF StatusLine, StatusIsThePeers
<1>1. CASE Begin
      BY <1>1 DEF Begin, Call, Goto, parsed
<1>2. CASE Record
      BY <1>2 DEF Record
<1>3. CASE Signal
      BY <1>3 DEF Signal, parsed
<1>4. CASE Calls /\ UNCHANGED <<url, stats_map, signals>>
  <2>1. CASE Resolved \/ Connected \/ Sent \/ SendKills \/ Recv
        BY <2>1 DEF Resolved, Connected, Sent, SendKills, Recv, Goto, parsed
  <2>2. CASE RecvThrows
        BY <2>2 DEF RecvThrows, Goto, parsed
  <2>3. ASSUME NEW piece \in Codes \cup {Plain}, RecvData(piece) PROVE StatusLine'
    <3>1. at' # "terminated" /\ first' = IF first = NoPiece THEN piece ELSE first
          BY <2>3 DEF RecvData
    <3>2. CASE first = NoPiece
          BY <2>3, <3>1, <3>2 DEF RecvData, ParsesStatus, Types
    <3>3. CASE first # NoPiece
          BY <2>3, <3>1, <3>3 DEF RecvData, ParsesStatus, Types
    <3> QED BY <3>2, <3>3
  <2> QED BY <1>4, <2>1, <2>2, <2>3 DEF Calls, Data
<1>5. CASE Ends /\ UNCHANGED <<url, stats_map, signals>>
  <2>1. \/ first' = NoPiece /\ status_parsed' = FALSE
        \/ at' = "returned" /\ UNCHANGED parsed
        BY <1>5 DEF Ends, DnsFails, SocketFails, ConnectFails, SendFails, RecvEnds,
                    RecvTimesOut, RecvFails, CloseAndReturn, Return
  <2> QED BY <2>1 DEF parsed
<1>6. CASE NewSocket /\ UNCHANGED <<url, stats_map, signals>>
      BY <1>6 DEF NewSocket, parsed
<1>7. CASE UNCHANGED vars
      BY <1>7 DEF vars, clientvars, parsed
<1> QED BY <1>1, <1>2, <1>3, <1>4, <1>5, <1>6, <1>7, StepsOfACheck DEF Next
-----------------------------------------------------------------------------
(* A check is recorded for the url it was made for, and alerts if need be. *)
LEMMA RecordStep ==
  ASSUME Types, Records, Record
  PROVE  \E t \in Stats :
           /\ evaluateAndAlert(t) \in Stats /\ Sampled(evaluateAndAlert(t))
           /\ t.last_health = stats_map[url].last_health
           /\ t.latencies = evaluateAndAlert(t).latencies
           /\ stats_map' = [stats_map EXCEPT ![url] = evaluateAndAlert(t)]
<1>0. stats_map[url] \in Stats /\ Sampled(stats_map[url]) /\ status_code \in Nat
      BY DEF Types, Records, Recorded
<1>1. CASE result = "SUCCESS"
  <2>1. PICK latency \in Latencies :
          stats_map' = [stats_map EXCEPT
                          ![url] = recordSuccess(stats_map[url], latency, status_code)]
        BY <1>1 DEF Record
  <2>2. latency \in Nat /\ latency < LongMax
        BY ProbingAssumption
  <2> DEFINE new == recordSuccess(stats_map[url], latency, status_code)
  <2>3. /\ new \in Stats /\ Sampled(new)
        /\ \E t \in Stats : /\ new = evaluateAndAlert(t)
                            /\ t.last_health = stats_map[url].last_health
                            /\ t.latencies = new.latencies
        BY <1>0, <2>2, SuccessRecorded
  <2> HIDE DEF new
  <2>4. stats_map' = [stats_map EXCEPT ![url] = new]
        BY <2>1 DEF new
  <2> QED BY <2>3, <2>4
<1>2. CASE result # "SUCCESS"
  <2>1. stats_map' = [stats_map EXCEPT
                        ![url] = recordFailureType(stats_map[url], result)]
        BY <1>2 DEF Record
  <2> DEFINE new == recordFailureType(stats_map[url], result)
  <2>2. /\ new \in Stats /\ Sampled(new)
        /\ \E t \in Stats : /\ new = evaluateAndAlert(t)
                            /\ t.last_health = stats_map[url].last_health
                            /\ t.latencies = new.latencies
        BY <1>0, FailureRecorded
  <2> HIDE DEF new
  <2>3. stats_map' = [stats_map EXCEPT ![url] = new]
        BY <2>1 DEF new
  <2> QED BY <2>2, <2>3
<1> QED BY <1>1, <1>2

LEMMA OthersKeepRecords ==
  ASSUME [Next]_vars
  PROVE  Record \/ UNCHANGED stats_map
BY DEF Next, Begin, Signal, vars

LEMMA RecordsStep == ASSUME Types, Records, [Next]_vars PROVE Records'
<1>1. CASE Record
  <2>1. PICK t \in Stats :
           /\ evaluateAndAlert(t) \in Stats /\ Sampled(evaluateAndAlert(t))
           /\ stats_map' = [stats_map EXCEPT ![url] = evaluateAndAlert(t)]
        BY <1>1, RecordStep
  <2>2. Recorded(evaluateAndAlert(t))
        BY <2>1, AlertAgrees DEF Recorded
  <2> QED BY <2>1, <2>2 DEF Records
<1>2. CASE UNCHANGED stats_map
      BY <1>2 DEF Records
<1> QED BY <1>1, <1>2, OthersKeepRecords

IInv == Types /\ Descriptors /\ StatusLine /\ Records

LEMMA InductiveStep == IInv /\ [Next]_vars => IInv'
BY TypesStep, DescriptorsStep, StatusStep, RecordsStep DEF IInv

LEMMA Invariance == Spec => []IInv
BY InitInvariant, InductiveStep, PTL DEF Spec, IInv

(* Every way out of checkWebsite (HttpClient.cpp:21-153) closes the socket *)
(* it opened, and closes nothing else, until a second signal.              *)
THEOREM NoDescriptorLost == Spec => []DescriptorsAccounted
BY Invariance, PTL DEF IInv, Descriptors

(* A status line that arrives in one piece is the status recorded          *)
(* (HttpClient.cpp:95), and the rest of the response cannot end the        *)
(* process through std::stoi.                                              *)
THEOREM StatusIsFirst == Spec => []StatusIsThePeers
BY Invariance, PTL DEF IInv, StatusLine

(* computePercentile (Metrics.cpp:46) is a quantile of the window, for any *)
(* number of samples and any percentage below 100.                         *)
THEOREM QuantilesCount == Spec => []QuantilesMeanIt
<1>1. ASSUME Records PROVE QuantilesMeanIt
  <2>1. ASSUME NEW u \in Urls, NEW p \in Percents, stats_map[u].latencies # <<>>
        PROVE  LET data == stats_map[u].latencies
                   q    == computePercentile(data, p)
               IN  /\ 100 * Cardinality({i \in DOMAIN data : data[i] <= q}) > p * Len(data)
                   /\ 100 * Cardinality({i \in DOMAIN data : data[i] < q}) <= p * Len(data)
    <3>1. stats_map[u].latencies \in Seq(Nat) /\ p \in 0..99
          BY <1>1, MetricsAssumption DEF Records, Stats
    <3> QED BY <2>1, <3>1, QuantileCounts
  <2> QED BY <2>1 DEF QuantilesMeanIt
<1> QED BY <1>1, Invariance, PTL DEF IInv

(* The figures of exportMetrics (Metrics.cpp:230) agree with each other,   *)
(* whatever the window has dropped.                                        *)
THEOREM ExportInOrder == Spec => []ExportIsOrdered
<1>1. Records => ExportIsOrdered
      BY ExportOrder DEF Records, Recorded, ExportIsOrdered
<1> QED BY <1>1, Invariance, PTL DEF IInv

(* getHealth, asked at any time, agrees with the last alert, but for a     *)
(* HEALTHY that may read DEGRADED (Metrics.cpp:80-132, 312).               *)
THEOREM HealthIsAlerted == Spec => []HealthAgrees
<1>1. Records => HealthAgrees
      BY DEF Records, Recorded, HealthAgrees
<1> QED BY <1>1, Invariance, PTL DEF IInv

(* The hysteresis of computeHealth (Metrics.cpp:84-106): between the       *)
(* thresholds no check moves a site from SLOW to HEALTHY, or back.         *)
THEOREM HealthHasGap == Spec => NoFlapping
<1> DEFINE Gap(u) ==
       LET before == stats_map[u].last_health
           after  == stats_map'[u].last_health
           p90    == computePercentile(stats_map'[u].latencies, HealthPercent)
       IN  ({before, after} = {SLOW, HEALTHY}) => p90 \notin FastBelow..SlowAbove
<1>1. ASSUME IInv, [Next]_vars, NEW u \in Urls PROVE Gap(u)
  <2>1. SLOW # HEALTHY
        BY DEF SLOW, HEALTHY
  <2>2. CASE UNCHANGED stats_map
        BY <2>1, <2>2
  <2>3. CASE Record
    <3>1. PICK t \in Stats :
            /\ t.last_health = stats_map[url].last_health
            /\ t.latencies = evaluateAndAlert(t).latencies
            /\ stats_map' = [stats_map EXCEPT ![url] = evaluateAndAlert(t)]
          BY <1>1, <2>3, RecordStep DEF IInv
    <3>2. evaluateAndAlert(t).last_health = computeHealth(t)
          BY DEF evaluateAndAlert, Stats
    <3>3. CASE u = url
          BY <1>1, <3>1, <3>2, <3>3, AlertHasGap DEF IInv, Records
    <3>4. CASE u # url
          BY <1>1, <2>1, <3>1, <3>4 DEF IInv, Records
    <3> QED BY <3>3, <3>4
  <2> QED BY <1>1, <2>2, <2>3, OthersKeepRecords
<1>2. IInv /\ [Next]_vars => [\A u \in Urls : Gap(u)]_vars
      BY <1>1
<1> QED BY <1>2, Invariance, PTL DEF Spec, NoFlapping
=============================================================================
