-------------------------------- MODULE Quota --------------------------------
(***************************************************************************)
(* What a rate limiter promises, whatever it keeps to decide: never more   *)
(* than Most requests of a caller are granted within any Window, and a     *)
(* request is refused only if at least Least of the same caller were.      *)
(*                                                                         *)
(* Two components implement it, with different numbers: the sliding window *)
(* limiter with Least = Most = its limit, and the fixed windows of         *)
(* IPTracker with Least = the limit and Most = twice the limit and one.    *)
(***************************************************************************)
EXTENDS Ages

CONSTANTS Callers,
          Least, Most,  \* per caller
          Window        \* in ticks of the clock

VARIABLES recent,       \* per caller: the ages of the requests granted to it
                        \* in the last Window, the oldest first
          verdict       \* per caller: what became of its last request

quotavars == <<recent, verdict>>

Verdicts == {"none", "pending", "granted", "refused"}

Init ==
  /\ recent  = [c \in Callers |-> <<>>]
  /\ verdict = [c \in Callers |-> "none"]

Ask(c) ==
  /\ verdict[c] # "pending"
  /\ verdict' = [verdict EXCEPT ![c] = "pending"]
  /\ UNCHANGED recent

Grant(c) ==
  /\ verdict[c] = "pending"
  /\ Len(recent[c]) < Most[c]
  /\ recent'  = [recent EXCEPT ![c] = Append(@, 0)]
  /\ verdict' = [verdict EXCEPT ![c] = "granted"]

Refuse(c) ==
  /\ verdict[c] = "pending"
  /\ Len(recent[c]) >= Least[c]
  /\ verdict' = [verdict EXCEPT ![c] = "refused"]
  /\ UNCHANGED recent

(* A tick of the clock: everything gets older, and falls out of the window. *)
Pass ==
  /\ recent' = [c \in Callers |-> Within(Older(recent[c]), Window)]
  /\ UNCHANGED verdict

Next == Pass \/ \E c \in Callers : Ask(c) \/ Grant(c) \/ Refuse(c)

Spec == Init /\ [][Next]_quotavars
=============================================================================
