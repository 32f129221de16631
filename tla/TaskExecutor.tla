---------------------------- MODULE TaskExecutor ----------------------------
(***************************************************************************)
(* What a pool of workers promises, without locks, condition variables or  *)
(* threads: tasks start in the order they were submitted, each of them     *)
(* once, several may run at a time, and the pool is finished only when     *)
(* nothing submitted before it was closed is left.                         *)
(***************************************************************************)
EXTENDS Sequences

CONSTANT Tasks

VARIABLES queue,    \* submitted and not started, in order
          running,  \* started and not finished
          finished,
          closed,   \* no task submitted from now on is promised to run
          promised, \* the tasks submitted before that
          ended     \* nothing starts any more

exvars == <<queue, running, finished, closed, promised, ended>>

InQueue(t) == \E i \in DOMAIN queue : queue[i] = t

Init ==
  /\ queue = <<>>
  /\ running = {} /\ finished = {} /\ promised = {}
  /\ closed = FALSE /\ ended = FALSE

Submit(t) ==
  /\ ~InQueue(t) /\ t \notin running \cup finished
  /\ queue' = Append(queue, t)
  /\ promised' = IF closed THEN promised ELSE promised \cup {t}
  /\ UNCHANGED <<running, finished, closed, ended>>

Begin ==
  /\ ~ended /\ queue # <<>>
  /\ running' = running \cup {Head(queue)}
  /\ queue' = Tail(queue)
  /\ UNCHANGED <<finished, closed, promised, ended>>

Finish(t) ==
  /\ t \in running
  /\ running' = running \ {t}
  /\ finished' = finished \cup {t}
  /\ UNCHANGED <<queue, closed, promised, ended>>

Close ==
  /\ ~closed
  /\ closed' = TRUE
  /\ UNCHANGED <<queue, running, finished, promised, ended>>

End ==
  /\ closed /\ ~ended
  /\ running = {} /\ promised \subseteq finished
  /\ ended' = TRUE
  /\ UNCHANGED <<queue, running, finished, closed, promised>>

Next ==
  \/ \E t \in Tasks : Submit(t) \/ Finish(t)
  \/ Begin \/ Close \/ End

Spec == Init /\ [][Next]_exvars
=============================================================================
