----------------------------- MODULE CmdService -----------------------------
(***************************************************************************)
(* What the command queue promises to its users, with nothing of the       *)
(* semaphore, the mutex, the stack frames and the life of the thread:      *)
(* commands are taken in the order they were queued, one at a time, and    *)
(* every one ends; a caller that waits for its command gets the result of  *)
(* that command, once, unless it gives up first.  CmdThread is shown to    *)
(* implement it.                                                           *)
(***************************************************************************)
EXTENDS Sequences

CONSTANTS
  Cmds,      \* the commands
  Callers,   \* who issues them
  Waiters,   \* the callers that wait
  NoCmd      \* no command

Results == {"success", "error", "drop"}

VARIABLES
  queue,     \* commands that were queued and not taken
  running,   \* the command that was taken and has not ended
  issued,    \* the command each waiting caller waits for
  answer     \* "none", "waiting", or the result it was given

vars == <<queue, running, issued, answer>>

Init ==
  /\ queue = <<>> /\ running = NoCmd
  /\ issued = [p \in Callers |-> NoCmd] /\ answer = [p \in Callers |-> "none"]

(* A caller queues a command, and waits for it if it is one that waits.    *)
Submit(p, c) ==
  /\ answer[p] = "none"
  /\ c # running /\ \A i \in DOMAIN queue : queue[i] # c
  /\ queue' = Append(queue, c)
  /\ \/ /\ p \in Waiters
        /\ issued' = [issued EXCEPT ![p] = c] /\ answer' = [answer EXCEPT ![p] = "waiting"]
     \/ p \notin Waiters /\ UNCHANGED <<issued, answer>>
  /\ UNCHANGED running

Start ==
  /\ running = NoCmd /\ queue # <<>>
  /\ running' = Head(queue) /\ queue' = Tail(queue)
  /\ UNCHANGED <<issued, answer>>

(* The command ends, and whoever still waits for it learns how.            *)
Finish(r) ==
  /\ running # NoCmd /\ running' = NoCmd
  /\ answer' = [p \in Callers |-> IF answer[p] = "waiting" /\ issued[p] = running
                                  THEN r ELSE answer[p]]
  /\ UNCHANGED <<queue, issued>>

(* A caller returns, with its answer or without.                           *)
Return(p) ==
  /\ answer[p] # "none"
  /\ answer' = [answer EXCEPT ![p] = "none"] /\ issued' = [issued EXCEPT ![p] = NoCmd]
  /\ UNCHANGED <<queue, running>>

Next ==
  \/ \E p \in Callers : Return(p) \/ \E c \in Cmds : Submit(p, c)
  \/ Start
  \/ \E r \in Results : Finish(r)

Spec == Init /\ [][Next]_vars

(* Every command that is queued is taken and ends.                         *)
Pending(c) == running = c \/ \E i \in DOMAIN queue : queue[i] = c

EveryCommandEnds == \A c \in Cmds : Pending(c) ~> ~Pending(c)
=============================================================================
