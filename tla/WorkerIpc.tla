----------------------------- MODULE WorkerIpc ------------------------------
(***************************************************************************)
(* The lock around the worker's transactions with the ARTIQ master         *)
(* (worker_ipc_lock.py).  A parent action writes a request line to the one *)
(* pipe of the process and then reads a reply line, whosever it is.  The   *)
(* lock makes the pair atomic for the actions that were wrapped: those the *)
(* sweep over the worker module finds, and the copy of the dataset action  *)
(* that the dataset manager took at startup, which is reached only if      *)
(* install_worker_ipc_lock is given the experiment.                        *)
(***************************************************************************)
EXTENDS Sequences, Naturals

CONSTANTS
  Main,    \* the main thread, which builds the experiment
  Others,  \* the threads that the experiment starts
  None     \* no thread

ASSUME IpcAssumption == Main \notin Others /\ None \notin Others \cup {Main}

Threads == {Main} \cup Others
Actions == {"swept", "captured"}

VARIABLES
  inWorker,   \* a live worker module is in sys.modules
  installed,  \* _installed
  wrapped,    \* the actions that take the lock
  started,    \* the experiment is built, and its threads may run
  holder,     \* the thread that holds _ipc_lock
  pc,         \* where each thread is
  requests,   \* lines on their way to the master: who sent them
  replies,    \* lines on their way back: whom they answer
  got         \* whom the reply was for that each thread read last

vars == <<inWorker, installed, wrapped, started, holder, pc, requests, replies, got>>
setting == <<inWorker, installed, wrapped, started>>
pipe == <<requests, replies>>

TypeOK ==
  /\ inWorker \in BOOLEAN /\ installed \in BOOLEAN /\ started \in BOOLEAN
  /\ wrapped \subseteq Actions
  /\ holder \in Threads \cup {None}
  /\ pc \in [Threads -> {"idle", "waiting", "sending", "reading"}]
  /\ requests \in Seq(Threads) /\ replies \in Seq(Threads)
  /\ got \in [Threads -> Threads]
  /\ installed => inWorker /\ "swept" \in wrapped

Init ==
  /\ inWorker \in BOOLEAN
  /\ installed = FALSE /\ wrapped = {} /\ started = FALSE
  /\ holder = None
  /\ pc = [t \in Threads |-> "idle"]
  /\ requests = <<>> /\ replies = <<>>
  /\ got = [t \in Threads |-> t]

Go(t, where) == pc' = [pc EXCEPT ![t] = where]

(* A mutant: a second call returns early. *)
WrapOnce(env) ==
  /\ installed' = (installed \/ inWorker)
  /\ wrapped' = wrapped \cup {a \in Actions : inWorker /\ ~installed /\ (a = "captured" => env)}

(* install_worker_ipc_lock: outside a worker nothing happens, and nothing  *)
(* is latched; given the experiment it finds the captured action as well.  *)
Wrap(env) ==
  /\ installed' = (installed \/ inWorker)
  /\ wrapped' = wrapped \cup {a \in Actions : inWorker /\ (a = "captured" => env)}

(* The process is found to be a worker after all. *)
BecomeWorker ==
  /\ ~inWorker /\ ~started /\ inWorker' = TRUE
  /\ UNCHANGED <<installed, wrapped, started, holder, pc, pipe, got>>

(* A pool is created, which has no experiment to give. *)
CreatePool ==
  /\ pc[Main] = "idle" /\ Wrap(FALSE)
  /\ UNCHANGED <<inWorker, started, holder, pc, pipe, got>>

(* The build of a calibrated experiment or of a monitor controller.        *)
Build ==
  /\ pc[Main] = "idle" /\ ~started /\ Wrap(TRUE)
  /\ started' = TRUE
  /\ UNCHANGED <<inWorker, holder, pc, pipe, got>>

(* A thread calls a parent action; a wrapped one wants the lock.           *)
Call(t, a) ==
  /\ inWorker /\ pc[t] = "idle" /\ (t # Main => started)
  /\ Go(t, IF a \in wrapped THEN "waiting" ELSE "sending")
  /\ UNCHANGED <<setting, holder, pipe, got>>

Acquire(t) ==
  /\ pc[t] = "waiting" /\ holder = None
  /\ holder' = t /\ Go(t, "sending")
  /\ UNCHANGED <<setting, pipe, got>>

PutObject(t) ==
  /\ pc[t] = "sending"
  /\ requests' = Append(requests, t) /\ Go(t, "reading")
  /\ UNCHANGED <<setting, holder, replies, got>>

(* The master answers requests in order. *)
Answer ==
  /\ requests # <<>>
  /\ replies' = Append(replies, Head(requests)) /\ requests' = Tail(requests)
  /\ UNCHANGED <<setting, holder, pc, got>>

(* A mutant: an action that fails keeps the lock.                          *)
GetObjectFailing(t) ==
  /\ pc[t] = "reading" /\ replies # <<>>
  /\ got' = [got EXCEPT ![t] = Head(replies)] /\ replies' = Tail(replies)
  /\ holder' \in {None, holder} /\ Go(t, "idle")
  /\ UNCHANGED <<setting, requests>>

(* The reply is read, whether it is a value or an error, and the lock, if  *)
(* this thread has it, is released.                                        *)
GetObject(t) ==
  /\ pc[t] = "reading" /\ replies # <<>>
  /\ got' = [got EXCEPT ![t] = Head(replies)] /\ replies' = Tail(replies)
  /\ holder' = (IF holder = t THEN None ELSE holder) /\ Go(t, "idle")
  /\ UNCHANGED <<setting, requests>>

Next ==
  \/ BecomeWorker \/ CreatePool \/ Build \/ Answer
  \/ \E t \in Threads :
       \/ \E a \in Actions : Call(t, a)
       \/ Acquire(t) \/ PutObject(t) \/ GetObject(t)

Spec == Init /\ [][Next]_vars

(* The master answers, threads run, and a thread that waits for a lock     *)
(* which becomes free over and over gets it at last.                       *)
FairSpec ==
  /\ Spec /\ WF_vars(Answer)
  /\ \A t \in Threads : SF_vars(Acquire(t)) /\ WF_vars(PutObject(t)) /\ WF_vars(GetObject(t))

-------------------------------------------------------------------------------

(* No thread ever reads another's reply (worker_ipc_lock.py 1-12).         *)
OwnReply == \A t \in Threads : got[t] = t

(* "Nothing can deadlock waiting for a reply that never comes" (19-22), or *)
(* for a lock that is never released.                                      *)
TransactionsEnd == \A t \in Threads : pc[t] # "idle" ~> pc[t] = "idle"
=============================================================================
