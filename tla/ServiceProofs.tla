----------------------------- MODULE ServiceProofs -----------------------------
(***************************************************************************)
(* The services that threads share: the pipe to the master, the background *)
(* compiler and the monitor controller.                                    *)
(***************************************************************************)
EXTENDS WorkerIpc, PoolState, MonitorState, SequenceTheorems, FiniteSetTheorems, TLAPS

Pool  == INSTANCE PrecompilePool
Fleet == INSTANCE Monitors

-------------------------------------------------------------------------------
(* The pipe: whatever threads share it, and however late the process turns *)
(* out to be a worker, each reads the replies to its own requests.         *)

Talking(t) == pc[t] \in {"sending", "reading"}

(* The part of TypeOK that the argument needs. *)
Shape ==
  /\ started \in BOOLEAN /\ inWorker \in BOOLEAN
  /\ pc \in [Threads -> {"idle", "waiting", "sending", "reading"}]
  /\ got \in [Threads -> Threads]

(* Once the threads run every action is wrapped, unless there is no worker *)
(* to talk for; until then the main thread is the only one that talks, and *)
(* from then on only the holder of the lock does.                          *)
AllWrapped == started /\ inWorker => Actions \subseteq wrapped
OnlyMain == ~started => \A t \in Others : pc[t] = "idle"
OnlyHolder == started => \A t \in Threads : Talking(t) => holder = t

(* One line is in the pipe for each thread that waits for its reply, and   *)
(* it is that thread's.                                                    *)
OwnLine ==
  \A t \in Threads : pc[t] = "reading" =>
    \/ requests = <<t>> /\ replies = <<>>
    \/ requests = <<>> /\ replies = <<t>>
EmptyPipe ==
  (\A t \in Threads : pc[t] # "reading") => requests = <<>> /\ replies = <<>>

IInv ==
  Shape /\ AllWrapped /\ OnlyMain /\ OnlyHolder /\ OwnLine /\ EmptyPipe /\ OwnReply

(* Two threads never talk at once. *)
LEMMA OneTalks ==
  ASSUME IInv, NEW t \in Threads, NEW u \in Threads, Talking(t), Talking(u)
  PROVE  t = u
<1>1. CASE started
  BY <1>1 DEF IInv, OnlyHolder
<1>2. CASE ~started
  BY <1>2 DEF IInv, OnlyMain, Talking, Threads
<1> QED BY <1>1, <1>2 DEF IInv, Shape

LEMMA GoProperties ==
  ASSUME Shape, NEW t \in Threads, NEW w, Go(t, w)
  PROVE  pc'[t] = w /\ \A u \in Threads \ {t} : pc'[u] = pc[u]
BY DEF Shape, Go

LEMMA IInvInit == Init => IInv
BY DEF Init, IInv, Shape, AllWrapped, OnlyMain, OnlyHolder, Talking, OwnLine, EmptyPipe,
       OwnReply, Threads

LEMMA SettingStep ==
  ASSUME IInv, BecomeWorker \/ CreatePool \/ Build
  PROVE  IInv'
<1>1. UNCHANGED <<holder, pc, requests, replies, got>>
  BY DEF BecomeWorker, CreatePool, Build, pipe
<1>2. Shape' /\ OwnLine' /\ EmptyPipe' /\ OwnReply'
  BY <1>1 DEF IInv, Shape, OwnLine, EmptyPipe, OwnReply, BecomeWorker, CreatePool, Build
<1>3. AllWrapped'
  BY DEF BecomeWorker, CreatePool, Build, Wrap, Actions, IInv, AllWrapped
<1>4. OnlyMain'
  BY <1>1 DEF BecomeWorker, CreatePool, Build, IInv, OnlyMain
<1>5. OnlyHolder'
  BY <1>1 DEF BecomeWorker, CreatePool, Build, IInv, OnlyHolder, OnlyMain, Talking, Threads,
              Shape
<1> QED BY <1>2, <1>3, <1>4, <1>5 DEF IInv

LEMMA AnswerStep == ASSUME IInv, Answer PROVE IInv'
<1>1. UNCHANGED <<inWorker, installed, wrapped, started, holder, pc, got>>
  BY DEF Answer, setting
<1>2. PICK t \in Threads : pc[t] = "reading"
  BY DEF Answer, IInv, EmptyPipe
<1>3. requests = <<t>> /\ replies = <<>>
  BY <1>2 DEF Answer, IInv, OwnLine
<1>4. requests' = <<>> /\ replies' = <<t>>
  BY <1>3 DEF Answer
<1>5. \A u \in Threads : pc[u] = "reading" => u = t
  BY <1>2, OneTalks DEF Talking
<1>6. OwnLine' /\ EmptyPipe'
  BY <1>1, <1>2, <1>4, <1>5 DEF OwnLine, EmptyPipe
<1> QED BY <1>1, <1>6 DEF IInv, Shape, AllWrapped, OnlyMain, OnlyHolder, Talking, OwnReply

LEMMA CallStep ==
  ASSUME IInv, NEW t \in Threads, NEW a \in Actions, Call(t, a)
  PROVE  IInv'
<1>1. UNCHANGED <<inWorker, installed, wrapped, started, holder, requests, replies, got>>
      /\ pc[t] = "idle" /\ inWorker /\ (t # Main => started)
  BY DEF Call, setting, pipe
<1>2. /\ pc'[t] = IF a \in wrapped THEN "waiting" ELSE "sending"
      /\ \A u \in Threads \ {t} : pc'[u] = pc[u]
  BY GoProperties DEF Call, IInv
<1>3. Shape'
  BY <1>1 DEF Call, Go, IInv, Shape
<1>4. OnlyMain'
  BY <1>1, <1>2, IpcAssumption DEF IInv, OnlyMain, Threads
<1>5. OnlyHolder'
  BY <1>1, <1>2 DEF IInv, OnlyHolder, AllWrapped, Talking
<1>6. OwnLine' /\ EmptyPipe'
  BY <1>1, <1>2 DEF IInv, OwnLine, EmptyPipe
<1> QED BY <1>1, <1>3, <1>4, <1>5, <1>6 DEF IInv, AllWrapped, OwnReply

LEMMA TransactionStep ==
  ASSUME IInv, NEW t \in Threads, Acquire(t) \/ PutObject(t) \/ GetObject(t)
  PROVE  IInv'
<1>0. UNCHANGED <<inWorker, installed, wrapped, started>> /\ pc[t] # "idle"
  BY DEF Acquire, PutObject, GetObject, setting
<1>1. PICK w \in {"sending", "reading", "idle"} : Go(t, w)
  BY DEF Acquire, PutObject, GetObject
<1>2. pc'[t] = w /\ \A u \in Threads \ {t} : pc'[u] = pc[u]
  BY <1>1, GoProperties DEF IInv
<1>3. AllWrapped' /\ OnlyMain'
  BY <1>0, <1>2, IpcAssumption DEF IInv, AllWrapped, OnlyMain, Threads
<1>4. ASSUME Talking(t), NEW u \in Threads \ {t} PROVE ~Talking(u)
  BY <1>4, OneTalks
<1>5. CASE Acquire(t)
  <2>1. holder = None /\ holder' = t /\ pc[t] = "waiting" /\ pc'[t] = "sending"
        /\ UNCHANGED <<requests, replies, got>>
    BY <1>5, <1>1, <1>2 DEF Acquire, pipe, Go, IInv, Shape
  <2>2. Shape'
    BY <1>0, <1>1, <2>1 DEF Go, IInv, Shape
  <2>3. OnlyHolder'
    BY <1>0, <1>2, <2>1, IpcAssumption DEF IInv, OnlyHolder, Talking, Threads
  <2>4. OwnLine' /\ EmptyPipe'
    BY <1>2, <2>1 DEF IInv, OwnLine, EmptyPipe
  <2> QED BY <1>3, <2>1, <2>2, <2>3, <2>4 DEF IInv, OwnReply
<1>6. CASE PutObject(t)
  <2>1. pc[t] = "sending" /\ pc'[t] = "reading" /\ requests' = Append(requests, t)
        /\ UNCHANGED <<holder, replies, got>>
    BY <1>6, <1>1, <1>2 DEF PutObject, Go, IInv, Shape
  <2>2. \A u \in Threads : pc[u] # "reading"
    BY <1>4, <2>1 DEF Talking
  <2>3. requests' = <<t>> /\ replies' = <<>>
    <3>1. requests = <<>> /\ replies = <<>>
      BY <2>2 DEF IInv, EmptyPipe
    <3>2. Append(<<>>, t) = <<t>>
      OBVIOUS
    <3> QED BY <2>1, <3>1, <3>2
  <2>4. OwnLine' /\ EmptyPipe'
    BY <1>2, <2>1, <2>2, <2>3 DEF OwnLine, EmptyPipe
  <2>5. Shape'
    BY <1>0, <1>1, <2>1 DEF Go, IInv, Shape
  <2>6. OnlyHolder'
    BY <1>0, <1>2, <2>1 DEF IInv, OnlyHolder, Talking
  <2> QED BY <1>3, <2>1, <2>4, <2>5, <2>6 DEF IInv, OwnReply
<1>7. CASE GetObject(t)
  <2>1. pc[t] = "reading" /\ pc'[t] = "idle" /\ replies # <<>> /\ replies' = Tail(replies)
        /\ got' = [got EXCEPT ![t] = Head(replies)] /\ UNCHANGED requests
    BY <1>7, <1>1, <1>2 DEF GetObject, Go, IInv, Shape
  <2>2. requests = <<>> /\ replies = <<t>>
    BY <2>1 DEF IInv, OwnLine
  <2>3. Head(replies) = t /\ replies' = <<>> /\ requests' = <<>>
    BY <2>1, <2>2
  <2>4. \A u \in Threads : ~Talking(u)'
    BY <1>2, <1>4, <2>1 DEF Talking
  <2>5. OwnLine' /\ EmptyPipe' /\ OnlyHolder'
    BY <2>3, <2>4 DEF OwnLine, EmptyPipe, OnlyHolder, Talking
  <2>6. Shape' /\ OwnReply'
    BY <1>0, <1>1, <2>1, <2>3 DEF Go, IInv, Shape, OwnReply
  <2> QED BY <1>3, <2>5, <2>6 DEF IInv
<1> QED BY <1>5, <1>6, <1>7

LEMMA IInvStep == IInv /\ [Next]_vars => IInv'
<1> SUFFICES ASSUME IInv, [Next]_vars PROVE IInv'
  OBVIOUS
<1>1. CASE UNCHANGED vars
  BY <1>1 DEF vars, IInv, Shape, AllWrapped, OnlyMain, OnlyHolder, Talking, OwnLine,
              EmptyPipe, OwnReply
<1>2. CASE Next
  BY <1>2, SettingStep, AnswerStep, CallStep, TransactionStep DEF Next
<1> QED BY <1>1, <1>2

(* However many threads talk to the master, and whenever the lock was      *)
(* first asked for, a thread's reply is the answer to its own request      *)
(* (worker_ipc_lock.py 1-12): every build wraps what its threads will use  *)
(* before they run.                                                        *)
THEOREM OwnReplyHolds == Spec => []OwnReply
<1>1. IInv => OwnReply
  BY DEF IInv
<1> QED BY <1>1, IInvInit, IInvStep, PTL DEF Spec

-------------------------------------------------------------------------------
(* The pool: what is finished, what is being compiled and what is queued   *)
(* are the seeds, in their order.                                          *)

PoolShape ==
  /\ specs \in Seq(Keys) /\ queue \in Seq(Keys) /\ job \in Seq(Keys)
  /\ \A i, j \in 1..Len(specs) : specs[i] = specs[j] => i = j
  /\ IF worker = "compiling" THEN Len(job) = 1 ELSE job = <<>>

(* n seeds are finished, those of p come next. *)
Lined(s, n, p) ==
  /\ n \in Nat /\ n + Len(p) = Len(s)
  /\ \A i \in 1..Len(p) : p[i] = s[n + i]

Finished(n) ==
  /\ results \cup errors = {specs[i] : i \in 1..n}
  /\ IsFiniteSet(results \cup errors) /\ Cardinality(results \cup errors) = n

PoolInv == PoolShape /\ \E n \in Nat : Finished(n) /\ Lined(specs, n, job \o queue)

LEMMA PoolInit == Pool!Init => PoolInv
<1> SUFFICES ASSUME Pool!Init PROVE PoolInv
  OBVIOUS
<1>1. /\ specs = <<>> /\ queue = <<>> /\ job = <<>> /\ worker = "none"
      /\ results \cup errors = {}
  BY DEF Pool!Init
<1>2. PoolShape
  BY <1>1 DEF PoolShape
<1>3. Finished(0)
  BY <1>1, FS_EmptySet DEF Finished
<1>4. Lined(specs, 0, job \o queue)
  BY <1>1 DEF Lined
<1> QED BY <1>2, <1>3, <1>4 DEF PoolInv

LEMMA PoolSeed ==
  ASSUME PoolInv, NEW t \in Callers, NEW k \in Keys, Pool!Seed(t, k)
  PROVE  PoolInv'
<1>1. /\ specs' = Append(specs, k) /\ queue' = Append(queue, k)
      /\ UNCHANGED <<results, errors, job>>
      /\ worker' = IF worker = "none" THEN "loop" ELSE worker
      /\ \A i \in 1..Len(specs) : specs[i] # k
  BY DEF Pool!Seed, Pool!Range
<1>2. specs \in Seq(Keys) /\ queue \in Seq(Keys) /\ job \in Seq(Keys)
  BY DEF PoolInv, PoolShape
<1>3. PICK n \in Nat : Finished(n) /\ Lined(specs, n, job \o queue)
  BY DEF PoolInv
<1>4. /\ specs' \in Seq(Keys) /\ Len(specs') = Len(specs) + 1 /\ Len(specs) \in Nat
      /\ specs'[Len(specs) + 1] = k /\ \A i \in 1..Len(specs) : specs'[i] = specs[i]
  BY <1>1, <1>2
<1>5. PoolShape'
  <2>1. \A i, j \in 1..Len(specs') : specs'[i] = specs'[j] => i = j
    <3>1. \A i \in 1..Len(specs') : i \in 1..Len(specs) \/ i = Len(specs) + 1
      BY <1>4
    <3> QED BY <1>1, <1>4, <3>1 DEF PoolInv, PoolShape
  <2> QED BY <1>1, <1>2, <1>4, <2>1 DEF PoolInv, PoolShape
<1>6. Finished(n)'
  <2>1. n <= Len(specs)
    BY <1>2, <1>3 DEF Lined
  <2>2. \A i \in 1..n : specs'[i] = specs[i]
    BY <1>4, <2>1
  <2> QED BY <1>1, <1>3, <2>2 DEF Finished
<1>7. Lined(specs, n, job \o queue)'
  <2> DEFINE p == job \o queue
  <2>1. /\ (job \o queue)' = Append(p, k) /\ p \in Seq(Keys) /\ Len(p) \in Nat
        /\ Len(Append(p, k)) = Len(p) + 1 /\ Append(p, k)[Len(p) + 1] = k
        /\ \A i \in 1..Len(p) : Append(p, k)[i] = p[i]
    BY <1>1, <1>2
  <2> HIDE DEF p
  <2>2. n + Len(p) = Len(specs) /\ \A i \in 1..Len(p) : p[i] = specs[n + i] /\ n + i \in 1..Len(specs)
    <3>1. n + Len(p) = Len(specs) /\ \A i \in 1..Len(p) : p[i] = specs[n + i]
      BY <1>3 DEF Lined, p
    <3>2. \A i \in 1..Len(p) : n + i \in 1..Len(specs)
      BY <1>4, <2>1, <3>1
    <3> QED BY <3>1, <3>2
  <2>3. \A i \in 1..(Len(p) + 1) : i \in 1..Len(p) \/ i = Len(p) + 1
    BY <2>1
  <2>4. ASSUME NEW i \in 1..(Len(p) + 1) PROVE Append(p, k)[i] = specs'[n + i]
    <3>1. CASE i \in 1..Len(p)
      BY <1>4, <2>1, <2>2, <3>1
    <3>2. CASE i = Len(p) + 1
      <4>1. n + i = Len(specs) + 1
        BY <2>1, <2>2, <3>2
      <4> QED BY <1>4, <2>1, <3>2, <4>1
    <3> QED BY <2>3, <3>1, <3>2
  <2>5. n + (Len(p) + 1) = Len(specs')
    BY <1>4, <2>1, <2>2
  <2> QED BY <2>1, <2>4, <2>5 DEF Lined
<1> QED BY <1>5, <1>6, <1>7 DEF PoolInv

LEMMA PoolTake ==
  ASSUME PoolInv, Pool!TakeJob
  PROVE  PoolInv'
<1>1. UNCHANGED <<specs, results, errors>> /\ worker = "loop"
  BY DEF Pool!TakeJob
<1>2. specs \in Seq(Keys) /\ queue \in Seq(Keys) /\ job = <<>>
  BY <1>1 DEF PoolInv, PoolShape
<1>3. CASE queue # <<>> /\ worker' = "compiling" /\ job' = <<Head(queue)>> /\ queue' = Tail(queue)
  <2>1. /\ job' \in Seq(Keys) /\ queue' \in Seq(Keys) /\ Len(job') = 1
        /\ job' \o queue' = job \o queue
    BY <1>2, <1>3
  <2>2. PoolShape'
    BY <1>1, <1>3, <2>1 DEF PoolInv, PoolShape
  <2> QED BY <1>1, <2>1, <2>2 DEF PoolInv, Finished
<1>4. CASE UNCHANGED <<queue, job>> /\ worker' # "compiling"
  BY <1>1, <1>2, <1>4 DEF PoolInv, PoolShape, Finished
<1> QED BY <1>1, <1>3, <1>4 DEF Pool!TakeJob

LEMMA PoolCompiled ==
  ASSUME PoolInv, Pool!Compiled
  PROVE  PoolInv'
<1>1. /\ UNCHANGED <<specs, queue>> /\ worker = "compiling" /\ worker' = "loop" /\ job' = <<>>
      /\ results' \cup errors' = (results \cup errors) \cup {job[i] : i \in 1..Len(job)}
  BY DEF Pool!Compiled, Pool!Range
<1>2. specs \in Seq(Keys) /\ queue \in Seq(Keys) /\ job \in Seq(Keys) /\ Len(job) = 1
  BY <1>1 DEF PoolInv, PoolShape
<1>3. PICK n \in Nat : Finished(n) /\ Lined(specs, n, job \o queue)
  BY DEF PoolInv
<1>4. /\ Len(job \o queue) = 1 + Len(queue) /\ Len(queue) \in Nat /\ Len(specs) \in Nat
      /\ (job \o queue)[1] = job[1]
      /\ \A i \in 1..Len(queue) : (job \o queue)[1 + i] = queue[i]
  <2>1. Len(queue) \in Nat /\ Len(specs) \in Nat
    BY <1>2
  <2>2. /\ Len(job \o queue) = Len(job) + Len(queue)
        /\ \A i \in 1..(Len(job) + Len(queue)) :
             (job \o queue)[i] = IF i <= Len(job) THEN job[i] ELSE queue[i - Len(job)]
    BY <1>2, ConcatProperties
  <2>3. 1 \in 1..(1 + Len(queue)) /\ \A i \in 1..Len(queue) :
          1 + i \in 1..(1 + Len(queue)) /\ ~(1 + i <= 1) /\ (1 + i) - 1 = i
    BY <2>1
  <2> QED BY <1>2, <2>1, <2>2, <2>3
<1>5. n + (1 + Len(queue)) = Len(specs) /\ job[1] = specs[n + 1]
  BY <1>2, <1>3, <1>4 DEF Lined
<1>6. results' \cup errors' = (results \cup errors) \cup {specs[n + 1]}
  <2>1. {job[i] : i \in 1..Len(job)} = {job[1]}
    BY <1>2
  <2> QED BY <1>1, <1>5, <2>1
<1>7. specs[n + 1] \notin results \cup errors
  <2> SUFFICES ASSUME NEW i \in 1..n, specs[i] = specs[n + 1] PROVE FALSE
    BY <1>3 DEF Finished
  <2>1. i \in 1..Len(specs) /\ n + 1 \in 1..Len(specs) /\ i # n + 1
    BY <1>4, <1>5
  <2> QED BY <2>1 DEF PoolInv, PoolShape
<1>8. Finished(n + 1)'
  <2>1. IsFiniteSet(results' \cup errors') /\ Cardinality(results' \cup errors') = n + 1
    <3>1. IsFiniteSet(results \cup errors) /\ Cardinality(results \cup errors) = n
      BY <1>3 DEF Finished
    <3> QED BY <1>6, <1>7, <3>1, FS_AddElement
  <2>2. {specs[i] : i \in 1..n} \cup {specs[n + 1]} = {specs[i] : i \in 1..(n + 1)}
    <3>1. \A i \in 1..(n + 1) : i \in 1..n \/ i = n + 1
      OBVIOUS
    <3> QED BY <3>1
  <2> QED BY <1>1, <1>3, <1>6, <2>1, <2>2 DEF Finished
<1>9. Lined(specs, n + 1, job \o queue)'
  <2>1. job' \o queue' = queue
    BY <1>1, <1>2
  <2>2. (n + 1) + Len(queue) = Len(specs)
    BY <1>4, <1>5
  <2>3. ASSUME NEW i \in 1..Len(queue) PROVE queue[i] = specs[(n + 1) + i]
    <3>1. 1 + i \in 1..Len(job \o queue) /\ n + (1 + i) = (n + 1) + i
      BY <1>4
    <3>2. (job \o queue)[1 + i] = specs[n + (1 + i)]
      BY <1>3, <3>1 DEF Lined
    <3> QED BY <1>4, <3>1, <3>2
  <2> QED BY <1>1, <2>1, <2>2, <2>3 DEF Lined
<1>10. PoolShape'
  BY <1>1, <1>2 DEF PoolInv, PoolShape
<1> QED BY <1>8, <1>9, <1>10 DEF PoolInv

LEMMA PoolStep == PoolInv /\ [Pool!Next]_(Pool!vars) => PoolInv'
<1> SUFFICES ASSUME PoolInv, [Pool!Next]_(Pool!vars) PROVE PoolInv'
  OBVIOUS
<1>1. CASE UNCHANGED <<specs, queue, results, errors, worker, job>>
  BY <1>1 DEF PoolInv, PoolShape, Finished
<1>2. CASE UNCHANGED Pool!vars
  BY <1>1, <1>2 DEF Pool!vars
<1>3. CASE \E t \in Callers : \E k \in Keys : Pool!Seed(t, k)
  BY <1>3, PoolSeed
<1>4. CASE Pool!TakeJob \/ Pool!Compiled
  BY <1>4, PoolTake, PoolCompiled
<1>5. CASE \E t \in Callers :
             \/ \E k \in Keys : Pool!Get(t, k)
             \/ \E wait \in BOOLEAN : Pool!Shutdown(t, wait)
             \/ Pool!Drain(t) \/ Pool!Look(t) \/ Pool!Joined(t)
  BY <1>1, <1>5 DEF Pool!Get, Pool!Shutdown, Pool!Drain, Pool!Look, Pool!Joined
<1> QED BY <1>2, <1>3, <1>4, <1>5 DEF Pool!Next

(* Whoever seeds, waits and shuts down, however compiles end: what is      *)
(* finished, what is being compiled and what is queued are the seeds in    *)
(* the order in which they were seeded, none lost and none twice           *)
(* (precompile.py 128-147, 225-247; client.py 530-537).                    *)
THEOREM SeedOrderHolds == Pool!Spec => []SeedOrder
<1>1. PoolInv => SeedOrder
  <2> SUFFICES ASSUME PoolInv PROVE SeedOrder
    OBVIOUS
  <2>1. PICK n \in Nat : Finished(n) /\ Lined(specs, n, job \o queue)
    BY DEF PoolInv
  <2> DEFINE p == job \o queue
             r == SubSeq(specs, n + 1, Len(specs))
  <2>2. specs \in Seq(Keys) /\ p \in Seq(Keys) /\ n + Len(p) = Len(specs)
        /\ Len(p) \in Nat /\ Len(specs) \in Nat
    <3>1. specs \in Seq(Keys) /\ queue \in Seq(Keys) /\ job \in Seq(Keys)
      BY DEF PoolInv, PoolShape
    <3>2. p \in Seq(Keys)
      BY <3>1
    <3> HIDE DEF p
    <3>3. Len(p) \in Nat /\ Len(specs) \in Nat
      BY <3>1, <3>2
    <3> QED BY <2>1, <3>1, <3>2, <3>3 DEF Lined, p
  <2>3. \A i \in 1..Len(p) : p[i] = specs[n + i]
    BY <2>1 DEF Lined
  <2> HIDE DEF p
  <2>4. r \in Seq(Keys) /\ Len(r) = Len(p) /\ \A i \in 1..Len(p) : r[i] = specs[n + i]
    <3>1. n + 1 \in 1..(Len(specs) + 1) /\ Len(specs) \in n..Len(specs)
      BY <2>2
    <3>2. \A i \in (n + 1)..Len(specs) : specs[i] \in Keys
      BY <2>2, ElementOfSeq
    <3>3. r \in Seq(Keys) /\ Len(r) = Len(specs) - n
          /\ \A i \in 1..(Len(specs) - n) : r[i] = specs[(n + 1) + i - 1]
      BY <2>2, <3>1, <3>2, SubSeqProperties
    <3>4. Len(specs) - n = Len(p) /\ \A i \in 1..Len(p) : (n + 1) + i - 1 = n + i
      BY <2>2
    <3> QED BY <3>3, <3>4
  <2> HIDE DEF r
  <2>5. p = r
    BY <2>2, <2>3, <2>4, SeqEqual
  <2>6. job \o queue = SubSeq(specs, n + 1, Len(specs))
    BY <2>5 DEF p, r
  <2>7. finished = {specs[i] : i \in 1..n} /\ Cardinality(finished) = n
    BY <2>1 DEF finished, Finished
  <2> HIDE DEF finished
  <2> QED BY <2>6, <2>7 DEF SeedOrder
<1> QED BY <1>1, PoolInit, PoolStep, PTL DEF Pool!Spec

-------------------------------------------------------------------------------
(* The monitors: no check of one waits, runs or is to be reported while    *)
(* another of it does.                                                     *)

FleetShape ==
  /\ task \in [Monitors -> Fleet!TaskStates]
  /\ checks \in Seq(Monitors)
  /\ busy \in [Executor -> Monitors \cup {NoMonitor}]
  /\ outcome \in [Monitors -> {"none", "state", "error"}]

InFlight(m) ==
  \/ \E i \in 1..Len(checks) : checks[i] = m
  \/ \E w \in Executor : busy[w] = m
  \/ outcome[m] # "none"

(* Until the controller stops, the task of a monitor in flight waits.      *)
Awaited == main = "waiting" => \A m \in Monitors : InFlight(m) => task[m] = "checking"

FleetInv == FleetShape /\ Awaited /\ OneCheckAtATime

LEMMA FleetInit == Fleet!Init => FleetInv
<1> SUFFICES ASSUME Fleet!Init PROVE FleetInv
  OBVIOUS
<1>1. /\ task = [m \in Monitors |-> "start"] /\ checks = <<>>
      /\ busy = [w \in Executor |-> NoMonitor] /\ outcome = [m \in Monitors |-> "none"]
  BY DEF Fleet!Init
<1>2. FleetShape
  BY <1>1 DEF FleetShape, Fleet!TaskStates
<1>3. OneCheckAtATime
  BY <1>1 DEF OneCheckAtATime
<1>4. Awaited
  BY <1>1, MonitorsAssumption DEF Awaited, InFlight
<1> QED BY <1>2, <1>3, <1>4 DEF FleetInv

LEMMA FleetSubmit ==
  ASSUME FleetInv, NEW m \in Monitors, Fleet!Submit(m)
  PROVE  FleetInv'
<1>1. /\ main = "waiting" /\ main' = main /\ task[m] \in {"start", "sleeping"}
      /\ task' = [task EXCEPT ![m] = "checking"] /\ checks' = Append(checks, m)
      /\ UNCHANGED <<busy, outcome>>
  BY DEF Fleet!Submit, Fleet!Moves
<1>2. ~InFlight(m)
  BY <1>1 DEF FleetInv, Awaited
<1>3. /\ Len(checks) \in Nat /\ Len(checks') = Len(checks) + 1 /\ checks' \in Seq(Monitors)
      /\ checks'[Len(checks) + 1] = m /\ \A i \in 1..Len(checks) : checks'[i] = checks[i]
  BY <1>1 DEF FleetInv, FleetShape
<1>4. \A i \in 1..Len(checks') : i \in 1..Len(checks) \/ i = Len(checks) + 1
  BY <1>3
<1>5. FleetShape'
  BY <1>1, <1>3 DEF FleetInv, FleetShape, Fleet!TaskStates
<1>6. Awaited'
  BY <1>1, <1>3, <1>4 DEF FleetInv, FleetShape, Awaited, InFlight
<1>7. OneCheckAtATime'
  BY <1>1, <1>2, <1>3, <1>4 DEF FleetInv, InFlight, OneCheckAtATime
<1> QED BY <1>5, <1>6, <1>7 DEF FleetInv

LEMMA FleetTake ==
  ASSUME FleetInv, NEW w \in Executor, Fleet!TakeCheck(w)
  PROVE  FleetInv'
<1>1. /\ checks # <<>> /\ busy[w] = NoMonitor /\ busy' = [busy EXCEPT ![w] = Head(checks)]
      /\ checks' = Tail(checks) /\ UNCHANGED <<task, outcome, main>>
  BY DEF Fleet!TakeCheck
<1>2. /\ Len(checks) \in Nat /\ Len(checks) # 0 /\ Len(checks') = Len(checks) - 1
      /\ checks' \in Seq(Monitors) /\ Head(checks) = checks[1] /\ checks[1] \in Monitors
      /\ \A i \in 1..Len(checks') : checks'[i] = checks[i + 1]
  BY <1>1 DEF FleetInv, FleetShape
<1>3. 1 \in 1..Len(checks) /\ \A i \in 1..Len(checks') : i + 1 \in 1..Len(checks) /\ i + 1 # 1
  BY <1>2
<1>4. \A v \in Executor : busy'[v] = IF v = w THEN checks[1] ELSE busy[v]
  BY <1>1, <1>2 DEF FleetInv, FleetShape
<1>5. FleetShape'
  BY <1>1, <1>2 DEF FleetInv, FleetShape
<1>6. Awaited'
  BY <1>1, <1>2, <1>3, <1>4 DEF FleetInv, Awaited, InFlight
<1>7. OneCheckAtATime'
  <2>1. \A u, v \in Executor : busy'[u] # NoMonitor /\ busy'[u] = busy'[v] => u = v
    BY <1>3, <1>4 DEF FleetInv, OneCheckAtATime
  <2>2. \A i, j \in 1..Len(checks') : checks'[i] = checks'[j] => i = j
    <3> SUFFICES ASSUME NEW i \in 1..Len(checks'), NEW j \in 1..Len(checks'),
                        checks[i + 1] = checks[j + 1]
                 PROVE  i = j
      BY <1>2
    <3>1. i + 1 = j + 1
      BY <1>3 DEF FleetInv, OneCheckAtATime
    <3> QED BY <1>2, <3>1
  <2>3. \A i \in 1..Len(checks') : outcome'[checks'[i]] = "none"
                                   /\ \A v \in Executor : busy'[v] # checks'[i]
    BY <1>1, <1>2, <1>3, <1>4 DEF FleetInv, OneCheckAtATime
  <2>4. \A v \in Executor : busy'[v] # NoMonitor => outcome'[busy'[v]] = "none"
    BY <1>1, <1>3, <1>4 DEF FleetInv, OneCheckAtATime
  <2> QED BY <2>1, <2>2, <2>3, <2>4 DEF OneCheckAtATime
<1> QED BY <1>5, <1>6, <1>7 DEF FleetInv

LEMMA FleetEnds ==
  ASSUME FleetInv, NEW w \in Executor, Fleet!CheckEnds(w)
  PROVE  FleetInv'
<1>1. /\ busy[w] # NoMonitor /\ busy' = [busy EXCEPT ![w] = NoMonitor]
      /\ UNCHANGED <<task, checks, main>>
      /\ \/ \E o \in {"state", "error"} : outcome' = [outcome EXCEPT ![busy[w]] = o]
         \/ UNCHANGED outcome
  BY DEF Fleet!CheckEnds
<1>2. busy[w] \in Monitors
  BY <1>1 DEF FleetInv, FleetShape
<1>3. \A v \in Executor : busy'[v] = IF v = w THEN NoMonitor ELSE busy[v]
  BY <1>1 DEF FleetInv, FleetShape
<1>4. \A m \in Monitors : m # busy[w] => outcome'[m] = outcome[m]
  BY <1>1, <1>2 DEF FleetInv, FleetShape
<1>5. FleetShape'
  BY <1>1, <1>2 DEF FleetInv, FleetShape
<1>6. Awaited'
  BY <1>1, <1>2, <1>3, <1>4, MonitorsAssumption DEF FleetInv, Awaited, InFlight
<1>7. \A i \in 1..Len(checks) : checks[i] \in Monitors /\ checks[i] # busy[w]
  BY ElementOfSeq DEF FleetInv, FleetShape, OneCheckAtATime
<1>8. \A v \in Executor : busy'[v] # NoMonitor => busy'[v] \in Monitors /\ busy'[v] # busy[w]
                                             /\ busy'[v] = busy[v] /\ v # w
  BY <1>1, <1>3 DEF FleetInv, FleetShape, OneCheckAtATime
<1>9. OneCheckAtATime'
  BY <1>1, <1>3, <1>4, <1>7, <1>8, MonitorsAssumption DEF FleetInv, OneCheckAtATime
<1> QED BY <1>5, <1>6, <1>9 DEF FleetInv

LEMMA FleetReport ==
  ASSUME FleetInv, NEW m \in Monitors, Fleet!Report(m)
  PROVE  FleetInv'
<1>1. /\ main = "waiting" /\ outcome[m] # "none" /\ UNCHANGED <<checks, busy, main>>
      /\ outcome' = [outcome EXCEPT ![m] = "none"]
      /\ \E to \in {"sleeping", "done"} : task' = [task EXCEPT ![m] = to]
  BY DEF Fleet!Report, Fleet!Moves
<1>2. \A n \in Monitors : outcome'[n] = IF n = m THEN "none" ELSE outcome[n]
  BY <1>1 DEF FleetInv, FleetShape
<1>3. \A n \in Monitors \ {m} : task'[n] = task[n]
  BY <1>1 DEF FleetInv, FleetShape
<1>4. \A i \in 1..Len(checks) : checks[i] \in Monitors
  BY ElementOfSeq DEF FleetInv, FleetShape
<1>5. ~InFlight(m)'
  <2>1. \A i \in 1..Len(checks) : checks[i] # m
    BY <1>1 DEF FleetInv, OneCheckAtATime
  <2>2. \A w \in Executor : busy[w] # m
    BY <1>1, MonitorsAssumption DEF FleetInv, OneCheckAtATime
  <2> QED BY <1>1, <1>2, <2>1, <2>2 DEF InFlight
<1>6. FleetShape'
  BY <1>1 DEF FleetInv, FleetShape, Fleet!TaskStates
<1>7. Awaited'
  BY <1>1, <1>2, <1>3, <1>5 DEF FleetInv, Awaited, InFlight
<1>8. OneCheckAtATime'
  BY <1>1, <1>2, <1>4 DEF FleetInv, FleetShape, OneCheckAtATime
<1> QED BY <1>6, <1>7, <1>8 DEF FleetInv

(* What is left when one of a sequence is taken out.                       *)
LEMMA RemoveAtFacts ==
  ASSUME NEW T, NEW s \in Seq(T), NEW i \in 1..Len(s), NEW r, r = Fleet!RemoveAt(s, i)
  PROVE  /\ r \in Seq(T) /\ Len(r) \in Nat
         /\ \A j \in 1..Len(r) : \E k \in 1..Len(s) :
              /\ k # i /\ r[j] = s[k]
              /\ k = IF j < i THEN j ELSE j + 1
<1> DEFINE p == SubSeq(s, 1, i - 1)
           q == SubSeq(s, i + 1, Len(s))
<1>1. Len(s) \in Nat /\ i \in Nat /\ 1 <= i /\ i <= Len(s)
  OBVIOUS
<1>2. /\ p \in Seq(T) /\ Len(p) = i - 1 /\ \A j \in 1..(i - 1) : p[j] = s[j]
  <2>1. \A j \in 1..(i - 1) : s[j] \in T
    BY <1>1
  <2>2. /\ p \in Seq(T) /\ Len(p) = IF 1 <= i - 1 THEN (i - 1) - 1 + 1 ELSE 0
        /\ \A j \in 1..((i - 1) - 1 + 1) : p[j] = s[1 + j - 1]
    BY <1>1, <2>1, SubSeqProperties
  <2> HIDE DEF p
  <2>3. (i - 1) - 1 + 1 = i - 1 /\ \A j \in 1..(i - 1) : 1 + j - 1 = j
    BY <1>1
  <2> QED BY <1>1, <2>2, <2>3
<1>3. /\ q \in Seq(T) /\ Len(q) = Len(s) - i /\ \A j \in 1..(Len(s) - i) : q[j] = s[i + j]
  <2>1. \A j \in (i + 1)..Len(s) : s[j] \in T
    BY <1>1
  <2>2. /\ q \in Seq(T) /\ Len(q) = IF i + 1 <= Len(s) THEN Len(s) - (i + 1) + 1 ELSE 0
        /\ \A j \in 1..(Len(s) - (i + 1) + 1) : q[j] = s[(i + 1) + j - 1]
    BY <1>1, <2>1, SubSeqProperties
  <2> HIDE DEF q
  <2>3. /\ Len(s) - (i + 1) + 1 = Len(s) - i
        /\ \A j \in 1..(Len(s) - i) : (i + 1) + j - 1 = i + j
        /\ ~(i + 1 <= Len(s)) => Len(s) - i = 0
    BY <1>1
  <2>4. Len(q) = Len(s) - i
    BY <2>2, <2>3
  <2>5. \A j \in 1..(Len(s) - i) : q[j] = s[i + j]
    BY <2>2, <2>3
  <2> QED BY <2>2, <2>4, <2>5
<1>4. r = p \o q
  BY DEF Fleet!RemoveAt
<1> HIDE DEF p, q
<1>5. /\ r \in Seq(T) /\ Len(r) = (i - 1) + (Len(s) - i)
      /\ \A j \in 1..Len(r) : r[j] = IF j <= i - 1 THEN p[j] ELSE q[j - (i - 1)]
  <2>1. p \in Seq(T) /\ q \in Seq(T)
    BY <1>2, <1>3
  <2>2. /\ p \o q \in Seq(T) /\ Len(p \o q) = Len(p) + Len(q)
        /\ \A j \in 1..(Len(p) + Len(q)) :
             (p \o q)[j] = IF j <= Len(p) THEN p[j] ELSE q[j - Len(p)]
    BY <2>1, ConcatProperties
  <2> QED BY <1>2, <1>3, <1>4, <2>2
<1>6. Len(r) = Len(s) - 1
  BY <1>1, <1>5
<1>7. ASSUME NEW j \in 1..Len(r)
      PROVE  LET k == IF j < i THEN j ELSE j + 1
             IN k \in 1..Len(s) /\ k # i /\ r[j] = s[k]
  <2>1. CASE j < i
    BY <1>1, <1>2, <1>5, <1>6, <2>1
  <2>2. CASE ~(j < i)
    <3>1. j - (i - 1) \in 1..(Len(s) - i) /\ i + (j - (i - 1)) = j + 1 /\ ~(j <= i - 1)
      BY <1>1, <1>6, <2>2
    <3>2. r[j] = s[j + 1]
      BY <1>3, <1>5, <3>1
    <3>3. j + 1 \in 1..Len(s) /\ j + 1 # i
      BY <1>1, <1>6, <2>2
    <3> QED BY <2>2, <3>2, <3>3
  <2> QED BY <2>1, <2>2
<1> QED BY <1>1, <1>5, <1>6, <1>7

LEMMA FleetCancelled ==
  ASSUME FleetInv, NEW m \in Monitors, Fleet!Cancelled(m)
  PROVE  FleetInv'
<1>1. /\ main = "closing" /\ UNCHANGED <<busy, main>>
      /\ task' = [task EXCEPT ![m] = "cancelled"]
      /\ outcome' = [outcome EXCEPT ![m] = "none"]
      /\ \/ \E i \in 1..Len(checks) : checks' = Fleet!RemoveAt(checks, i)
         \/ UNCHANGED checks
  BY DEF Fleet!Cancelled
<1>2. Awaited'
  BY <1>1 DEF Awaited
<1>3. \A n \in Monitors : outcome'[n] = IF n = m THEN "none" ELSE outcome[n]
  BY <1>1 DEF FleetInv, FleetShape
<1>4. \A i \in 1..Len(checks) : checks[i] \in Monitors
  BY ElementOfSeq DEF FleetInv, FleetShape
<1>5. CASE UNCHANGED checks
  <2>1. FleetShape'
    BY <1>1, <1>5 DEF FleetInv, FleetShape, Fleet!TaskStates
  <2>2. OneCheckAtATime'
    BY <1>1, <1>3, <1>4, <1>5 DEF FleetInv, FleetShape, OneCheckAtATime
  <2> QED BY <1>2, <2>1, <2>2 DEF FleetInv
<1>6. CASE \E i \in 1..Len(checks) : checks' = Fleet!RemoveAt(checks, i)
  <2>1. PICK i \in 1..Len(checks) : checks' = Fleet!RemoveAt(checks, i)
    BY <1>6
  <2>2. checks \in Seq(Monitors)
    BY DEF FleetInv, FleetShape
  <2>3. /\ checks' \in Seq(Monitors) /\ Len(checks') \in Nat
        /\ \A j \in 1..Len(checks') : \E k \in 1..Len(checks) :
             k # i /\ checks'[j] = checks[k] /\ k = IF j < i THEN j ELSE j + 1
    BY <2>1, <2>2, RemoveAtFacts
  <2>4. FleetShape'
    BY <1>1, <2>3 DEF FleetInv, FleetShape, Fleet!TaskStates
  <2>5. \A j, k \in 1..Len(checks') : checks'[j] = checks'[k] => j = k
    <3> SUFFICES ASSUME NEW j \in 1..Len(checks'), NEW k \in 1..Len(checks'),
                        checks'[j] = checks'[k]
                 PROVE  j = k
      OBVIOUS
    <3>1. PICK a \in 1..Len(checks) : checks'[j] = checks[a] /\ a = IF j < i THEN j ELSE j + 1
      BY <2>3
    <3>2. PICK b \in 1..Len(checks) : checks'[k] = checks[b] /\ b = IF k < i THEN k ELSE k + 1
      BY <2>3
    <3>3. a = b
      <4>1. checks[a] = checks[b]
        BY <3>1, <3>2
      <4> QED BY <4>1, Zenon DEF FleetInv, OneCheckAtATime
    <3>4. j \in Nat /\ k \in Nat
      BY <2>3
    <3> QED BY <3>1, <3>2, <3>3, <3>4
  <2>6. \A j \in 1..Len(checks') : outcome'[checks'[j]] = "none"
                                   /\ \A w \in Executor : busy'[w] # checks'[j]
    <3> SUFFICES ASSUME NEW j \in 1..Len(checks')
                 PROVE  outcome'[checks'[j]] = "none" /\ \A w \in Executor : busy'[w] # checks'[j]
      OBVIOUS
    <3>1. PICK k \in 1..Len(checks) : checks'[j] = checks[k]
      BY <2>3
    <3> QED BY <1>1, <1>3, <1>4, <3>1 DEF FleetInv, OneCheckAtATime
  <2>7. \A w \in Executor : busy'[w] # NoMonitor => outcome'[busy'[w]] = "none"
    BY <1>1, <1>3 DEF FleetInv, FleetShape, OneCheckAtATime
  <2>8. OneCheckAtATime'
    BY <1>1, <2>5, <2>6, <2>7 DEF FleetInv, OneCheckAtATime
  <2> QED BY <1>2, <2>4, <2>8 DEF FleetInv
<1> QED BY <1>1, <1>5, <1>6

LEMMA FleetOther ==
  ASSUME FleetInv,
         (\E m \in Monitors : Fleet!RecoverAMonitor(m)) \/ Fleet!MonitorMonitors
           \/ Fleet!RequestStop \/ Fleet!Scheduler \/ Fleet!Stop \/ Fleet!Return
  PROVE  FleetInv'
<1>1. UNCHANGED <<checks, busy, outcome>>
  BY DEF Fleet!RecoverAMonitor, Fleet!MonitorMonitors, Fleet!RequestStop, Fleet!Scheduler,
         Fleet!Stop, Fleet!Return
<1>2. OneCheckAtATime'
  BY <1>1 DEF FleetInv, OneCheckAtATime
<1>3. CASE \E m \in Monitors : Fleet!RecoverAMonitor(m)
  <2>1. PICK m \in Monitors : Fleet!RecoverAMonitor(m)
    BY <1>3
  <2>2. /\ task[m] = "recovering" /\ task' = [task EXCEPT ![m] = "start"]
        /\ main = "waiting" /\ main' = main
    BY <2>1 DEF Fleet!RecoverAMonitor, Fleet!Moves
  <2>3. FleetShape' /\ Awaited'
    BY <1>1, <2>2 DEF FleetInv, FleetShape, Awaited, InFlight, Fleet!TaskStates
  <2> QED BY <1>2, <2>3 DEF FleetInv
<1>4. CASE Fleet!MonitorMonitors
  <2>1. /\ task' = [m \in Monitors |-> IF task[m] = "done" THEN "recovering" ELSE task[m]]
        /\ main = "waiting" /\ main' = main
    BY <1>4 DEF Fleet!MonitorMonitors
  <2>2. FleetShape' /\ Awaited'
    BY <1>1, <2>1 DEF FleetInv, FleetShape, Awaited, InFlight, Fleet!TaskStates
  <2> QED BY <1>2, <2>2 DEF FleetInv
<1>5. CASE Fleet!RequestStop \/ Fleet!Scheduler \/ Fleet!Stop \/ Fleet!Return
  <2>1. task' = task /\ (main' = "waiting" => main = "waiting")
    BY <1>5 DEF Fleet!RequestStop, Fleet!Scheduler, Fleet!Stop, Fleet!Return
  <2>2. FleetShape' /\ Awaited'
    BY <1>1, <2>1 DEF FleetInv, FleetShape, Awaited, InFlight
  <2> QED BY <1>2, <2>2 DEF FleetInv
<1> QED BY <1>3, <1>4, <1>5

LEMMA FleetStep == FleetInv /\ [Fleet!Next]_(Fleet!vars) => FleetInv'
<1> SUFFICES ASSUME FleetInv, [Fleet!Next]_(Fleet!vars) PROVE FleetInv'
  OBVIOUS
<1>1. CASE UNCHANGED Fleet!vars
  BY <1>1 DEF Fleet!vars, FleetInv, FleetShape, Awaited, InFlight, OneCheckAtATime
<1>2. CASE \E m \in Monitors : Fleet!Submit(m) \/ Fleet!Report(m) \/ Fleet!Cancelled(m)
  BY <1>2, FleetSubmit, FleetReport, FleetCancelled
<1>3. CASE \E w \in Executor : Fleet!TakeCheck(w) \/ Fleet!CheckEnds(w)
  BY <1>3, FleetTake, FleetEnds
<1>4. CASE (\E m \in Monitors : Fleet!RecoverAMonitor(m)) \/ Fleet!MonitorMonitors
             \/ Fleet!RequestStop \/ Fleet!Scheduler \/ Fleet!Stop \/ Fleet!Return
  BY <1>4, FleetOther
<1> QED BY <1>1, <1>2, <1>3, <1>4 DEF Fleet!Next

(* Whichever checks and reports raise, however often a monitor's task is   *)
(* replaced by one that recovers it, and whenever the controller stops: a  *)
(* monitor is never checked, queued or reported twice at once              *)
(* (monitoring.py 189-213, 228-234).                                       *)
THEOREM OneCheckAtATimeHolds == Fleet!Spec => []OneCheckAtATime
<1>1. FleetInv => OneCheckAtATime
  BY DEF FleetInv
<1> QED BY <1>1, FleetInit, FleetStep, PTL DEF Fleet!Spec
================================================================================
