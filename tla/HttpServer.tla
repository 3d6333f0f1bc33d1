----------------------------- MODULE HttpServer -----------------------------
(***************************************************************************)
(* hw2: the thread pool of httpserver.c and its work queue, wq.c.  The     *)
(* main thread accepts connections and pushes their descriptors, the pool  *)
(* pops and serves them.  wq->mut and wq->cond_pop are a pthread mutex and *)
(* condition variable: a waiter may wake without a signal.                 *)
(***************************************************************************)
EXTENDS Naturals, Sequences, FiniteSets

CONSTANTS
  Pool,       \* threads that a pool may have
  Sizes,      \* values of --num-threads
  Main,       \* the thread in serve_forever()
  Nobody,
  Conns,        \* descriptors accept() may return, reused once closed
  NoFd,
  MaxAccepts  \* bound on the connections accepted

ASSUME HttpAssumption ==
  /\ IsFiniteSet(Pool) /\ Main \notin Pool /\ Nobody \notin Pool \cup {Main} /\ NoFd \notin Conns /\ MaxAccepts \in Nat
  /\ Sizes \subseteq Nat

Workers == Pool \cup {Main}

VARIABLES
  pool,      \* the threads of the pool; none when num_threads is 0
  tpc,        \* tpc[t]
  fd,        \* fd[t], the descriptor t is handling, or NoFd
  open,      \* the descriptors that are open
  wq,        \* the list of the work queue, head first
  size,      \* its size
  mut,       \* the holder of its mutex
  waiting,   \* the threads in pthread_cond_wait()
  pushed,    \* history: the descriptor pushed last
  popped,    \* history: the descriptor popped last
  accepts    \* bound: connections accepted

httpVars == <<pool, tpc, fd, open, wq, size, mut, waiting, pushed, popped, accepts>>

HttpTypeOK ==
  /\ pool \subseteq Pool
  /\ tpc \in [Workers -> {"accept", "push", "push_locked", "pop", "pop_locked", "serve", "close",
                         "done"}]
  /\ fd \in [Workers -> Conns \cup {NoFd}]
  /\ open \subseteq Conns
  /\ wq \in Seq(Conns) /\ size = Len(wq)
  /\ mut \in Workers \cup {Nobody}
  /\ waiting \subseteq Pool
  /\ {pushed, popped} \subseteq Conns \cup {NoFd}
  /\ accepts \in 0 .. MaxAccepts

\* After init_thread_pool().
\* Without a pool the queue is never used.
wq_init == wq = <<>> /\ size = 0 /\ mut = Nobody /\ waiting = {}

HttpInit ==
  /\ pool \in {p \in SUBSET Pool : Cardinality(p) \in Sizes}
  /\ tpc = [t \in Workers |-> IF t = Main THEN "accept" ELSE IF t \in pool THEN "pop" ELSE "done"]
  /\ fd = [t \in Workers |-> NoFd]
  /\ open = {} /\ wq_init
  /\ pushed = NoFd /\ popped = NoFd /\ accepts = 0

Goto(t, label) == tpc' = [tpc EXCEPT ![t] = label]

pthread_mutex_lock(t) ==
  /\ t \notin waiting /\ mut = Nobody
  /\ mut' = t

\* Some waiter wakes, if there is one.
pthread_cond_signal ==
  IF waiting = {} THEN UNCHANGED waiting ELSE \E t \in waiting : waiting' = waiting \ {t}

\* accept() in serve_forever(), with and without a pool.
Accept(c) ==
  /\ tpc[Main] = "accept" /\ c \notin open /\ accepts < MaxAccepts
  /\ accepts' = accepts + 1
  /\ open' = open \cup {c}
  /\ fd' = [fd EXCEPT ![Main] = c]
  /\ Goto(Main, IF pool = {} THEN "serve" ELSE "push")
  /\ UNCHANGED <<pool, wq, size, mut, waiting, pushed, popped>>

PushLock ==
  /\ tpc[Main] = "push" /\ pthread_mutex_lock(Main)
  /\ Goto(Main, "push_locked")
  /\ UNCHANGED <<pool, fd, open, wq, size, waiting, pushed, popped, accepts>>

\* wq_push() without pthread_cond_signal().
wq_push_silent ==
  /\ tpc[Main] = "push_locked"
  /\ wq' = Append(wq, fd[Main]) /\ size' = size + 1
  /\ pushed' = fd[Main] /\ fd' = [fd EXCEPT ![Main] = NoFd]
  /\ mut' = Nobody
  /\ Goto(Main, "accept")
  /\ UNCHANGED <<pool, open, waiting, popped, accepts>>

\* wq_push() at the front of the list.
wq_push_front ==
  /\ tpc[Main] = "push_locked"
  /\ wq' = <<fd[Main]>> \o wq /\ size' = size + 1
  /\ pushed' = fd[Main] /\ fd' = [fd EXCEPT ![Main] = NoFd]
  /\ pthread_cond_signal
  /\ mut' = Nobody
  /\ Goto(Main, "accept")
  /\ UNCHANGED <<pool, open, popped, accepts>>

wq_push ==
  /\ tpc[Main] = "push_locked"
  /\ wq' = Append(wq, fd[Main]) /\ size' = size + 1
  /\ pushed' = fd[Main] /\ fd' = [fd EXCEPT ![Main] = NoFd]
  /\ pthread_cond_signal
  /\ mut' = Nobody
  /\ Goto(Main, "accept")
  /\ UNCHANGED <<pool, open, popped, accepts>>

\* Entering wq_pop(), or coming back from pthread_cond_wait().
PopLock(t) ==
  /\ tpc[t] = "pop" /\ pthread_mutex_lock(t)
  /\ Goto(t, "pop_locked")
  /\ UNCHANGED <<pool, fd, open, wq, size, waiting, pushed, popped, accepts>>

\* wq_pop() that leaves the item in the queue.
wq_pop_keep(t) ==
  /\ tpc[t] = "pop_locked"
  /\ mut' = Nobody
  /\ IF size < 1
     THEN waiting' = waiting \cup {t} /\ Goto(t, "pop") /\ UNCHANGED <<fd, popped>>
     ELSE /\ fd' = [fd EXCEPT ![t] = Head(wq)] /\ popped' = Head(wq)
          /\ Goto(t, "serve")
          /\ UNCHANGED waiting
  /\ UNCHANGED <<pool, open, wq, size, pushed, accepts>>

wq_pop(t) ==
  /\ tpc[t] = "pop_locked"
  /\ mut' = Nobody
  /\ IF size < 1
     THEN waiting' = waiting \cup {t} /\ Goto(t, "pop") /\ UNCHANGED <<fd, wq, size, popped>>
     ELSE /\ fd' = [fd EXCEPT ![t] = Head(wq)] /\ popped' = Head(wq)
          /\ wq' = Tail(wq) /\ size' = size - 1
          /\ Goto(t, "serve")
          /\ UNCHANGED waiting
  /\ UNCHANGED <<pool, open, pushed, accepts>>

SpuriousWakeup(t) ==
  /\ t \in waiting /\ waiting' = waiting \ {t}
  /\ UNCHANGED <<pool, tpc, fd, open, wq, size, mut, pushed, popped, accepts>>

\* request_handler (fd): what it reads and writes is not modelled.
Handle(t) ==
  /\ tpc[t] = "serve"
  /\ Goto(t, "close")
  /\ UNCHANGED <<pool, fd, open, wq, size, mut, waiting, pushed, popped, accepts>>

\* close (fd); the main thread goes on, handle_thread() returns.
Close(t) ==
  /\ tpc[t] = "close"
  /\ open' = open \ {fd[t]}
  /\ fd' = [fd EXCEPT ![t] = NoFd]
  /\ Goto(t, IF t = Main THEN "accept" ELSE "done")
  /\ UNCHANGED <<pool, wq, size, mut, waiting, pushed, popped, accepts>>

Serve(t) == PopLock(t) \/ wq_pop(t) \/ Handle(t) \/ Close(t)

HttpNext ==
  \/ \E c \in Conns : Accept(c)
  \/ PushLock \/ wq_push \/ Handle(Main) \/ Close(Main)
  \/ \E t \in Pool : Serve(t) \/ SpuriousWakeup(t)

HttpSpec == HttpInit /\ [][HttpNext]_httpVars

\* Every thread runs, a free mutex is given to each thread that keeps asking
\* for it, and a client's request ends.  Nobody has to connect.
HttpFairness ==
  /\ SF_httpVars(PushLock) /\ WF_httpVars(wq_push \/ Handle(Main) \/ Close(Main))
  /\ \A t \in Pool : SF_httpVars(PopLock(t)) /\ WF_httpVars(wq_pop(t) \/ Handle(t) \/ Close(t))

HttpFairSpec == HttpSpec /\ HttpFairness
-----------------------------------------------------------------------------
\* Every variable has its type, and every open connection is in exactly one
\* place, the queue or one thread, and open there: no two threads serve it, and
\* nobody serves a closed one.
OneOwner ==
  /\ HttpTypeOK
  /\ \A i, j \in 1 .. Len(wq) : wq[i] = wq[j] => i = j
  /\ \A t, u \in Workers : fd[t] # NoFd /\ fd[t] = fd[u] => t = u
  /\ \A t \in Workers, i \in 1 .. Len(wq) : fd[t] # wq[i]
  /\ \A c \in Conns : c \in open <=>
       (\E i \in 1 .. Len(wq) : wq[i] = c) \/ (\E t \in Workers : fd[t] = c)

\* The threads that are in wq_pop() and awake.
Awake == {t \in Pool \ waiting : tpc[t] \in {"pop", "pop_locked"}}

\* No wakeup is lost: while a thread sleeps in wq_pop(), as many others are
\* awake there as there are connections in the queue.
NoLostSignal == waiting # {} => Len(wq) <= Cardinality(Awake)

Queue == INSTANCE Fifo WITH
  Bytes <- Conns \cup {NoFd}, Capacity <- Cardinality(Conns),
  queue <- wq, taken <- popped, given <- pushed

\* A thread is left for connection c: it has one, there is no pool, or as many
\* threads have not had a connection yet as will be taken up to c.
Idle == {t \in pool : tpc[t] \in {"pop", "pop_locked"}}
ThreadLeft(c) ==
  \/ pool = {} \/ \E t \in pool : fd[t] = c
  \/ \E i \in 1 .. Len(wq) : wq[i] = c /\ i <= Cardinality(Idle)
  \/ fd[Main] = c /\ Len(wq) < Cardinality(Idle)

\* The pool takes connections in the order they were accepted, and every
\* accepted connection that a thread is left for is served and closed: each
\* thread of the pool serves one, handle_thread() has no loop.
AllServedInOrder ==
  /\ Queue!Spec
  /\ \A c \in Conns : c \in open /\ ThreadLeft(c) ~> c \notin open
=============================================================================
