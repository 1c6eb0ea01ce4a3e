-------------------------- MODULE SessionLoopProofs --------------------------
(***************************************************************************)
(* Proofs about SessionLoop, for any number of events, executions,         *)
(* runners, requests and adapters.                                         *)
(***************************************************************************)
EXTENDS SessionLoop, WellFoundedInduction, SequenceTheorems, TLAPS

-----------------------------------------------------------------------------
(* The inductive invariant *)

Callers == RunCalls \cup Adapters

\* The queued job is the last one, and one job runs.
QueueInv ==
    /\ \A i \in DOMAIN loops : loops[i].status = "queued" => i = Len(loops)
    /\ \A i, k \in DOMAIN loops :
          loops[i].status = "running" /\ loops[k].status = "running" => i = k

\* Windows and marks lie in the log.
BoundInv ==
    \A i \in DOMAIN loops : loops[i].end <= Len(log) /\ loops[i].processed <= Len(log)

\* A result belongs to an execution that goes on or that has announced its
\* completion.
ExecInv ==
    /\ \A s \in DOMAIN log : log[s].kind = "tool.result" =>
          log[s].exec \in Execs /\ execs[log[s].exec] \in {"active", "completed"}
    /\ \A e \in Execs : execs[e] = "completed" => Announced(log, e)

\* A job fails only when its session is over.
FailureInv ==
    session = "open" => \A i \in DOMAIN loops : loops[i].status # "failed"

\* No mark is ahead of the windows.
Within(n) == n = 0 \/ \E k \in DOMAIN loops : n <= loops[k].end

CursorInv ==
    \A i \in DOMAIN loops :
        /\ Within(loops[i].processed)
        /\ loops[i].status = "completed" => loops[i].end <= loops[i].processed

\* A runner works on a job and a window of the log, and reports anything but success of an open
\* session only before it closes the session.
RunnerOK(r) ==
    /\ runner[r].pc # "idle" => runner[r].on \in DOMAIN loops
    /\ runner[r].end <= Len(log)
    /\ session = "open" =>
          /\ runner[r].pc = "settle" => runner[r].outcome \in {"ok", "error"}
          /\ runner[r].pc = "ack" => runner[r].outcome = "ok"

\* The cursor a caller read is not ahead of the windows or is before the end
\* of the window it asks for.
CallOK(c) ==
    /\ call[c].end <= Len(log) /\ call[c].cursor <= Len(log)
    /\ call[c].pc \in {"start", "finish"} => c \in Adapters /\ call[c].on \in DOMAIN loops
    /\ Within(call[c].cursor) \/ call[c].cursor < call[c].end

LoopInv ==
    /\ LoopTypeOK
    /\ QueueInv /\ BoundInv /\ ExecInv /\ FailureInv /\ CursorInv
    /\ \A r \in Runners : RunnerOK(r)
    /\ \A c \in Callers : CallOK(c)
    /\ HiddenResultStaysPending
-----------------------------------------------------------------------------
(* Greatest and least elements, marks *)

LEMMA MinOf ==
  ASSUME NEW S \in SUBSET Nat, S # {}
  PROVE  Min(S) \in S /\ \A x \in S : Min(S) <= x
  <1>1. PICK m \in S : \A y \in S : ~(<<y, m>> \in OpToRel(<, Nat))
    BY NatLessThanWellFounded, WFMin
  <1>2. \A y \in S : m <= y
    <2> SUFFICES ASSUME NEW y \in S, y < m PROVE FALSE
      OBVIOUS
    <2>1. <<y, m>> \in Nat \X Nat
      OBVIOUS
    <2>2. <<y, m>>[1] < <<y, m>>[2]
      OBVIOUS
    <2> QED
      BY <1>1, <2>1, <2>2 DEF OpToRel
  <1> QED
    BY <1>2 DEF Min

LEMMA MaxOf ==
  ASSUME NEW S \in SUBSET Nat, S # {}, NEW N \in Nat, \A x \in S : x <= N
  PROVE  Max(S) \in S /\ \A x \in S : x <= Max(S)
  <1> DEFINE T == {N - x : x \in S}
  <1>1. T \in SUBSET Nat /\ T # {}
    <2>1. \A x \in S : N - x \in Nat
      OBVIOUS
    <2> QED
      BY <2>1
  <1>2. PICK m \in T : \A y \in T : m <= y
    BY <1>1, MinOf
  <1>3. PICK x \in S : m = N - x
    BY <1>2
  <1>4. \A y \in S : y <= x
    <2> SUFFICES ASSUME NEW y \in S PROVE y <= x
      OBVIOUS
    <2>1. N - x <= N - y
      BY <1>2, <1>3
    <2> QED
      BY <2>1
  <1> QED
    BY <1>4 DEF Max

LEMMA MaxOfOne == \A n \in Nat : Max({n}) = n
  BY DEF Max

LEMMA MaxOfTwo ==
  ASSUME NEW m \in Int, NEW n \in Int
  PROVE  Max({m, n}) = IF m <= n THEN n ELSE m
  BY DEF Max

\* The mark is the greatest of the processed marks and of the ends of the jobs
\* that wait or run.
LEMMA MarkIn ==
  ASSUME NEW js \in Seq(LoopJob), NEW N \in Nat,
         \A i \in DOMAIN js : js[i].end <= N /\ js[i].processed <= N
  PROVE  LET mark == HighWatermark(js)
         IN /\ mark \in Nat /\ mark <= N
            /\ \A i \in DOMAIN js :
                  /\ js[i].processed <= mark
                  /\ js[i].status \in {"queued", "running"} => js[i].end <= mark
            /\ \/ mark = 0
               \/ \E i \in DOMAIN js :
                     \/ mark = js[i].processed
                     \/ js[i].status \in {"queued", "running"} /\ mark = js[i].end
  <1> DEFINE S == {0} \cup {js[i].processed : i \in DOMAIN js}
                      \cup {js[i].end : i \in {k \in DOMAIN js :
                                        js[k].status \in {"queued", "running"}}}
  <1>1. \A i \in DOMAIN js : js[i] \in LoopJob
    OBVIOUS
  <1>2. S \in SUBSET Nat /\ S # {} /\ \A x \in S : x <= N
    BY <1>1 DEF LoopJob
  <1>3. Max(S) \in S /\ \A x \in S : x <= Max(S)
    BY <1>2, MaxOf
  <1>4. HighWatermark(js) = Max(S)
    BY DEF HighWatermark
  <1> QED
    BY <1>2, <1>3, <1>4

LEMMA MarkOf ==
  ASSUME LoopTypeOK, BoundInv
  PROVE  LET mark == HighWatermark(loops)
         IN /\ mark \in Nat /\ mark <= Len(log)
            /\ \A i \in DOMAIN loops :
                  /\ loops[i].processed <= mark
                  /\ loops[i].status \in {"queued", "running"} => loops[i].end <= mark
            /\ \/ mark = 0
               \/ \E i \in DOMAIN loops :
                     \/ mark = loops[i].processed
                     \/ loops[i].status \in {"queued", "running"} /\ mark = loops[i].end
  BY MarkIn DEF LoopTypeOK, BoundInv
-----------------------------------------------------------------------------
(* What a step does to the jobs, the log and the executions *)

Names == {WorkerOf[r] : r \in Runners} \cup Adapters \cup {None}

StartedJob(i, w) == [loops[i] EXCEPT !.status = "running", !.worker = w,
                                     !.lease = "live", !.starts = @ + 1]
LeasedJob(i, l) == [loops[i] EXCEPT !.lease = l]
CompletedJob(i) == [loops[i] EXCEPT !.status = "completed", !.lease = "none",
                       !.processed = IF loops[i].end # 0 THEN loops[i].end ELSE @]
FailedJob(i) == [loops[i] EXCEPT !.status = "failed", !.lease = "none"]

\* A job that waits in the queue, new or merged into the one that waited.
Enqueues(job) ==
    /\ job.status = "queued" /\ job.end <= Len(log') /\ job.processed <= Len(log')
    /\ Within(job.processed) \/ job.processed < job.end
    /\ \/ QueuedJobs(loops) = {} /\ loops' = Append(loops, job)
       \/ /\ loops # <<>> /\ loops[Len(loops)].status = "queued"
          /\ loops[Len(loops)].end <= job.end
          /\ loops' = [loops EXCEPT ![Len(loops)] = job]

Starts(i, w) == CanStart(i, w) /\ loops' = [loops EXCEPT ![i] = StartedJob(i, w)]
Leases(i, l) == loops' = [loops EXCEPT ![i] = LeasedJob(i, l)]
Completes(i) ==
    loops[i].status = "running" /\ loops' = [loops EXCEPT ![i] = CompletedJob(i)]
Fails(i) ==
    /\ loops[i].status = "running" /\ session # "open"
    /\ loops' = [loops EXCEPT ![i] = FailedJob(i)]

JobsMove ==
    \/ loops' = loops
    \/ \E job \in LoopJob : Enqueues(job)
    \/ \E i \in DOMAIN loops :
          \/ \E w \in Names : Starts(i, w)
          \/ \E l \in {"none", "live", "expired"} : Leases(i, l)
          \/ Completes(i) \/ Fails(i)

LogMove == log' = log \/ \E event \in Event : log' = Append(log, event)

LEMMA Rewrite ==
  ASSUME LoopTypeOK, NEW i \in DOMAIN loops, NEW job \in LoopJob,
         loops' = [loops EXCEPT ![i] = job]
  PROVE  /\ loops' \in Seq(LoopJob) /\ Len(loops') = Len(loops)
         /\ DOMAIN loops' = DOMAIN loops
         /\ \A k \in DOMAIN loops : loops'[k] = IF k = i THEN job ELSE loops[k]
  BY ExceptSeq DEF LoopTypeOK

LEMMA AddJob ==
  ASSUME LoopTypeOK, NEW job \in LoopJob, loops' = Append(loops, job)
  PROVE  /\ loops' \in Seq(LoopJob) /\ Len(loops') = Len(loops) + 1
         /\ DOMAIN loops' = DOMAIN loops \cup {Len(loops) + 1}
         /\ \A k \in DOMAIN loops : loops'[k] = loops[k]
         /\ loops'[Len(loops) + 1] = job
  <1>1. /\ loops' \in Seq(LoopJob) /\ Len(loops') = Len(loops) + 1
        /\ \A k \in 1 .. Len(loops) : loops'[k] = loops[k]
        /\ loops'[Len(loops) + 1] = job
    BY AppendProperties DEF LoopTypeOK
  <1>2. DOMAIN loops = 1 .. Len(loops) /\ DOMAIN loops' = 1 .. Len(loops')
    BY <1>1 DEF LoopTypeOK
  <1> QED
    BY <1>1, <1>2

LEMMA LogGrows ==
  ASSUME LoopTypeOK, LogMove
  PROVE  /\ log' \in Seq(Event) /\ Len(log) <= Len(log')
         /\ DOMAIN log \subseteq DOMAIN log'
         /\ \A s \in DOMAIN log : log'[s] = log[s]
         /\ Len(log) \in Nat /\ DOMAIN log = 1 .. Len(log)
         /\ Len(log') \in Nat /\ DOMAIN log' = 1 .. Len(log')
  <1>1. CASE log' = log
    BY <1>1 DEF LoopTypeOK
  <1>2. CASE \E event \in Event : log' = Append(log, event)
    <2>1. /\ log' \in Seq(Event) /\ Len(log') = Len(log) + 1
          /\ \A s \in 1 .. Len(log) : log'[s] = log[s]
      BY <1>2, AppendProperties DEF LoopTypeOK
    <2>2. Len(log) \in Nat /\ DOMAIN log = 1 .. Len(log) /\ DOMAIN log' = 1 .. Len(log')
      BY <2>1 DEF LoopTypeOK
    <2> QED
      BY <2>1, <2>2
  <1> QED
    BY <1>1, <1>2 DEF LogMove

\* The fields of a job after each of its moves.
LEMMA StartedFields ==
  ASSUME LoopTypeOK, NEW i \in DOMAIN loops, NEW w \in Names, NEW job,
         job = StartedJob(i, w)
  PROVE  /\ job \in LoopJob /\ loops[i] \in LoopJob
         /\ job.status = "running" /\ job.worker = w
         /\ job.starts = loops[i].starts + 1
         /\ job.start = loops[i].start /\ job.end = loops[i].end
         /\ job.processed = loops[i].processed
  <1>1. loops[i] \in LoopJob
    BY DEF LoopTypeOK
  <1>2. PICK n \in Nat : n = loops[i].starts + 1
    BY <1>1 DEF LoopJob
  <1>3. job = [loops[i] EXCEPT !.status = "running", !.worker = w,
                               !.lease = "live", !.starts = n]
    BY <1>2 DEF StartedJob
  <1>4. /\ job \in LoopJob /\ job.status = "running" /\ job.worker = w /\ job.starts = n
        /\ job.start = loops[i].start /\ job.end = loops[i].end
        /\ job.processed = loops[i].processed
    BY <1>1, <1>3 DEF LoopJob, Names
  <1> QED
    BY <1>1, <1>2, <1>4

LEMMA LeasedFields ==
  ASSUME LoopTypeOK, NEW i \in DOMAIN loops, NEW l \in {"none", "live", "expired"},
         NEW job, job = LeasedJob(i, l)
  PROVE  /\ job \in LoopJob /\ loops[i] \in LoopJob
         /\ job.status = loops[i].status /\ job.worker = loops[i].worker
         /\ job.starts = loops[i].starts
         /\ job.start = loops[i].start /\ job.end = loops[i].end
         /\ job.processed = loops[i].processed
  <1>1. loops[i] \in LoopJob
    BY DEF LoopTypeOK
  <1> QED
    BY <1>1 DEF LeasedJob, LoopJob

LEMMA CompletedFields ==
  ASSUME LoopTypeOK, NEW i \in DOMAIN loops, NEW job, job = CompletedJob(i)
  PROVE  /\ job \in LoopJob /\ loops[i] \in LoopJob
         /\ job.status = "completed"
         /\ job.start = loops[i].start /\ job.end = loops[i].end
         /\ job.processed = IF loops[i].end # 0 THEN loops[i].end ELSE loops[i].processed
  <1>1. loops[i] \in LoopJob
    BY DEF LoopTypeOK
  <1> QED
    BY <1>1 DEF CompletedJob, LoopJob

LEMMA FailedFields ==
  ASSUME LoopTypeOK, NEW i \in DOMAIN loops, NEW job, job = FailedJob(i)
  PROVE  /\ job \in LoopJob /\ loops[i] \in LoopJob
         /\ job.status = "failed"
         /\ job.start = loops[i].start /\ job.end = loops[i].end
         /\ job.processed = loops[i].processed
  <1>1. loops[i] \in LoopJob
    BY DEF LoopTypeOK
  <1> QED
    BY <1>1 DEF FailedJob, LoopJob

\* A job that moves keeps its window.
LEMMA MoveKeepsWindow ==
  ASSUME LoopTypeOK, NEW i \in DOMAIN loops,
         \/ \E w \in Names : Starts(i, w)
         \/ \E l \in {"none", "live", "expired"} : Leases(i, l)
         \/ Completes(i) \/ Fails(i)
  PROVE  \E job \in LoopJob : /\ job.start = loops[i].start /\ job.end = loops[i].end
                              /\ loops' = [loops EXCEPT ![i] = job]
  BY StartedFields, LeasedFields, CompletedFields, FailedFields
     DEF Starts, Leases, Completes, Fails

\* What every move of the jobs has in common.
LEMMA JobsGrow ==
  ASSUME LoopTypeOK, JobsMove
  PROVE  /\ loops' \in Seq(LoopJob)
         /\ Len(loops) <= Len(loops') /\ DOMAIN loops \subseteq DOMAIN loops'
         /\ \A k \in DOMAIN loops :
               /\ loops[k].end <= loops'[k].end
               /\ loops[k].status # "queued" =>
                     loops'[k].start = loops[k].start /\ loops'[k].end = loops[k].end
  <1>1. /\ \A k \in DOMAIN loops : loops[k].end \in Nat
        /\ loops \in Seq(LoopJob) /\ Len(loops) \in Nat
        /\ loops # <<>> => Len(loops) \in DOMAIN loops
    <2>1. \A k \in DOMAIN loops : loops[k] \in LoopJob
      BY DEF LoopTypeOK
    <2>2. loops \in Seq(LoopJob) /\ Len(loops) \in Nat
      BY DEF LoopTypeOK
    <2>3. loops # <<>> => Len(loops) \in DOMAIN loops
      BY <2>2, EmptySeq
    <2> QED
      BY <2>1, <2>2, <2>3 DEF LoopJob
  <1>2. CASE loops' = loops
    BY <1>1, <1>2
  <1>3. CASE \E job \in LoopJob : Enqueues(job)
    <2>1. PICK job \in LoopJob : Enqueues(job)
      BY <1>3
    <2>2. CASE loops' = Append(loops, job)
      BY <1>1, <2>2, AddJob
    <2>3. CASE /\ loops # <<>> /\ loops[Len(loops)].status = "queued"
               /\ loops[Len(loops)].end <= job.end
               /\ loops' = [loops EXCEPT ![Len(loops)] = job]
      BY <1>1, <2>3, Rewrite
    <2> QED
      BY <2>1, <2>2, <2>3 DEF Enqueues
  <1>4. ASSUME NEW i \in DOMAIN loops, NEW job \in LoopJob,
               job.start = loops[i].start, job.end = loops[i].end,
               loops' = [loops EXCEPT ![i] = job]
        PROVE  /\ loops' \in Seq(LoopJob)
               /\ Len(loops) <= Len(loops') /\ DOMAIN loops \subseteq DOMAIN loops'
               /\ \A k \in DOMAIN loops :
                     /\ loops[k].end <= loops'[k].end
                     /\ loops'[k].start = loops[k].start /\ loops'[k].end = loops[k].end
    BY <1>1, <1>4, Rewrite
  <1> QED
    BY <1>2, <1>3, <1>4, MoveKeepsWindow DEF JobsMove

\* The queue keeps its order under every move.
LEMMA QueueKept ==
  ASSUME LoopTypeOK, QueueInv, JobsMove
  PROVE  QueueInv'
  <1>1. /\ Len(loops) \in Nat /\ DOMAIN loops = 1 .. Len(loops)
        /\ loops # <<>> => Len(loops) \in DOMAIN loops
    BY EmptySeq DEF LoopTypeOK
  <1>2. CASE loops' = loops
    BY <1>2 DEF QueueInv
  <1>3. CASE \E job \in LoopJob : Enqueues(job)
    <2>1. PICK job \in LoopJob : Enqueues(job)
      BY <1>3
    <2>2. CASE QueuedJobs(loops) = {} /\ loops' = Append(loops, job)
      <3>1. \A i \in DOMAIN loops : loops[i].status # "queued"
        BY <2>2 DEF QueuedJobs
      <3>2. /\ Len(loops') = Len(loops) + 1
            /\ DOMAIN loops' = DOMAIN loops \cup {Len(loops')}
            /\ \A i \in DOMAIN loops : loops'[i] = loops[i]
            /\ loops'[Len(loops')].status = "queued"
        BY <1>1, <2>1, <2>2, AddJob DEF Enqueues
      <3>3. \A i \in DOMAIN loops' : loops'[i].status = "queued" => i = Len(loops')
        BY <3>1, <3>2
      <3>4. \A i \in DOMAIN loops' : loops'[i].status = "running" =>
               i \in DOMAIN loops /\ loops[i].status = "running"
        BY <3>2
      <3>5. \A i, k \in DOMAIN loops' :
               loops'[i].status = "running" /\ loops'[k].status = "running" => i = k
        BY <3>4 DEF QueueInv
      <3> QED
        BY <3>3, <3>5 DEF QueueInv
    <2>3. CASE loops # <<>> /\ loops' = [loops EXCEPT ![Len(loops)] = job]
      <3>1. /\ Len(loops') = Len(loops) /\ DOMAIN loops' = DOMAIN loops
            /\ \A k \in DOMAIN loops : loops'[k] = IF k = Len(loops) THEN job ELSE loops[k]
        BY <1>1, <2>3, Rewrite
      <3>2. job.status = "queued"
        BY <2>1 DEF Enqueues
      <3>3. \A k \in DOMAIN loops : k # Len(loops) => loops[k].status # "queued"
        BY DEF QueueInv
      <3>4. \A k \in DOMAIN loops' : loops'[k].status = "running" => loops[k].status = "running"
        BY <3>1, <3>2
      <3>5. \A k \in DOMAIN loops' : loops'[k].status = "queued" => k = Len(loops')
        BY <3>1, <3>3
      <3>6. \A i, k \in DOMAIN loops' :
               loops'[i].status = "running" /\ loops'[k].status = "running" => i = k
        BY <3>1, <3>4 DEF QueueInv
      <3> QED
        BY <3>5, <3>6 DEF QueueInv
    <2> QED
      BY <2>1, <2>2, <2>3 DEF Enqueues
  <1>4. ASSUME NEW i \in DOMAIN loops, NEW w \in Names, Starts(i, w) PROVE QueueInv'
    <2>1. /\ DOMAIN loops' = DOMAIN loops /\ Len(loops') = Len(loops)
          /\ \A k \in DOMAIN loops : loops'[k] = IF k = i THEN StartedJob(i, w) ELSE loops[k]
          /\ StartedJob(i, w).status = "running"
      BY <1>4, Rewrite, StartedFields DEF Starts
    <2>2. \/ \A k \in DOMAIN loops : loops[k].status # "running"
          \/ loops[i].status = "running"
      BY <1>4 DEF Starts, CanStart
    <2> QED
      BY <2>1, <2>2 DEF QueueInv
  <1>5. ASSUME NEW i \in DOMAIN loops, NEW l \in {"none", "live", "expired"}, Leases(i, l)
        PROVE  QueueInv'
    <2>1. /\ DOMAIN loops' = DOMAIN loops /\ Len(loops') = Len(loops)
          /\ \A k \in DOMAIN loops : loops'[k] = IF k = i THEN LeasedJob(i, l) ELSE loops[k]
          /\ LeasedJob(i, l).status = loops[i].status
      BY <1>5, Rewrite, LeasedFields DEF Leases
    <2> QED
      BY <2>1 DEF QueueInv
  <1>6. ASSUME NEW i \in DOMAIN loops, Completes(i) \/ Fails(i) PROVE QueueInv'
    <2>1. /\ DOMAIN loops' = DOMAIN loops /\ Len(loops') = Len(loops)
          /\ \A k \in DOMAIN loops : k # i => loops'[k] = loops[k]
          /\ loops'[i].status \in {"completed", "failed"}
      BY <1>6, Rewrite, CompletedFields, FailedFields DEF Completes, Fails
    <2> QED
      BY <2>1 DEF QueueInv
  <1> QED
    BY <1>2, <1>3, <1>4, <1>5, <1>6 DEF JobsMove

\* What became of a job.
Became(k) ==
    LET old == loops[k] new == loops'[k] IN
    \/ k \in DOMAIN loops /\ new = old
    \/ /\ new.status = "queued"
       /\ new.end <= Len(log') /\ new.processed <= Len(log')
       /\ Within(new.processed) \/ new.processed < new.end
    \/ /\ k \in DOMAIN loops /\ new.start = old.start /\ new.end = old.end
       /\ \/ /\ old.status \in {"queued", "running"} /\ new.status = "running"
             /\ new.processed = old.processed /\ new.starts = old.starts + 1
             /\ \E w \in Names : CanStart(k, w) /\ new.worker = w
          \/ /\ new.status = old.status /\ new.processed = old.processed
             /\ new.starts = old.starts /\ new.worker = old.worker
          \/ /\ old.status = "running" /\ new.status = "completed"
             /\ new.processed = IF old.end # 0 THEN old.end ELSE old.processed
          \/ /\ old.status = "running" /\ new.status = "failed" /\ session # "open"
             /\ new.processed = old.processed

LEMMA AllBecame ==
  ASSUME LoopTypeOK, JobsMove
  PROVE  \A k \in DOMAIN loops' : Became(k)
  <1>1. /\ Len(loops) \in Nat /\ DOMAIN loops = 1 .. Len(loops)
        /\ loops # <<>> => Len(loops) \in DOMAIN loops
    BY EmptySeq DEF LoopTypeOK
  <1>2. CASE loops' = loops
    BY <1>2 DEF Became
  <1>3. CASE \E job \in LoopJob : Enqueues(job)
    <2>1. PICK job \in LoopJob : Enqueues(job)
      BY <1>3
    <2>2. CASE loops' = Append(loops, job)
      <3>1. /\ job.status = "queued" /\ job.end <= Len(log') /\ job.processed <= Len(log')
            /\ Within(job.processed) \/ job.processed < job.end
        BY <2>1 DEF Enqueues
      <3>2. \A k \in DOMAIN loops' : (k \in DOMAIN loops /\ loops'[k] = loops[k]) \/ loops'[k] = job
        BY <1>1, <2>2, AddJob
      <3> QED
        BY <3>1, <3>2 DEF Became
    <2>3. CASE loops # <<>> /\ loops' = [loops EXCEPT ![Len(loops)] = job]
      BY <1>1, <2>1, <2>3, Rewrite DEF Became, Enqueues
    <2> QED
      BY <2>1, <2>2, <2>3 DEF Enqueues
  <1>4. ASSUME NEW i \in DOMAIN loops, NEW w \in Names, Starts(i, w),
               NEW k \in DOMAIN loops'
        PROVE  Became(k)
    <2>1. /\ DOMAIN loops' = DOMAIN loops
          /\ loops'[k] = IF k = i THEN StartedJob(i, w) ELSE loops[k]
      BY <1>4, Rewrite, StartedFields DEF Starts
    <2>2. loops[i].status \in {"queued", "running"} /\ CanStart(i, w)
      BY <1>4 DEF Starts, CanStart
    <2> QED
      BY <2>1, <2>2, StartedFields DEF Became
  <1>5. ASSUME NEW i \in DOMAIN loops, NEW l \in {"none", "live", "expired"}, Leases(i, l),
               NEW k \in DOMAIN loops'
        PROVE  Became(k)
    <2>1. /\ DOMAIN loops' = DOMAIN loops
          /\ loops'[k] = IF k = i THEN LeasedJob(i, l) ELSE loops[k]
      BY <1>5, Rewrite, LeasedFields DEF Leases
    <2> QED
      BY <2>1, LeasedFields DEF Became
  <1>6. ASSUME NEW i \in DOMAIN loops, Completes(i), NEW k \in DOMAIN loops'
        PROVE  Became(k)
    <2>1. /\ DOMAIN loops' = DOMAIN loops /\ loops[i].status = "running"
          /\ loops'[k] = IF k = i THEN CompletedJob(i) ELSE loops[k]
      BY <1>6, Rewrite, CompletedFields DEF Completes
    <2> QED
      BY <2>1, CompletedFields DEF Became
  <1>7. ASSUME NEW i \in DOMAIN loops, Fails(i), NEW k \in DOMAIN loops'
        PROVE  Became(k)
    <2>1. /\ DOMAIN loops' = DOMAIN loops /\ loops[i].status = "running"
          /\ loops'[k] = IF k = i THEN FailedJob(i) ELSE loops[k]
      BY <1>7, Rewrite, FailedFields DEF Fails
    <2> QED
      BY <1>7, <2>1, FailedFields DEF Became, Fails
  <1> QED
    BY <1>2, <1>3, <1>4, <1>5, <1>6, <1>7 DEF JobsMove

LEMMA WithinGrows ==
  ASSUME LoopTypeOK, JobsMove, NEW n \in Nat, Within(n)
  PROVE  Within(n)'
  <1>1. CASE n = 0
    BY <1>1 DEF Within
  <1>2. CASE \E k \in DOMAIN loops : n <= loops[k].end
    <2>1. PICK k \in DOMAIN loops : n <= loops[k].end
      BY <1>2
    <2>2. k \in DOMAIN loops' /\ loops[k].end <= loops'[k].end
      BY JobsGrow
    <2>3. loops[k] \in LoopJob /\ loops'[k] \in LoopJob
      BY <2>2, JobsGrow DEF LoopTypeOK
    <2>4. n <= loops'[k].end
      BY <2>1, <2>2, <2>3 DEF LoopJob
    <2> QED
      BY <2>2, <2>4 DEF Within
  <1> QED
    BY <1>1, <1>2 DEF Within

\* Windows and marks of the jobs stay in the log, and marks stay behind windows.
LEMMA MarksKept ==
  ASSUME LoopTypeOK, BoundInv, CursorInv, JobsMove, LogMove, NEW k \in DOMAIN loops'
  PROVE  /\ loops'[k].end <= Len(log') /\ loops'[k].processed <= Len(log')
         /\ Within(loops[k].processed)'
         /\ loops'[k].status = "completed" => loops'[k].end <= loops'[k].processed
  <1>1. loops'[k] \in LoopJob /\ (k \in DOMAIN loops => loops[k] \in LoopJob)
    BY JobsGrow DEF LoopTypeOK
  <1>2. /\ loops'[k].end \in Nat /\ loops'[k].processed \in Nat
        /\ k \in DOMAIN loops => loops[k].end \in Nat /\ loops[k].processed \in Nat
    BY <1>1 DEF LoopJob
  <1>3. Len(log) \in Nat /\ Len(log') \in Nat /\ Len(log) <= Len(log')
    BY LogGrows
  <1>4. k \in DOMAIN loops =>
          /\ loops[k].end <= Len(log) /\ loops[k].processed <= Len(log)
          /\ Within(loops[k].processed)
          /\ loops[k].status = "completed" => loops[k].end <= loops[k].processed
    BY DEF BoundInv, CursorInv
  <1>5. Became(k)
    BY AllBecame
  <1>6. loops'[k].end <= Len(log') /\ loops'[k].processed <= Len(log')
    BY <1>2, <1>3, <1>4, <1>5 DEF Became
  <1>7. loops'[k].status = "completed" => loops'[k].end <= loops'[k].processed
    BY <1>2, <1>4, <1>5 DEF Became
  <1>8. Within(loops'[k].processed) \/ loops'[k].processed <= loops'[k].end
    BY <1>2, <1>4, <1>5 DEF Became
  <1>9. Within(loops[k].processed)'
    <2>1. CASE Within(loops'[k].processed)
      <3> DEFINE n == loops'[k].processed
      <3>1. n \in Nat /\ Within(n)
        BY <1>2, <2>1
      <3>2. \A m \in Nat : Within(m) => Within(m)'
        BY WithinGrows
      <3> QED
        BY <3>1, <3>2 DEF Within
    <2>2. CASE loops'[k].processed <= loops'[k].end
      BY <2>2 DEF Within
    <2> QED
      BY <1>8, <2>1, <2>2
  <1> QED
    BY <1>6, <1>7, <1>9
-----------------------------------------------------------------------------
(* The operations of the store move the jobs *)

LEMMA StartShape ==
  ASSUME LoopTypeOK, NEW i \in DOMAIN loops, NEW w \in Names, start_session_loop_job(i, w)
  PROVE  JobsMove /\ Starts(i, w)
  <1>1. loops[i] \in LoopJob
    BY DEF LoopTypeOK
  <1>2. Starts(i, w)
    BY <1>1 DEF start_session_loop_job, Starts, StartedJob, LoopJob
  <1> QED
    BY <1>2 DEF JobsMove

LEMMA RenewShape ==
  ASSUME LoopTypeOK, NEW i \in DOMAIN loops, NEW w, renew_session_loop_job_lease(i, w)
  PROVE  JobsMove /\ Leases(i, "live")
  <1>1. loops[i] \in LoopJob
    BY DEF LoopTypeOK
  <1>2. Leases(i, "live")
    BY <1>1 DEF renew_session_loop_job_lease, Leases, LeasedJob, LoopJob
  <1> QED
    BY <1>2 DEF JobsMove

LEMMA ExpiryShape ==
  ASSUME LoopTypeOK, NEW i \in DOMAIN loops, LoopLeaseExpires(i)
  PROVE  JobsMove /\ Leases(i, "expired")
  <1>1. loops[i] \in LoopJob
    BY DEF LoopTypeOK
  <1>2. Leases(i, "expired")
    BY <1>1 DEF LoopLeaseExpires, Leases, LeasedJob, LoopJob
  <1> QED
    BY <1>2 DEF JobsMove

LEMMA CompleteShape ==
  ASSUME LoopTypeOK, NEW i \in DOMAIN loops, NEW w, complete_session_loop_job(i, w)
  PROVE  JobsMove /\ Completes(i)
  <1>1. loops[i] \in LoopJob
    BY DEF LoopTypeOK
  <1>2. Completes(i)
    BY <1>1 DEF complete_session_loop_job, OwnsJob, Completes, CompletedJob, LoopJob
  <1> QED
    BY <1>2 DEF JobsMove

LEMMA FailShape ==
  ASSUME LoopTypeOK, NEW i \in DOMAIN loops, NEW w, fail_session_loop_job(i, w),
         session # "open"
  PROVE  JobsMove /\ Fails(i)
  <1>1. loops[i] \in LoopJob
    BY DEF LoopTypeOK
  <1>2. Fails(i)
    BY <1>1 DEF fail_session_loop_job, OwnsJob, Fails, FailedJob, LoopJob
  <1> QED
    BY <1>2 DEF JobsMove

\* The job that waits is the last one.
LEMMA Waiting ==
  ASSUME NEW js \in Seq(LoopJob), QueuedJobs(js) # {},
         \A i \in DOMAIN js : js[i].status = "queued" => i = Len(js)
  PROVE  /\ js # <<>> /\ Len(js) \in DOMAIN js /\ js[Len(js)].status = "queued"
         /\ Max(QueuedJobs(js)) = Len(js)
  <1>1. PICK i \in DOMAIN js : js[i].status = "queued"
    BY DEF QueuedJobs
  <1>2. i = Len(js) /\ js # <<>>
    BY <1>1
  <1>3. QueuedJobs(js) = {Len(js)}
    BY <1>1, <1>2 DEF QueuedJobs
  <1>4. Len(js) \in Nat
    OBVIOUS
  <1> QED
    BY <1>1, <1>2, <1>3, <1>4, MaxOfOne

LEMMA NewJobFields ==
  ASSUME NEW a \in Nat, NEW b \in Nat, NEW p \in Nat, NEW job, job = NewJob(a, b, p)
  PROVE  /\ job \in LoopJob /\ job.status = "queued"
         /\ job.start = a /\ job.end = b /\ job.processed = p
  BY DEF NewJob, LoopJob

\* The window of the trigger starts behind the mark and holds its event.
LEMMA StartOfWindow ==
  ASSUME LoopTypeOK, BoundInv, NEW l, NEW x, NEW n, n = Len(log) + 1
  PROVE  LET start == PendingStart(l, x, loops, n)
         IN start \in Nat /\ HighWatermark(loops) < start /\ start <= n
  <1> DEFINE mark == HighWatermark(loops)
             first == IF mark = 0 THEN n ELSE mark + 1
             released == IF l[n].kind = "execution.completed"
                         THEN ReleasedResults(l, x, n, mark) ELSE {}
  <1>1. mark \in Nat /\ mark <= Len(log) /\ Len(log) \in Nat
    BY MarkOf DEF LoopTypeOK
  <1>2. released \subseteq mark + 1 .. n - 1
    BY DEF ReleasedResults
  <1>3. first \in Nat /\ mark < first /\ first <= n
    BY <1>1
  <1>4. \A y \in {first} \cup released : y \in Nat /\ mark < y /\ y <= n
    BY <1>1, <1>2, <1>3
  <1>5. {first} \cup released \in SUBSET Nat
    BY <1>4
  <1>6. Min({first} \cup released) \in {first} \cup released
    BY <1>5, MinOf
  <1>7. ~(Min({first} \cup released) > n)
    <2>1. PICK y \in {first} \cup released : y = Min({first} \cup released)
      BY <1>6
    <2>2. y \in Nat /\ y <= n
      BY <1>4
    <2>3. ~(y > n)
      BY <1>1, <2>2
    <2> QED
      BY <2>1, <2>3
  <1>8. PendingStart(l, x, loops, n) = Min({first} \cup released)
    BY <1>7 DEF PendingStart
  <1> QED
    BY <1>4, <1>6, <1>8

LEMMA ProjectedShape ==
  ASSUME LoopTypeOK, QueueInv, BoundInv, CursorInv, NEW start \in Nat, 0 < start,
         Len(log') = Len(log) + 1, start <= Len(log'),
         loops' = MergeProjected(loops, start, Len(log'))
  PROVE  \E job \in LoopJob : Enqueues(job)
  <1> DEFINE n == Len(log')
  <1>1. n \in Nat /\ Len(log) \in Nat /\ start - 1 \in Nat /\ loops \in Seq(LoopJob)
    BY DEF LoopTypeOK
  <1>2. CASE QueuedJobs(loops) = {}
    <2>1. loops' = Append(loops, NewJob(start, n, start - 1))
      BY <1>2 DEF MergeProjected
    <2>2. PICK job : job = NewJob(start, n, start - 1)
      OBVIOUS
    <2>3. /\ job \in LoopJob /\ job.status = "queued"
          /\ job.start = start /\ job.end = n /\ job.processed = start - 1
      BY <1>1, <2>2, NewJobFields
    <2>4. Enqueues(job)
      BY <1>1, <1>2, <2>1, <2>2, <2>3 DEF Enqueues
    <2> QED
      BY <2>3, <2>4
  <1>3. CASE QueuedJobs(loops) # {}
    <2>1. /\ loops # <<>> /\ Len(loops) \in DOMAIN loops
          /\ loops[Len(loops)].status = "queued"
          /\ Max(QueuedJobs(loops)) = Len(loops)
      BY <1>1, <1>3, Waiting DEF QueueInv
    <2> DEFINE i == Len(loops)
               old == loops[i]
    <2>2. old \in LoopJob
      BY <2>1 DEF LoopTypeOK
    <2>3. /\ old.start \in Nat /\ old.end \in Nat /\ old.processed \in Nat
          /\ old.end <= Len(log) /\ old.processed <= Len(log) /\ Within(old.processed)
      BY <2>1, <2>2 DEF LoopJob, BoundInv, CursorInv
    <2>4. PICK a \in Nat : a = IF old.start = 0 THEN start ELSE old.start
      BY <2>3
    <2>5. Max({old.end, n}) = n
      BY <1>1, <2>3, MaxOfTwo
    <2>6. PICK job : job = [old EXCEPT !.start = a, !.end = n]
      OBVIOUS
    <2>7. /\ job \in LoopJob /\ job.status = "queued" /\ job.end = n
          /\ job.processed = old.processed
      BY <1>1, <2>1, <2>2, <2>6 DEF LoopJob
    <2>8. loops' = [loops EXCEPT ![i].start = a, ![i].end = n]
      BY <1>3, <2>1, <2>4, <2>5 DEF MergeProjected
    <2>9. loops' = [loops EXCEPT ![i] = job]
      BY <1>1, <2>1, <2>2, <2>6, <2>8 DEF LoopJob
    <2>10. /\ job.end <= n /\ job.processed <= n /\ old.end <= job.end
           /\ Within(job.processed)
      BY <1>1, <2>3, <2>7
    <2>11. Enqueues(job)
      BY <2>1, <2>7, <2>9, <2>10 DEF Enqueues
    <2> QED
      BY <2>7, <2>11
  <1> QED
    BY <1>2, <1>3

LEMMA DirectShape ==
  ASSUME LoopTypeOK, QueueInv, BoundInv, CursorInv, log' = log,
         NEW start \in Nat, NEW end \in Nat, NEW cursor \in Nat,
         end <= Len(log), cursor <= Len(log), Within(cursor) \/ cursor < end,
         loops' = MergeDirect(loops, start, end, cursor)
  PROVE  \E job \in LoopJob : Enqueues(job)
  <1>1. Len(log) \in Nat /\ loops \in Seq(LoopJob) /\ Len(log') = Len(log)
    BY DEF LoopTypeOK
  <1>2. CASE QueuedJobs(loops) = {}
    <2>1. loops' = Append(loops, NewJob(start, end, cursor))
      BY <1>2 DEF MergeDirect
    <2>2. PICK job : job = NewJob(start, end, cursor)
      OBVIOUS
    <2>3. /\ job \in LoopJob /\ job.status = "queued"
          /\ job.start = start /\ job.end = end /\ job.processed = cursor
      BY <2>2, NewJobFields
    <2>4. Enqueues(job)
      BY <1>1, <1>2, <2>1, <2>2, <2>3 DEF Enqueues
    <2> QED
      BY <2>3, <2>4
  <1>3. CASE QueuedJobs(loops) # {}
    <2>1. /\ loops # <<>> /\ Len(loops) \in DOMAIN loops
          /\ loops[Len(loops)].status = "queued"
          /\ Max(QueuedJobs(loops)) = Len(loops)
      BY <1>1, <1>3, Waiting DEF QueueInv
    <2> DEFINE i == Len(loops)
               old == loops[i]
               lower == start # 0 /\ (old.start = 0 \/ start < old.start)
    <2>2. old \in LoopJob
      BY <2>1 DEF LoopTypeOK
    <2>3. /\ old.start \in Nat /\ old.end \in Nat /\ old.processed \in Nat
          /\ old.end <= Len(log) /\ old.processed <= Len(log) /\ Within(old.processed)
      BY <2>1, <2>2 DEF LoopJob, BoundInv, CursorInv
    <2>4. PICK a \in Nat : a = IF lower THEN start ELSE old.start
      BY <2>3
    <2>5. PICK p \in Nat : p = IF lower THEN cursor ELSE old.processed
      BY <2>3
    <2>6. PICK b \in Nat : b = Max({old.end, end}) /\ b = IF old.end <= end THEN end ELSE old.end
      BY <2>3, MaxOfTwo
    <2>7. PICK job : job = [old EXCEPT !.start = a, !.processed = p, !.end = b]
      OBVIOUS
    <2>8. /\ job \in LoopJob /\ job.status = "queued" /\ job.end = b
          /\ job.processed = p
      BY <2>1, <2>2, <2>7 DEF LoopJob
    <2>9. loops' = [loops EXCEPT ![i].start = a, ![i].processed = p, ![i].end = b]
      BY <1>3, <2>1, <2>4, <2>5, <2>6 DEF MergeDirect
    <2>10. loops' = [loops EXCEPT ![i] = job]
      BY <1>1, <2>1, <2>2, <2>7, <2>9 DEF LoopJob
    <2>11. old.end <= b /\ end <= b /\ b <= Len(log) /\ p <= Len(log)
      <3>1. PICK m \in Nat : m = old.end /\ m <= Len(log)
        BY <2>3
      <3>2. b = IF m <= end THEN end ELSE m
        BY <2>6, <3>1
      <3>3. m <= b /\ end <= b /\ b <= Len(log)
        BY <1>1, <3>1, <3>2
      <3>4. p <= Len(log)
        BY <2>3, <2>5
      <3> QED
        BY <3>1, <3>3, <3>4
    <2>12. Within(p) \/ p < b
      BY <2>3, <2>5, <2>11
    <2>13. Enqueues(job)
      BY <1>1, <2>1, <2>8, <2>10, <2>11, <2>12 DEF Enqueues
    <2> QED
      BY <2>8, <2>13
  <1> QED
    BY <1>2, <1>3

LEMMA AppendMoves ==
  ASSUME LoopTypeOK, QueueInv, BoundInv, CursorInv, NEW event \in Event, NEW x,
         append_event(event, x)
  PROVE  /\ JobsMove /\ LogMove
         /\ loops' = loops \/ \E job \in LoopJob : Enqueues(job)
         /\ Len(log') = Len(log) + 1 /\ DOMAIN log' = DOMAIN log \cup {Len(log')}
         /\ \A s \in DOMAIN log : log'[s] = log[s]
         /\ log'[Len(log')] = event
  <1>1. log' = Append(log, event) /\ LogMove
    BY DEF append_event, LogMove
  <1>2. /\ log' \in Seq(Event) /\ Len(log') = Len(log) + 1
        /\ \A s \in 1 .. Len(log) : log'[s] = log[s]
        /\ log'[Len(log) + 1] = event
    BY <1>1, AppendProperties DEF LoopTypeOK
  <1>3. Len(log) \in Nat /\ DOMAIN log = 1 .. Len(log) /\ DOMAIN log' = 1 .. Len(log')
    BY <1>2 DEF LoopTypeOK
  <1> DEFINE start == PendingStart(log', x, loops, Len(log'))
  <1>4. ASSUME loops' = MergeProjected(loops, start, Len(log'))
        PROVE  \E job \in LoopJob : Enqueues(job)
    <2>1. start \in Nat /\ HighWatermark(loops) < start /\ start <= Len(log')
      BY <1>2, <1>3, StartOfWindow
    <2>2. HighWatermark(loops) \in Nat
      BY MarkOf
    <2>3. PICK a \in Nat : a = start /\ 0 < a
      BY <2>1, <2>2
    <2> QED
      BY <1>2, <1>4, <2>1, <2>3, ProjectedShape
  <1>5. loops' = loops \/ loops' = MergeProjected(loops, start, Len(log'))
    BY <1>2 DEF append_event, Project
  <1>6. JobsMove
    BY <1>4, <1>5 DEF JobsMove
  <1> QED
    BY <1>1, <1>2, <1>3, <1>4, <1>5, <1>6
-----------------------------------------------------------------------------
(* Runners, callers and hidden results that a step leaves alone *)

LEMMA RunnerFrame ==
  ASSUME LoopTypeOK, JobsMove, LogMove, NEW r \in Runners, RunnerOK(r),
         runner'[r] = runner[r], session' = "open" => session = "open"
  PROVE  RunnerOK(r)'
  <1>1. DOMAIN loops \subseteq DOMAIN loops'
    BY JobsGrow
  <1>2. Len(log) \in Nat /\ Len(log') \in Nat /\ Len(log) <= Len(log')
    BY LogGrows
  <1>3. runner[r] \in Runner
    BY DEF LoopTypeOK
  <1>4. runner'[r].end <= Len(log')
    BY <1>2, <1>3 DEF RunnerOK, Runner
  <1> QED
    BY <1>1, <1>4 DEF RunnerOK

LEMMA CallFrame ==
  ASSUME LoopTypeOK, JobsMove, LogMove, NEW c \in Callers, CallOK(c), call'[c] = call[c]
  PROVE  CallOK(c)'
  <1>1. DOMAIN loops \subseteq DOMAIN loops'
    BY JobsGrow
  <1>2. Len(log) \in Nat /\ Len(log') \in Nat /\ Len(log) <= Len(log')
    BY LogGrows
  <1>3. call[c] \in Call
    BY DEF LoopTypeOK, Callers
  <1>4. PICK n \in Nat, b \in Nat : n = call[c].cursor /\ b = call[c].end
    BY <1>3 DEF Call
  <1>5. Within(n) => Within(n)'
    BY WithinGrows
  <1>6. b <= Len(log') /\ n <= Len(log')
    BY <1>2, <1>4 DEF CallOK
  <1> QED
    BY <1>1, <1>4, <1>5, <1>6 DEF CallOK, Within

\* A result that is settled stays settled.
LEMMA SettledStays ==
  ASSUME LoopTypeOK, LogMove, NEW s \in DOMAIN log, ~Hidden(log, execs, s),
         \A e \in Execs : execs[e] = "completed" => execs'[e] = "completed",
         ExecInv
  PROVE  ~Hidden(log', execs', s)
  <1>1. /\ DOMAIN log \subseteq DOMAIN log' /\ \A k \in DOMAIN log : log'[k] = log[k]
    BY LogGrows
  <1>2. ASSUME NEW e, Announced(log, e) PROVE Announced(log', e)
    BY <1>1, <1>2 DEF Announced
  <1>3. CASE log[s].kind # "tool.result"
    BY <1>1, <1>3 DEF Hidden
  <1>4. CASE log[s].kind = "tool.result"
    <2>1. /\ log[s].exec \in Execs /\ execs[log[s].exec] = "completed"
          /\ Announced(log, log[s].exec)
      BY <1>4 DEF Hidden, ExecInv
    <2> QED
      BY <1>1, <1>2, <2>1 DEF Hidden
  <1> QED
    BY <1>3, <1>4

\* Nothing is hidden where no action is pending.
LEMMA NothingHidden ==
  ASSUME LoopTypeOK, ExecInv, session = "open", ~PendingActions, NEW s \in DOMAIN log
  PROVE  ~Hidden(log, execs, s)
  BY DEF ExecInv, PendingActions, Hidden

LEMMA HiddenKept ==
  ASSUME LoopTypeOK, BoundInv, ExecInv, HiddenResultStaysPending, JobsMove, LogMove,
         \A e \in Execs : execs[e] = "completed" => execs'[e] = "completed",
         session' = "open" => session = "open"
  PROVE  HiddenResultStaysPending'
  <1> SUFFICES ASSUME session' = "open", NEW i \in DOMAIN loops', NEW s \in DOMAIN log',
                      loops'[i].status \in {"running", "completed"}, InWindow(i, s)'
               PROVE  ~Hidden(log', execs', s)
    BY DEF HiddenResultStaysPending
  <1>1. session = "open"
    OBVIOUS
  <1>2. Became(i)
    BY AllBecame
  <1>3. /\ i \in DOMAIN loops
        /\ loops'[i].start = loops[i].start /\ loops'[i].end = loops[i].end
        /\ \/ loops[i].status \in {"running", "completed"}
           \/ \E w \in Names : CanStart(i, w)
    BY <1>2 DEF Became
  <1>4. InWindow(i, s)
    BY <1>3 DEF InWindow
  <1>5. s \in DOMAIN log
    <2>1. loops[i] \in LoopJob /\ Len(log) \in Nat /\ DOMAIN log = 1 .. Len(log)
      BY <1>3 DEF LoopTypeOK
    <2>2. s \in Nat /\ 0 < s
      BY LogGrows
    <2>3. s <= loops[i].end /\ loops[i].end <= Len(log) /\ loops[i].end \in Nat
      BY <1>3, <1>4, <2>1 DEF InWindow, BoundInv, LoopJob
    <2> QED
      BY <2>1, <2>2, <2>3
  <1>6. ~Hidden(log, execs, s)
    <2>1. CASE loops[i].status \in {"running", "completed"}
      BY <1>1, <1>3, <1>4, <1>5, <2>1 DEF HiddenResultStaysPending
    <2>2. CASE \E w \in Names : CanStart(i, w)
      BY <1>1, <1>5, <2>2, NothingHidden DEF CanStart
    <2> QED
      BY <1>3, <2>1, <2>2
  <1> QED
    BY <1>5, <1>6, SettledStays
-----------------------------------------------------------------------------
(* Every step keeps the invariant *)

SessionMove ==
    /\ session' \in {"open", "terminated", "failed"}
    /\ session' = "open" => session = "open"
    /\ stray' \in BOOLEAN /\ (stray => stray')

ExecsMove ==
    /\ execs' \in [Execs -> {"absent", "waiting", "active", "rejected", "completed",
                             "failed", "canceled", "outcome_unknown"}]
    /\ \A e \in Execs : execs[e] = "completed" => execs'[e] = "completed"
    /\ ExecInv'

RunnersMove == runner' \in [Runners -> Runner] /\ \A r \in Runners : RunnerOK(r)'
CallsMove == call' \in [Callers -> Call] /\ \A c \in Callers : CallOK(c)'

\* What every step does.
LoopStep == LoopInv' /\ JobsMove /\ LogMove /\ SessionMove /\ ExecsMove

LEMMA Assembled ==
  ASSUME LoopInv, JobsMove, LogMove, SessionMove, ExecsMove, RunnersMove, CallsMove,
         seen' \subseteq 1 .. Len(log')
  PROVE  LoopStep
  <1>1. LoopTypeOK'
    BY JobsGrow, LogGrows
       DEF LoopInv, LoopTypeOK, SessionMove, ExecsMove, RunnersMove, CallsMove, Callers
  <1>2. QueueInv'
    BY QueueKept DEF LoopInv
  <1>3. BoundInv'
    BY MarksKept DEF LoopInv, BoundInv
  <1>4. CursorInv'
    BY MarksKept DEF LoopInv, CursorInv
  <1>5. FailureInv'
    <2> SUFFICES ASSUME session' = "open", NEW i \in DOMAIN loops' 
                 PROVE  loops'[i].status # "failed"
      BY DEF FailureInv
    <2>1. session = "open"
      BY DEF SessionMove
    <2>2. Became(i)
      BY AllBecame DEF LoopInv
    <2> QED
      BY <2>1, <2>2 DEF Became, LoopInv, FailureInv
  <1>6. HiddenResultStaysPending'
    BY HiddenKept DEF LoopInv, SessionMove, ExecsMove
  <1> QED
    BY <1>1, <1>2, <1>3, <1>4, <1>5, <1>6
       DEF LoopInv, LoopStep, ExecsMove, RunnersMove, CallsMove

\* The parts of a step that leave something alone.
LEMMA Stays ==
  ASSUME LoopInv
  PROVE  /\ loops' = loops => JobsMove
         /\ log' = log => LogMove
         /\ session' = session /\ stray' = stray => SessionMove
         /\ seen' = seen /\ LogMove => seen' \subseteq 1 .. Len(log')
  <1>1. LoopTypeOK
    BY DEF LoopInv
  <1>2. ASSUME seen' = seen, LogMove PROVE seen' \subseteq 1 .. Len(log')
    <2>1. Len(log) \in Nat /\ Len(log') \in Nat /\ Len(log) <= Len(log')
      BY <1>1, <1>2, LogGrows
    <2> QED
      BY <1>1, <1>2, <2>1 DEF LoopTypeOK
  <1> QED
    BY <1>1, <1>2 DEF JobsMove, LogMove, SessionMove, LoopTypeOK

LEMMA RunnersStay ==
  ASSUME LoopInv, JobsMove, LogMove, runner' = runner, SessionMove
  PROVE  RunnersMove
  <1>1. \A r \in Runners : RunnerOK(r)'
    BY RunnerFrame DEF LoopInv, SessionMove
  <1> QED
    BY <1>1 DEF RunnersMove, LoopInv, LoopTypeOK

LEMMA CallsStay ==
  ASSUME LoopInv, JobsMove, LogMove, call' = call
  PROVE  CallsMove
  <1>1. \A c \in Callers : CallOK(c)'
    BY CallFrame DEF LoopInv
  <1> QED
    BY <1>1 DEF CallsMove, LoopInv, LoopTypeOK, Callers

\* Events that are no results do not matter to the executions.
LEMMA ExecsStay ==
  ASSUME LoopInv, LogMove, execs' = execs,
         \A s \in DOMAIN log' : s \in DOMAIN log \/ log'[s].kind # "tool.result"
  PROVE  ExecsMove
  <1>1. LoopTypeOK /\ ExecInv
    BY DEF LoopInv
  <1>2. DOMAIN log \subseteq DOMAIN log' /\ \A s \in DOMAIN log : log'[s] = log[s]
    BY <1>1, LogGrows
  <1>3. \A e : Announced(log, e) => Announced(log', e)
    BY <1>2 DEF Announced
  <1>4. ExecInv'
    BY <1>1, <1>2, <1>3 DEF ExecInv
  <1> QED
    BY <1>1, <1>4 DEF ExecsMove, LoopTypeOK

LEMMA EventTypes ==
  /\ \A kind \in Kinds : /\ Plain(kind) \in Event
                         /\ Plain(kind).kind = kind
  /\ \A kind \in Kinds, e \in Execs : /\ About(kind, e) \in Event
                                      /\ About(kind, e).kind = kind
                                      /\ About(kind, e).exec = e
  BY DEF Plain, About, Event

LEMMA AppendStep ==
  ASSUME LoopInv, NEW kind \in {"input", "note"}, append_event(Plain(kind), execs),
         UNCHANGED <<session, execs, runner, seen, stray>>
  PROVE  /\ JobsMove /\ LogMove /\ SessionMove /\ ExecsMove /\ RunnersMove
         /\ seen' \subseteq 1 .. Len(log') /\ Len(log') = Len(log) + 1
  <1>1. Plain(kind) \in Event /\ Plain(kind).kind # "tool.result"
    BY EventTypes DEF Kinds
  <1>2. /\ JobsMove /\ LogMove
        /\ Len(log') = Len(log) + 1 /\ DOMAIN log' = DOMAIN log \cup {Len(log')}
        /\ log'[Len(log')] = Plain(kind)
    BY <1>1, AppendMoves DEF LoopInv
  <1>3. ExecsMove
    BY <1>1, <1>2, ExecsStay
  <1>4. SessionMove /\ seen' \subseteq 1 .. Len(log')
    BY <1>2, Stays
  <1> QED
    BY <1>2, <1>3, <1>4, RunnersStay

LEMMA AppendKeeps ==
  ASSUME LoopInv, AppendInput \/ AppendNote
  PROVE  LoopStep
  <1>1. /\ JobsMove /\ LogMove /\ SessionMove /\ ExecsMove /\ RunnersMove
        /\ seen' \subseteq 1 .. Len(log') /\ call' = call
    BY AppendStep DEF AppendInput, AppendNote
  <1> QED
    BY <1>1, CallsStay, Assembled

LEMMA TerminateKeeps ==
  ASSUME LoopInv, Terminate
  PROVE  LoopStep
  <1>1. JobsMove /\ LogMove /\ seen' \subseteq 1 .. Len(log')
    BY Stays DEF Terminate
  <1>2. SessionMove
    BY DEF Terminate, SessionMove, LoopInv, LoopTypeOK
  <1>3. ExecsMove
    BY <1>1, ExecsStay DEF Terminate
  <1> QED
    BY <1>1, <1>2, <1>3, RunnersStay, CallsStay, Assembled DEF Terminate

\* An execution that moves on keeps its result, and announces its completion.
LEMMA ExecsChange ==
  ASSUME LoopInv, LogMove, NEW e \in Execs,
         NEW status \in {"waiting", "active", "rejected", "completed", "failed",
                         "canceled", "outcome_unknown"},
         SetExec(e, status), execs[e] \in {"absent", "waiting", "active"},
         execs[e] = "active" /\ status # "completed" => ~HasResult(e),
         status = "completed" => Announced(log', e),
         \A s \in DOMAIN log' : s \in DOMAIN log \/ log'[s].kind # "tool.result"
  PROVE  ExecsMove
  <1>1. LoopTypeOK /\ ExecInv
    BY DEF LoopInv
  <1>2. /\ DOMAIN log \subseteq DOMAIN log' /\ \A s \in DOMAIN log : log'[s] = log[s]
        /\ \A s \in DOMAIN log : log[s] \in Event
    BY <1>1, LogGrows DEF LoopTypeOK
  <1>3. \A o : Announced(log, o) => Announced(log', o)
    BY <1>2 DEF Announced
  <1>4. /\ execs' \in [Execs -> {"absent", "waiting", "active", "rejected", "completed",
                                 "failed", "canceled", "outcome_unknown"}]
        /\ execs'[e] = status /\ \A o \in Execs : o # e => execs'[o] = execs[o]
    BY <1>1 DEF SetExec, LoopTypeOK
  <1>5. ASSUME NEW s \in DOMAIN log', log'[s].kind = "tool.result"
        PROVE  log'[s].exec \in Execs /\ execs'[log'[s].exec] \in {"active", "completed"}
    <2>1. s \in DOMAIN log /\ log'[s] = log[s] /\ log[s].kind = "tool.result"
      BY <1>2, <1>5
    <2>2. log[s].exec \in Execs /\ execs[log[s].exec] \in {"active", "completed"}
      BY <1>1, <2>1 DEF ExecInv
    <2>3. CASE log[s].exec = e
      <3>1. log[s] \in Event /\ log[s].kind = "tool.result" /\ log[s].exec = e
        BY <1>2, <2>1, <2>3
      <3>2. log[s] = About("tool.result", e)
        BY <3>1 DEF About, Event
      <3>3. HasResult(e)
        BY <2>1, <3>2 DEF HasResult
      <3> QED
        BY <1>4, <2>1, <2>2, <2>3, <3>3
    <2> QED
      BY <1>4, <2>1, <2>2, <2>3
  <1>6. ASSUME NEW o \in Execs, execs'[o] = "completed" PROVE Announced(log', o)
    BY <1>1, <1>3, <1>4, <1>6 DEF ExecInv
  <1>7. ExecInv'
    BY <1>5, <1>6 DEF ExecInv
  <1> QED
    BY <1>4, <1>7 DEF ExecsMove

LEMMA ExecSide ==
  ASSUME LoopInv, JobsMove, LogMove, ExecsMove, UNCHANGED <<session, runner, call, seen, stray>>
  PROVE  LoopStep
  <1>1. SessionMove /\ seen' \subseteq 1 .. Len(log')
    BY Stays
  <1> QED
    BY <1>1, RunnersStay, CallsStay, Assembled

LEMMA QuietExecKeeps ==
  ASSUME LoopInv, NEW e \in Execs,
         RequestApproval(e) \/ Approve(e) \/ EndExecSilently(e)
  PROVE  LoopStep
  <1>1. JobsMove /\ LogMove /\ log' = log
    BY Stays DEF RequestApproval, Approve, EndExecSilently
  <1>2. ExecsMove
    BY <1>1, ExecsChange DEF RequestApproval, Approve, EndExecSilently
  <1> QED
    BY <1>1, <1>2, ExecSide DEF RequestApproval, Approve, EndExecSilently

LEMMA LoudExecKeeps ==
  ASSUME LoopInv, NEW e \in Execs,
         Reject(e) \/ RecordResult(e) \/ CompleteExec(e) \/ FailExec(e)
  PROVE  LoopStep
  <1>1. LoopTypeOK /\ QueueInv /\ BoundInv /\ CursorInv /\ ExecInv
    BY DEF LoopInv
  <1>2. ASSUME NEW event \in Event, NEW x, append_event(event, x), ExecsMove,
               UNCHANGED <<session, runner, call, seen, stray>>
        PROVE  LoopStep
    <2>1. JobsMove /\ LogMove
      BY <1>1, <1>2, AppendMoves
    <2> QED
      BY <1>2, <2>1, ExecSide
  <1>3. CASE Reject(e)
    <2>1. Plain("input") \in Event /\ Plain("input").kind = "input"
      BY EventTypes DEF Kinds
    <2>2. /\ LogMove /\ DOMAIN log' = DOMAIN log \cup {Len(log')}
          /\ log'[Len(log')] = Plain("input")
      BY <1>1, <1>3, <2>1, AppendMoves DEF Reject
    <2>3. ExecsMove
      BY <1>3, <2>1, <2>2, ExecsChange DEF Reject
    <2> QED
      BY <1>2, <1>3, <2>1, <2>3 DEF Reject
  <1>4. CASE FailExec(e)
    <2> DEFINE event == About("execution.failed", e)
    <2>1. event \in Event /\ event.kind = "execution.failed"
      BY EventTypes DEF Kinds
    <2>2. /\ LogMove /\ DOMAIN log' = DOMAIN log \cup {Len(log')}
          /\ log'[Len(log')] = event
      BY <1>1, <1>4, <2>1, AppendMoves DEF FailExec
    <2>3. ExecsMove
      BY <1>4, <2>1, <2>2, ExecsChange DEF FailExec
    <2> QED
      BY <1>2, <1>4, <2>1, <2>3 DEF FailExec
  <1>5. CASE CompleteExec(e)
    <2> DEFINE event == About("execution.completed", e)
    <2>1. event \in Event /\ event.kind = "execution.completed"
      BY EventTypes DEF Kinds
    <2>2. /\ LogMove /\ DOMAIN log' = DOMAIN log \cup {Len(log')}
          /\ log'[Len(log')] = event
      BY <1>1, <1>5, <2>1, AppendMoves DEF CompleteExec
    <2>3. Announced(log', e)
      BY <2>2 DEF Announced
    <2>4. ExecsMove
      BY <1>5, <2>1, <2>2, <2>3, ExecsChange DEF CompleteExec
    <2> QED
      BY <1>2, <1>5, <2>1, <2>4 DEF CompleteExec
  <1>6. CASE RecordResult(e)
    <2> DEFINE event == About("tool.result", e)
    <2>1. event \in Event /\ event.kind = "tool.result" /\ event.exec = e
      BY EventTypes DEF Kinds
    <2>2. /\ LogMove /\ DOMAIN log' = DOMAIN log \cup {Len(log')}
          /\ \A s \in DOMAIN log : log'[s] = log[s]
          /\ log'[Len(log')] = event
      BY <1>1, <1>6, <2>1, AppendMoves DEF RecordResult
    <2>3. execs' = execs /\ execs[e] = "active"
      BY <1>6 DEF RecordResult
    <2>4. \A o : Announced(log, o) => Announced(log', o)
      BY <2>2 DEF Announced
    <2>5. ExecInv'
      <3>1. \A o \in Execs : execs'[o] = "completed" => Announced(log', o)
        BY <1>1, <2>3, <2>4 DEF ExecInv
      <3>2. ASSUME NEW s \in DOMAIN log', log'[s].kind = "tool.result"
            PROVE  log'[s].exec \in Execs /\ execs'[log'[s].exec] \in {"active", "completed"}
        BY <1>1, <2>1, <2>2, <2>3, <3>2 DEF ExecInv
      <3> QED
        BY <3>1, <3>2 DEF ExecInv
    <2>6. ExecsMove
      BY <1>1, <2>3, <2>5 DEF ExecsMove, LoopTypeOK
    <2> QED
      BY <1>2, <1>6, <2>1, <2>6 DEF RecordResult
  <1> QED
    BY <1>3, <1>4, <1>5, <1>6

LEMMA RunnerChange ==
  ASSUME LoopInv, JobsMove, LogMove, SessionMove, NEW r \in Runners, NEW new \in Runner,
         runner' = [runner EXCEPT ![r] = new], new.end <= Len(log'),
         new.pc # "idle" => new.on \in DOMAIN loops,
         session' = "open" => /\ new.pc = "settle" => new.outcome \in {"ok", "error"}
                              /\ new.pc = "ack" => new.outcome = "ok"
  PROVE  RunnersMove
  <1>1. LoopTypeOK /\ \A o \in Runners : RunnerOK(o)
    BY DEF LoopInv
  <1>2. /\ runner' \in [Runners -> Runner] /\ runner'[r] = new
        /\ \A o \in Runners : o # r => runner'[o] = runner[o]
    BY <1>1 DEF LoopTypeOK
  <1>3. DOMAIN loops \subseteq DOMAIN loops'
    BY <1>1, JobsGrow
  <1>4. RunnerOK(r)'
    BY <1>2, <1>3 DEF RunnerOK
  <1>5. \A o \in Runners : o # r => RunnerOK(o)'
    BY <1>1, <1>2, RunnerFrame DEF SessionMove
  <1> QED
    BY <1>2, <1>4, <1>5 DEF RunnersMove

LEMMA GoOn ==
  ASSUME LoopInv, JobsMove, LogMove, SessionMove, NEW r \in Runners, runner[r].pc # "idle",
         NEW pc \in {"turn", "settle", "fail_session", "ack"},
         NEW outcome \in {"none", "ok", "error", "terminal"}, Go(r, pc, outcome),
         session' = "open" => /\ pc = "settle" => outcome \in {"ok", "error"}
                              /\ pc = "ack" => outcome = "ok"
  PROVE  RunnersMove
  <1>1. LoopTypeOK /\ RunnerOK(r)
    BY DEF LoopInv
  <1>2. runner[r] \in Runner /\ runner \in [Runners -> Runner]
    BY <1>1 DEF LoopTypeOK
  <1>3. PICK new : new = [runner[r] EXCEPT !.pc = pc, !.outcome = outcome]
    OBVIOUS
  <1>4. /\ new \in Runner /\ new.pc = pc /\ new.outcome = outcome
        /\ new.on = runner[r].on /\ new.end = runner[r].end /\ runner[r].end \in Nat
    BY <1>2, <1>3 DEF Runner
  <1>5. runner' = [runner EXCEPT ![r] = new]
    BY <1>2, <1>3 DEF Go, Runner
  <1>6. Len(log) \in Nat /\ Len(log') \in Nat /\ Len(log) <= Len(log')
    BY <1>1, LogGrows
  <1>7. new.end <= Len(log') /\ new.on \in DOMAIN loops
    BY <1>1, <1>4, <1>6 DEF RunnerOK
  <1> QED
    BY <1>4, <1>5, <1>7, RunnerChange

LEMMA DropIt ==
  ASSUME LoopInv, JobsMove, LogMove, SessionMove, NEW r \in Runners, Drop(r)
  PROVE  RunnersMove
  <1>1. LoopTypeOK
    BY DEF LoopInv
  <1>2. IdleRunner \in Runner /\ IdleRunner.pc = "idle" /\ IdleRunner.end = 0
    BY DEF IdleRunner, Runner
  <1>3. Len(log') \in Nat
    BY <1>1, LogGrows
  <1>4. IdleRunner.end <= Len(log')
    BY <1>2, <1>3
  <1> QED
    BY <1>2, <1>4, RunnerChange DEF Drop

LEMMA RunnerSide ==
  ASSUME LoopInv, JobsMove, LogMove, SessionMove, RunnersMove, execs' = execs, call' = call,
         \A s \in DOMAIN log' : s \in DOMAIN log \/ log'[s].kind # "tool.result",
         seen' \subseteq 1 .. Len(log')
  PROVE  LoopStep
  BY ExecsStay, CallsStay, Assembled

LEMMA ExpiryKeeps ==
  ASSUME LoopInv, NEW i \in DOMAIN loops, LoopLeaseExpires(i)
  PROVE  LoopStep
  <1>1. JobsMove
    BY ExpiryShape DEF LoopInv
  <1>2. LogMove /\ SessionMove /\ seen' \subseteq 1 .. Len(log')
    BY Stays DEF LoopLeaseExpires
  <1>3. RunnersMove
    BY <1>1, <1>2, RunnersStay DEF LoopLeaseExpires
  <1> QED
    BY <1>1, <1>2, <1>3, RunnerSide DEF LoopLeaseExpires

LEMMA StartKeeps ==
  ASSUME LoopInv, NEW r \in Runners, NEW i \in DOMAIN loops, StartJob(r, i)
  PROVE  LoopStep
  <1>1. LoopTypeOK /\ BoundInv
    BY DEF LoopInv
  <1>2. JobsMove
    BY <1>1, StartShape DEF StartJob, Names
  <1>3. LogMove /\ SessionMove /\ seen' \subseteq 1 .. Len(log')
    BY Stays DEF StartJob
  <1>4. loops[i] \in LoopJob
    BY <1>1 DEF LoopTypeOK
  <1>5. /\ i \in Nat /\ loops[i].start \in Nat /\ loops[i].end \in Nat
        /\ loops[i].starts + 1 \in Nat
    BY <1>1, <1>4 DEF LoopTypeOK, LoopJob
  <1>6. PICK new : new = [pc |-> IF session = "open" THEN "turn" ELSE "settle",
                          on |-> i, start |-> loops[i].start, end |-> loops[i].end,
                          starts |-> loops[i].starts + 1,
                          outcome |-> IF session = "open" THEN "none"
                                      ELSE IF TaskCompletedAfter(loops[i].end) THEN "ok"
                                      ELSE "terminal"]
    OBVIOUS
  <1>7. /\ new \in Runner /\ new.on = i /\ new.end = loops[i].end
        /\ session = "open" => new.pc = "turn"
    BY <1>5, <1>6 DEF Runner
  <1>8. new.end <= Len(log')
    BY <1>1, <1>7 DEF StartJob, BoundInv
  <1>9. RunnersMove
    BY <1>2, <1>3, <1>6, <1>7, <1>8, RunnerChange DEF StartJob
  <1> QED
    BY <1>2, <1>3, <1>9, RunnerSide DEF StartJob

LEMMA WindowBounds ==
  ASSUME LoopInv, NEW r \in Runners
  PROVE  Window(r) \subseteq 1 .. Len(log)
  <1>1. LoopTypeOK /\ RunnerOK(r)
    BY DEF LoopInv
  <1>2. runner[r] \in Runner /\ Len(log) \in Nat
    BY <1>1 DEF LoopTypeOK
  <1>3. runner[r].start \in Nat /\ runner[r].end \in Nat /\ runner[r].end <= Len(log)
    BY <1>1, <1>2 DEF RunnerOK, Runner
  <1> QED
    BY <1>2, <1>3 DEF Window

LEMMA FinishTurnKeeps ==
  ASSUME LoopInv, NEW r \in Runners, FinishTurn(r)
  PROVE  LoopStep
  <1>1. LoopTypeOK
    BY DEF LoopInv
  <1>2. JobsMove
    BY Stays DEF FinishTurn
  <1>3. /\ LogMove
        /\ \A s \in DOMAIN log' : s \in DOMAIN log \/ log'[s].kind # "tool.result"
    <2>1. CASE log' = log
      BY <2>1, Stays
    <2>2. CASE log' = Append(log, Plain("complete_task"))
      <3>1. Plain("complete_task") \in Event /\ Plain("complete_task").kind = "complete_task"
        BY EventTypes DEF Kinds
      <3>2. /\ Len(log') = Len(log) + 1 /\ log' \in Seq(Event)
            /\ \A s \in 1 .. Len(log) : log'[s] = log[s]
            /\ log'[Len(log) + 1] = Plain("complete_task")
        BY <1>1, <2>2, <3>1, AppendProperties DEF LoopTypeOK
      <3>3. DOMAIN log' = DOMAIN log \cup {Len(log) + 1}
        BY <1>1, <3>2 DEF LoopTypeOK
      <3> QED
        BY <2>2, <3>1, <3>2, <3>3 DEF LogMove
    <2> QED
      BY <2>1, <2>2 DEF FinishTurn
  <1>4. SessionMove
    BY <1>1 DEF FinishTurn, SessionMove, LoopTypeOK
  <1>5. seen' \subseteq 1 .. Len(log')
    <2>1. seen' = seen \/ seen' = seen \cup Window(r)
      BY DEF FinishTurn
    <2>2. seen \cup Window(r) \subseteq 1 .. Len(log)
      BY <1>1, WindowBounds DEF LoopTypeOK
    <2>3. Len(log) \in Nat /\ Len(log') \in Nat /\ Len(log) <= Len(log')
      BY <1>1, <1>3, LogGrows
    <2> QED
      BY <2>1, <2>2, <2>3
  <1>6. RunnersMove
    <2>1. \E outcome \in {"ok", "error", "terminal"} :
             Go(r, "settle", outcome) /\ (outcome = "terminal" => session' # "open")
      BY DEF FinishTurn
    <2> QED
      BY <1>2, <1>3, <1>4, <2>1, GoOn DEF FinishTurn
  <1> QED
    BY <1>2, <1>3, <1>4, <1>5, <1>6, RunnerSide DEF FinishTurn

LEMMA CompleteTaskKeeps ==
  ASSUME LoopInv, NEW r \in Runners, NEW kind \in {"complete_task", "blocked"},
         CompleteTask(r, kind)
  PROVE  LoopStep
  <1>1. LoopTypeOK /\ QueueInv /\ BoundInv /\ CursorInv
    BY DEF LoopInv
  <1>2. Plain(kind) \in Event /\ Plain(kind).kind # "tool.result"
    BY EventTypes DEF Kinds
  <1>3. /\ JobsMove /\ LogMove
        /\ Len(log') = Len(log) + 1 /\ DOMAIN log' = DOMAIN log \cup {Len(log')}
        /\ log'[Len(log')] = Plain(kind)
    BY <1>1, <1>2, AppendMoves DEF CompleteTask
  <1>4. SessionMove
    BY <1>1 DEF CompleteTask, SessionMove, LoopTypeOK
  <1>5. seen' \subseteq 1 .. Len(log')
    <2>1. seen' \subseteq 1 .. Len(log)
      BY <1>1, WindowBounds DEF CompleteTask, LoopTypeOK
    <2>2. Len(log) \in Nat
      BY <1>1 DEF LoopTypeOK
    <2> QED
      BY <1>3, <2>1, <2>2
  <1>6. RunnersMove
    BY <1>3, <1>4, GoOn DEF CompleteTask
  <1> QED
    BY <1>2, <1>3, <1>4, <1>5, <1>6, RunnerSide DEF CompleteTask

LEMMA ResumeKeeps ==
  ASSUME LoopInv, NEW r \in Runners, ResumeCompletion(r)
  PROVE  LoopStep
  <1>1. JobsMove /\ LogMove /\ SessionMove /\ seen' \subseteq 1 .. Len(log') /\ log' = log
    BY Stays DEF ResumeCompletion
  <1>2. RunnersMove
    BY <1>1, GoOn DEF ResumeCompletion
  <1> QED
    BY <1>1, <1>2, RunnerSide DEF ResumeCompletion

LEMMA SettleKeeps ==
  ASSUME LoopInv, NEW r \in Runners,
         SettleRenew(r) \/ FailSession(r) \/ Acknowledge(r) \/ RenewLate(r)
         \/ LoseJob(r) \/ CrashRunner(r)
  PROVE  LoopStep
  <1>1. LoopTypeOK /\ RunnerOK(r)
    BY DEF LoopInv
  <1>2. runner[r].pc # "idle" /\ runner[r].on \in DOMAIN loops /\ runner[r] \in Runner
    BY <1>1 DEF RunnerOK, LoopTypeOK,
                SettleRenew, FailSession, Acknowledge, RenewLate, LoseJob, CrashRunner
  <1>3. LogMove /\ log' = log /\ seen' \subseteq 1 .. Len(log') /\ UNCHANGED <<execs, call>>
    BY Stays DEF SettleRenew, FailSession, Acknowledge, RenewLate, LoseJob, CrashRunner
  <1>4. SessionMove
    <2> stray' = stray
      BY DEF SettleRenew, FailSession, Acknowledge, RenewLate, LoseJob, CrashRunner
    <2>1. CASE session' = session
      BY <2>1, Stays
    <2>2. CASE session' = "failed"
      BY <1>1, <2>2 DEF SessionMove, LoopTypeOK
    <2> QED
      BY <2>1, <2>2
         DEF SettleRenew, FailSession, Acknowledge, RenewLate, LoseJob, CrashRunner
  <1>5. JobsMove
    <2>1. CASE loops' = loops
      BY <2>1, Stays
    <2>2. CASE renew_session_loop_job_lease(runner[r].on, WorkerOf[r])
      BY <1>1, <1>2, <2>2, RenewShape
    <2>3. CASE complete_session_loop_job(runner[r].on, WorkerOf[r])
      BY <1>1, <1>2, <2>3, CompleteShape
    <2>4. CASE Acknowledge(r) /\ runner[r].outcome # "ok"
      <3>1. session # "open"
        BY <1>1, <2>4 DEF RunnerOK, Acknowledge
      <3> QED
        BY <1>1, <1>2, <2>4, <3>1, FailShape DEF Acknowledge
    <2> QED
      BY <2>1, <2>2, <2>3, <2>4
         DEF SettleRenew, FailSession, Acknowledge, RenewLate, LoseJob, CrashRunner
  <1>6. RunnersMove
    <2>1. CASE SettleRenew(r)
      <3>1. CASE runner[r].outcome = "error"
        BY <1>2, <1>3, <1>4, <1>5, <2>1, <3>1, GoOn DEF SettleRenew
      <3>2. CASE runner[r].outcome # "error"
        <4>1. runner[r].outcome \in {"none", "ok", "error", "terminal"}
          BY <1>2 DEF Runner
        <4>2. session' = "open" => runner[r].outcome = "ok"
          BY <1>1, <2>1, <3>2 DEF SettleRenew, RunnerOK
        <4> QED
          BY <1>2, <1>3, <1>4, <1>5, <2>1, <3>2, <4>1, <4>2, GoOn DEF SettleRenew
      <3> QED
        BY <3>1, <3>2
    <2>2. CASE FailSession(r)
      BY <1>2, <1>3, <1>4, <1>5, <2>2, GoOn DEF FailSession
    <2>3. CASE Drop(r)
      BY <1>3, <1>4, <1>5, <2>3, DropIt
    <2>4. CASE runner' = runner
      BY <1>3, <1>4, <1>5, <2>4, RunnersStay
    <2> QED
      BY <2>1, <2>2, <2>3, <2>4 DEF Acknowledge, RenewLate, LoseJob, CrashRunner
  <1> QED
    BY <1>3, <1>4, <1>5, <1>6, RunnerSide

LEMMA CallChange ==
  ASSUME LoopInv, JobsMove, LogMove, NEW c \in Callers, NEW new \in Call,
         call' = [call EXCEPT ![c] = new],
         new.end <= Len(log'), new.cursor <= Len(log'),
         new.pc \in {"start", "finish"} => c \in Adapters /\ new.on \in DOMAIN loops',
         Within(new.cursor) \/ new.cursor < new.end
  PROVE  CallsMove
  <1>1. LoopTypeOK /\ \A o \in Callers : CallOK(o)
    BY DEF LoopInv
  <1>2. /\ call' \in [Callers -> Call] /\ call'[c] = new
        /\ \A o \in Callers : o # c => call'[o] = call[o]
    BY <1>1 DEF LoopTypeOK, Callers
  <1>3. PICK n \in Nat : n = new.cursor
    BY DEF Call
  <1>4. Within(n) => Within(n)'
    BY <1>1, WithinGrows
  <1>5. CallOK(c)'
    BY <1>2, <1>3, <1>4 DEF CallOK, Within
  <1>6. \A o \in Callers : o # c => CallOK(o)'
    BY <1>1, <1>2, CallFrame
  <1> QED
    BY <1>2, <1>5, <1>6 DEF CallsMove

LEMMA ReturnIt ==
  ASSUME LoopInv, JobsMove, LogMove, NEW c \in Callers, NEW step \in BOOLEAN,
         Return(c, step)
  PROVE  CallsMove
  <1>1. PICK new : new = [IdleCall EXCEPT !.pc = "done", !.step = step]
    OBVIOUS
  <1>2. /\ new \in Call /\ new.pc = "done" /\ new.end = 0 /\ new.cursor = 0
    BY <1>1 DEF IdleCall, Call
  <1>3. Len(log') \in Nat
    BY LogGrows DEF LoopInv
  <1>4. call' = [call EXCEPT ![c] = new]
    BY <1>1 DEF Return
  <1>5. new.end <= Len(log') /\ new.cursor <= Len(log') /\ Within(new.cursor)
    BY <1>2, <1>3 DEF Within
  <1> QED
    BY <1>2, <1>4, <1>5, CallChange

LEMMA CallSide ==
  ASSUME LoopInv, JobsMove, LogMove, CallsMove, log' = log,
         UNCHANGED <<session, execs, runner, seen, stray>>
  PROVE  LoopStep
  <1>1. SessionMove /\ seen' \subseteq 1 .. Len(log')
    BY Stays
  <1>2. ExecsMove
    BY ExecsStay
  <1> QED
    BY <1>1, <1>2, RunnersStay, Assembled

LEMMA RequestKeeps ==
  ASSUME LoopInv, NEW c \in Callers, RunSession(c) \/ RunAdapter(c)
  PROVE  LoopStep
  <1>1. LoopTypeOK /\ Len(log) \in Nat
    BY DEF LoopInv, LoopTypeOK
  <1>2. CASE RunSession(c)
    <2>1. /\ JobsMove /\ LogMove /\ SessionMove /\ ExecsMove /\ RunnersMove
          /\ seen' \subseteq 1 .. Len(log') /\ Len(log') = Len(log) + 1
      BY <1>2, AppendStep DEF RunSession
    <2>2. PICK new : new = [IdleCall EXCEPT !.pc = "appended", !.end = Len(log) + 1]
      OBVIOUS
    <2>3. PICK n \in Nat : n = Len(log) + 1
      BY <1>1
    <2>4. new = [IdleCall EXCEPT !.pc = "appended", !.end = n]
      BY <2>2, <2>3
    <2>5. new \in Call /\ new.pc = "appended" /\ new.end = n /\ new.cursor = 0
      BY <2>4 DEF IdleCall, Call
    <2>6. new.end <= Len(log') /\ new.cursor <= Len(log') /\ Within(new.cursor)
      BY <1>1, <2>1, <2>3, <2>5 DEF Within
    <2>7. CallsMove
      BY <1>2, <2>1, <2>2, <2>5, <2>6, CallChange DEF RunSession
    <2> QED
      BY <2>1, <2>7, Assembled
  <1>3. CASE RunAdapter(c)
    <2>1. JobsMove /\ LogMove /\ log' = log
      BY <1>3, Stays DEF RunAdapter
    <2>2. PICK new : new = [IdleCall EXCEPT !.pc = "appended", !.end = Len(log), !.step = TRUE]
      OBVIOUS
    <2>3. new \in Call /\ new.pc = "appended" /\ new.end = Len(log) /\ new.cursor = 0
      BY <1>1, <2>2 DEF IdleCall, Call
    <2>4. new.end <= Len(log') /\ new.cursor <= Len(log') /\ Within(new.cursor)
      BY <1>1, <2>1, <2>3 DEF Within
    <2>5. CallsMove
      BY <1>3, <2>1, <2>2, <2>3, <2>4, CallChange DEF RunAdapter
    <2> QED
      BY <1>3, <2>1, <2>5, CallSide DEF RunAdapter
  <1> QED
    BY <1>2, <1>3

LEMMA DropCallKeeps ==
  ASSUME LoopInv, NEW c \in Callers, DropCall(c)
  PROVE  LoopStep
  <1>1. JobsMove /\ LogMove /\ log' = log
    BY Stays DEF DropCall
  <1>2. call[c].step \in BOOLEAN
    BY DEF LoopInv, LoopTypeOK, Callers, Call
  <1>3. CallsMove
    BY <1>1, <1>2, ReturnIt DEF DropCall, GiveUp
  <1> QED
    BY <1>1, <1>3, CallSide DEF DropCall

LEMMA StepLeaseKeeps ==
  ASSUME LoopInv, NEW c \in Callers, StepLeaseExpires(c)
  PROVE  LoopStep
  <1>1. JobsMove /\ LogMove /\ log' = log
    BY Stays DEF StepLeaseExpires
  <1>2. call[c] \in Call /\ call \in [Callers -> Call] /\ CallOK(c)
    BY DEF LoopInv, LoopTypeOK, Callers
  <1>3. PICK new : new = [call[c] EXCEPT !.step = FALSE]
    OBVIOUS
  <1>4. /\ new \in Call /\ new.pc = call[c].pc /\ new.end = call[c].end
        /\ new.cursor = call[c].cursor /\ new.on = call[c].on
    BY <1>2, <1>3 DEF Call
  <1>5. call' = [call EXCEPT ![c] = new]
    BY <1>2, <1>3 DEF StepLeaseExpires, Call
  <1>6. loops' = loops
    BY DEF StepLeaseExpires
  <1>7. CallsMove
    BY <1>1, <1>2, <1>4, <1>5, <1>6, CallChange DEF CallOK
  <1> QED
    BY <1>1, <1>7, CallSide DEF StepLeaseExpires

LEMMA ReadCursorKeeps ==
  ASSUME LoopInv, NEW c \in Callers, ReadCursor(c)
  PROVE  LoopStep
  <1>1. JobsMove /\ LogMove /\ log' = log
    BY Stays DEF ReadCursor
  <1>2. call[c] \in Call /\ call \in [Callers -> Call] /\ CallOK(c) /\ Len(log) \in Nat
    BY DEF LoopInv, LoopTypeOK, Callers
  <1>3. CASE session = "open"
    <2> DEFINE mark == HighWatermark(loops)
    <2>1. PICK n \in Nat, b \in Nat : n = call[c].cursor /\ b = call[c].end
      BY <1>2 DEF Call
    <2>2. /\ mark \in Nat /\ mark <= Len(log)
          /\ \/ mark = 0
             \/ \E i \in DOMAIN loops : mark = loops[i].processed \/ mark = loops[i].end
      BY MarkOf DEF LoopInv
    <2>3. Within(mark)
      <3>1. \A i \in DOMAIN loops : Within(loops[i].processed) /\ loops[i].end \in Nat
        <4>1. \A i \in DOMAIN loops : loops[i] \in LoopJob
          BY DEF LoopInv, LoopTypeOK
        <4> QED
          BY <4>1 DEF LoopInv, CursorInv, LoopJob
      <3> QED
        BY <2>2, <3>1 DEF Within
    <2>4. PICK m \in Nat : m = (IF mark > 0 THEN mark ELSE Max({n, b - 1}))
      BY <2>2, MaxOfTwo
    <2>5. b <= Len(log) /\ n <= Len(log) /\ (Within(n) \/ n < b)
      BY <1>2, <2>1 DEF CallOK
    <2>6. m <= Len(log) /\ (Within(m) \/ m < b)
      BY <1>2, <2>2, <2>3, <2>4, <2>5, MaxOfTwo
    <2>7. PICK new : new = [call[c] EXCEPT !.pc = "cursor", !.cursor = m]
      OBVIOUS
    <2>8. new \in Call /\ new.pc = "cursor" /\ new.cursor = m /\ new.end = b
      BY <1>2, <2>1, <2>7 DEF Call
    <2>9. call' = [call EXCEPT ![c].pc = "cursor", ![c].cursor = m]
      BY <1>3, <2>1, <2>4 DEF ReadCursor
    <2>10. call' = [call EXCEPT ![c] = new]
      BY <1>2, <2>7, <2>9 DEF Call
    <2>11. CallsMove
      BY <1>1, <2>5, <2>6, <2>8, <2>10, CallChange
    <2> QED
      BY <1>1, <2>11, CallSide DEF ReadCursor
  <1>4. CASE session # "open"
    <2>1. call[c].step \in BOOLEAN
      BY <1>2 DEF Call
    <2>2. CallsMove
      BY <1>1, <1>4, <2>1, ReturnIt DEF ReadCursor, GiveUp
    <2> QED
      BY <1>1, <2>2, CallSide DEF ReadCursor
  <1> QED
    BY <1>3, <1>4

LEMMA EnqueueMoves ==
  ASSUME LoopInv, NEW c \in Callers, EnqueueJob(c)
  PROVE  JobsMove /\ LogMove /\ \E job \in LoopJob : Enqueues(job)
  <1>1. LogMove /\ log' = log
    BY Stays DEF EnqueueJob
  <1>2. call[c] \in Call /\ CallOK(c)
    BY DEF LoopInv, LoopTypeOK, Callers
  <1>3. PICK n \in Nat, b \in Nat : n = call[c].cursor /\ b = call[c].end
    BY <1>2 DEF Call
  <1>4. b <= Len(log) /\ n <= Len(log) /\ (Within(n) \/ n < b)
    BY <1>2, <1>3 DEF CallOK
  <1>5. PICK a \in Nat : a = IF n + 1 <= b THEN n + 1 ELSE 0
    OBVIOUS
  <1>6. loops' = MergeDirect(loops, a, b, n)
    BY <1>3, <1>5 DEF EnqueueJob
  <1>7. \E job \in LoopJob : Enqueues(job)
    BY <1>1, <1>4, <1>6, DirectShape DEF LoopInv
  <1> QED
    BY <1>1, <1>7 DEF JobsMove

LEMMA EnqueueKeeps ==
  ASSUME LoopInv, NEW c \in Callers, EnqueueJob(c)
  PROVE  LoopStep
  <1>1. JobsMove /\ LogMove /\ log' = log
    BY EnqueueMoves DEF EnqueueJob
  <1>2. call[c] \in Call /\ call \in [Callers -> Call] /\ CallOK(c)
    BY DEF LoopInv, LoopTypeOK, Callers
  <1>3. CASE c \in Adapters
    <2>1. loops' \in Seq(LoopJob) /\ QueueInv'
      BY <1>1, JobsGrow, QueueKept DEF LoopInv
    <2>2. QueuedJobs(loops') # {}
      <3>1. PICK job \in LoopJob : Enqueues(job)
        BY EnqueueMoves
      <3>2. LoopTypeOK /\ Len(loops) \in Nat /\ (loops # <<>> => Len(loops) \in DOMAIN loops)
        BY EmptySeq DEF LoopInv, LoopTypeOK
      <3>3. \E i \in DOMAIN loops' : loops'[i].status = "queued"
        <4>1. CASE loops' = Append(loops, job)
          <5>1. Len(loops) + 1 \in DOMAIN loops' /\ loops'[Len(loops) + 1] = job
            BY <3>2, <4>1, AddJob
          <5> QED
            BY <3>1, <5>1 DEF Enqueues
        <4>2. CASE loops # <<>> /\ loops' = [loops EXCEPT ![Len(loops)] = job]
          <5>1. Len(loops) \in DOMAIN loops' /\ loops'[Len(loops)] = job
            BY <3>2, <4>2, Rewrite
          <5> QED
            BY <3>1, <5>1 DEF Enqueues
        <4> QED
          BY <3>1, <4>1, <4>2 DEF Enqueues
      <3> QED
        BY <3>3 DEF QueuedJobs
    <2>3. PICK m \in DOMAIN loops' : m = Max(QueuedJobs(loops'))
      BY <2>1, <2>2, Waiting DEF QueueInv
    <2>4. m \in Nat
      BY <2>1
    <2>5. PICK new : new = [call[c] EXCEPT !.pc = "start", !.on = m]
      OBVIOUS
    <2>6. /\ new \in Call /\ new.pc = "start" /\ new.on = m
          /\ new.end = call[c].end /\ new.cursor = call[c].cursor
      BY <1>2, <2>4, <2>5 DEF Call
    <2>7. call' = [call EXCEPT ![c].pc = "start", ![c].on = m]
      BY <1>3, <2>3 DEF EnqueueJob
    <2>8. call' = [call EXCEPT ![c] = new]
      BY <1>2, <2>5, <2>7 DEF Call
    <2>9. CallsMove
      BY <1>1, <1>2, <1>3, <2>3, <2>6, <2>8, CallChange DEF CallOK
    <2> QED
      BY <1>1, <2>9, CallSide DEF EnqueueJob
  <1>4. CASE c \notin Adapters
    <2>1. CallsMove
      BY <1>1, <1>4, ReturnIt DEF EnqueueJob
    <2> QED
      BY <1>1, <2>1, CallSide DEF EnqueueJob
  <1> QED
    BY <1>3, <1>4

LEMMA AdapterKeeps ==
  ASSUME LoopInv, NEW c \in Callers, AdapterStart(c) \/ AdapterFinish(c)
  PROVE  LoopStep
  <1>1. LogMove /\ log' = log /\ UNCHANGED <<session, execs, runner, seen, stray>>
    BY Stays DEF AdapterStart, AdapterFinish
  <1>2. call[c] \in Call /\ call \in [Callers -> Call] /\ CallOK(c) /\ LoopTypeOK
    BY DEF LoopInv, LoopTypeOK, Callers
  <1>3. c \in Adapters /\ call[c].on \in DOMAIN loops
    BY <1>2 DEF CallOK, AdapterStart, AdapterFinish
  <1>4. CASE AdapterStart(c) /\ CanStart(call[c].on, c)
    <2>1. JobsMove
      BY <1>2, <1>3, <1>4, StartShape DEF AdapterStart, Names
    <2>2. PICK new : new = [call[c] EXCEPT !.pc = "finish"]
      OBVIOUS
    <2>3. /\ new \in Call /\ new.pc = "finish" /\ new.on = call[c].on
          /\ new.end = call[c].end /\ new.cursor = call[c].cursor
      BY <1>2, <2>2 DEF Call
    <2>4. call' = [call EXCEPT ![c] = new]
      BY <1>2, <1>4, <2>2 DEF AdapterStart, Call
    <2>5. DOMAIN loops \subseteq DOMAIN loops'
      BY <1>2, <2>1, JobsGrow
    <2>6. CallsMove
      BY <1>1, <1>2, <1>3, <2>1, <2>3, <2>4, <2>5, CallChange DEF CallOK
    <2> QED
      BY <1>1, <2>1, <2>6, CallSide
  <1>5. CASE AdapterStart(c) /\ ~CanStart(call[c].on, c)
    <2>1. JobsMove
      BY <1>5, Stays DEF AdapterStart
    <2>2. call[c].step \in BOOLEAN
      BY <1>2 DEF Call
    <2>3. CallsMove
      BY <1>1, <1>5, <2>1, <2>2, ReturnIt DEF AdapterStart, GiveUp
    <2> QED
      BY <1>1, <2>1, <2>3, CallSide
  <1>6. CASE AdapterFinish(c)
    <2>1. JobsMove
      BY <1>2, <1>3, <1>6, CompleteShape DEF AdapterFinish
    <2>2. CallsMove
      BY <1>1, <1>6, <2>1, ReturnIt DEF AdapterFinish
    <2> QED
      BY <1>1, <2>1, <2>2, CallSide
  <1> QED
    BY <1>4, <1>5, <1>6

LEMMA LoopStart ==
  LoopInit => LoopInv
  <1> SUFFICES ASSUME LoopInit PROVE LoopInv
    OBVIOUS
  <1> USE DEF LoopInit
  <1>1. LoopTypeOK
    <2>1. IdleRunner \in Runner /\ IdleCall \in Call
      BY DEF IdleRunner, Runner, IdleCall, Call
    <2>2. log \in Seq(Event) /\ loops \in Seq(LoopJob)
      BY EmptySeq
    <2> QED
      BY <2>1, <2>2 DEF LoopTypeOK
  <1>2. DOMAIN loops = {} /\ DOMAIN log = {} /\ Len(log) = 0
    BY EmptySeq
  <1>3. QueueInv /\ BoundInv /\ ExecInv /\ FailureInv /\ CursorInv /\ HiddenResultStaysPending
    BY <1>2 DEF QueueInv, BoundInv, ExecInv, FailureInv, CursorInv, HiddenResultStaysPending
  <1>4. \A r \in Runners : RunnerOK(r)
    BY <1>2 DEF RunnerOK, IdleRunner
  <1>5. \A c \in Callers : CallOK(c)
    BY <1>2 DEF CallOK, IdleCall, Within, Callers
  <1> QED
    BY <1>1, <1>3, <1>4, <1>5 DEF LoopInv

LEMMA LoopMoves ==
  ASSUME LoopInv, [LoopNext]_loopVars
  PROVE  LoopStep
  <1>1. CASE UNCHANGED loopVars
    <2>1. /\ log' = log /\ session' = session /\ execs' = execs /\ loops' = loops
          /\ runner' = runner /\ call' = call /\ seen' = seen /\ stray' = stray
      BY <1>1 DEF loopVars
    <2>2. JobsMove /\ LogMove /\ SessionMove /\ seen' \subseteq 1 .. Len(log')
      BY <2>1, Stays
    <2> QED
      BY <2>1, <2>2, RunnersStay, RunnerSide
  <1>2. CASE AppendInput \/ AppendNote \/ Terminate
    BY <1>2, AppendKeeps, TerminateKeeps
  <1>3. ASSUME NEW e \in Execs, RequestApproval(e) \/ ExecStep(e) PROVE LoopStep
    BY <1>3, QuietExecKeeps, LoudExecKeeps DEF ExecStep
  <1>4. ASSUME NEW i \in DOMAIN loops, LoopLeaseExpires(i) PROVE LoopStep
    BY <1>4, ExpiryKeeps
  <1>5. ASSUME NEW r \in Runners, NEW i \in DOMAIN loops, StartJob(r, i) PROVE LoopStep
    BY <1>5, StartKeeps
  <1>6. ASSUME NEW r \in Runners, RunnerStep(r) \/ RenewLate(r) \/ CrashRunner(r)
        PROVE  LoopStep
    BY <1>6, FinishTurnKeeps, CompleteTaskKeeps, ResumeKeeps, SettleKeeps DEF RunnerStep
  <1>7. ASSUME NEW c \in Callers,
               RunSession(c) \/ RunAdapter(c) \/ CallStep(c) \/ DropCall(c)
               \/ StepLeaseExpires(c)
        PROVE  LoopStep
    BY <1>7, RequestKeeps, ReadCursorKeeps, EnqueueKeeps, AdapterKeeps, DropCallKeeps,
       StepLeaseKeeps DEF CallStep
  <1> QED
    BY <1>1, <1>2, <1>3, <1>4, <1>5, <1>6, <1>7 DEF LoopNext, Callers

\* The invariant of the session loop holds in every reachable state, for any
\* callers.
THEOREM LoopInvariant ==
  LoopSpec => []LoopInv
  <1>1. LoopInv /\ [LoopNext]_loopVars => LoopInv'
    BY LoopMoves DEF LoopStep
  <1> QED
    BY <1>1, LoopStart, PTL DEF LoopSpec

\* Every variable of the session loop keeps its type: the trigger and the
\* direct callers write jobs with windows of natural numbers only, although
\* they subtract, and a turn only shows the model events of the log.
THEOREM LoopTypeCorrect ==
  LoopSpec => []LoopTypeOK
  <1>1. LoopInv => LoopTypeOK
    BY DEF LoopInv
  <1> QED
    BY <1>1, LoopInvariant, PTL

\* One job of the session runs and one waits, whoever starts and enqueues.
THEOREM OneRunsOneWaitsHolds ==
  LoopSpec => []OneRunsOneWaits
  <1>1. LoopInv => OneRunsOneWaits
    <2> SUFFICES ASSUME LoopInv, NEW i \in DOMAIN loops, NEW k \in DOMAIN loops,
                        i # k, loops[i].status = loops[k].status
                 PROVE  loops[i].status \in {"completed", "failed"}
      BY DEF OneRunsOneWaits
    <2>1. loops[i] \in LoopJob
      BY DEF LoopInv, LoopTypeOK
    <2>2. loops[i].status \in {"queued", "running", "completed", "failed"}
      BY <2>1 DEF LoopJob
    <2>3. loops[i].status # "queued" /\ loops[i].status # "running"
      BY DEF LoopInv, QueueInv
    <2> QED
      BY <2>2, <2>3
  <1> QED
    BY <1>1, LoopInvariant, PTL

\* A window that was started while the session is open holds no result of an
\* execution that is not settled, for any direct callers.
THEOREM HiddenResultHolds ==
  LoopSpec => []HiddenResultStaysPending
  <1>1. LoopInv => HiddenResultStaysPending
    BY DEF LoopInv
  <1> QED
    BY <1>1, LoopInvariant, PTL

\* The cursor of an open session never moves back.
THEOREM CursorIsMonotoneHolds ==
  LoopSpec => CursorIsMonotone
  <1>1. ASSUME LoopInv, [LoopNext]_loopVars, session' = "open"
        PROVE  HighWatermark(loops') >= HighWatermark(loops)
    <2> DEFINE old == HighWatermark(loops)
               new == HighWatermark(loops')
    <2>1. JobsMove /\ LogMove /\ LoopInv'
      BY <1>1, LoopMoves DEF LoopStep
    <2>2. /\ old \in Nat
          /\ \/ old = 0
             \/ \E i \in DOMAIN loops : old = loops[i].processed \/ old = loops[i].end
      BY <1>1, MarkOf DEF LoopInv
    <2>3. \A i \in DOMAIN loops : loops[i] \in LoopJob
      BY <1>1 DEF LoopInv, LoopTypeOK
    <2>4. old = 0 \/ \E k \in DOMAIN loops : old <= loops[k].end
      <3>1. \A i \in DOMAIN loops : Within(loops[i].processed) /\ loops[i].end \in Nat
        BY <1>1, <2>3 DEF LoopInv, CursorInv, LoopJob
      <3> QED
        BY <2>2, <3>1 DEF Within
    <2>5. /\ loops' \in Seq(LoopJob) /\ Len(log') \in Nat
          /\ \A i \in DOMAIN loops' :
                loops'[i].end <= Len(log') /\ loops'[i].processed <= Len(log')
      BY <2>1 DEF LoopInv, LoopTypeOK, BoundInv
    <2>6. /\ new \in Nat
          /\ \A i \in DOMAIN loops' :
                /\ loops'[i].processed <= new
                /\ loops'[i].status \in {"queued", "running"} => loops'[i].end <= new
      BY <2>5, MarkIn
    <2>7. CASE old = 0
      BY <2>6, <2>7
    <2>8. CASE \E k \in DOMAIN loops : old <= loops[k].end
      <3>1. PICK k \in DOMAIN loops : old <= loops[k].end
        BY <2>8
      <3>2. k \in DOMAIN loops' /\ loops[k].end <= loops'[k].end
        BY <1>1, <2>1, JobsGrow DEF LoopInv
      <3>3. loops'[k] \in LoopJob
        BY <2>5, <3>2
      <3>4. /\ loops[k].end \in Nat /\ loops'[k].end \in Nat /\ loops'[k].processed \in Nat
            /\ loops'[k].status \in {"queued", "running", "completed", "failed"}
        BY <2>3, <3>3 DEF LoopJob
      <3>5. loops'[k].status # "failed"
        BY <1>1, <2>1, <3>2 DEF LoopInv, FailureInv
      <3>6. loops'[k].status = "completed" => loops'[k].end <= loops'[k].processed
        BY <2>1, <3>2 DEF LoopInv, CursorInv
      <3>7. loops'[k].end <= new
        BY <2>6, <3>2, <3>4, <3>5, <3>6
      <3> QED
        BY <2>2, <2>6, <3>1, <3>2, <3>4, <3>7
    <2> QED
      BY <2>4, <2>7, <2>8
  <1>2. LoopInv /\ [LoopNext]_loopVars =>
           [session' = "open" => HighWatermark(loops') >= HighWatermark(loops)]_loopVars
    BY <1>1
  <1> QED
    BY <1>2, LoopInvariant, PTL DEF LoopSpec, CursorIsMonotone
-----------------------------------------------------------------------------
(* Who starts and who settles a job *)

Calm ==
    \/ loops' = loops
    \/ \E job \in LoopJob : Enqueues(job)
    \/ \E i \in DOMAIN loops, l \in {"none", "live", "expired"} : Leases(i, l)

LEMMA Movers ==
  ASSUME LoopInv, [LoopNext]_loopVars
  PROVE  \/ Calm
         \/ \E r \in Runners, i \in DOMAIN loops : StartJob(r, i)
         \/ \E r \in Runners : Acknowledge(r)
         \/ \E c \in Callers : AdapterStart(c) \/ AdapterFinish(c)
  <1>1. LoopTypeOK /\ QueueInv /\ BoundInv /\ CursorInv
    BY DEF LoopInv
  <1>2. ASSUME loops' = loops PROVE Calm
    BY <1>2 DEF Calm
  <1>3. ASSUME NEW kind \in Kinds, NEW x, append_event(Plain(kind), x) PROVE Calm
    BY <1>1, <1>3, EventTypes, AppendMoves DEF Calm
  <1>4. ASSUME NEW kind \in Kinds, NEW e \in Execs, NEW x, append_event(About(kind, e), x)
        PROVE  Calm
    BY <1>1, <1>4, EventTypes, AppendMoves DEF Calm
  <1>5. ASSUME NEW r \in Runners, runner[r].pc # "idle",
               renew_session_loop_job_lease(runner[r].on, WorkerOf[r])
        PROVE  Calm
    <2>1. runner[r].on \in DOMAIN loops
      BY <1>5 DEF LoopInv, RunnerOK
    <2>2. Leases(runner[r].on, "live")
      BY <1>1, <1>5, <2>1, RenewShape
    <2> QED
      BY <2>1, <2>2 DEF Calm
  <1>6. CASE UNCHANGED loopVars
    BY <1>2, <1>6 DEF loopVars
  <1>7. CASE AppendInput \/ AppendNote \/ Terminate
    BY <1>2, <1>3, <1>7 DEF AppendInput, AppendNote, Terminate, Kinds
  <1>8. ASSUME NEW e \in Execs, RequestApproval(e) \/ ExecStep(e) PROVE Calm
    BY <1>2, <1>3, <1>4, <1>8
       DEF RequestApproval, ExecStep, Approve, Reject, RecordResult, CompleteExec,
           FailExec, EndExecSilently, Kinds
  <1>9. ASSUME NEW i \in DOMAIN loops, LoopLeaseExpires(i) PROVE Calm
    BY <1>1, <1>9, ExpiryShape DEF Calm
  <1>10. ASSUME NEW r \in Runners, RunnerStep(r) \/ RenewLate(r) \/ CrashRunner(r)
         PROVE  Calm \/ Acknowledge(r)
    BY <1>2, <1>3, <1>5, <1>10
       DEF RunnerStep, FinishTurn, CompleteTask, ResumeCompletion, SettleRenew, FailSession,
           LoseJob, RenewLate, CrashRunner, Kinds
  <1>11. ASSUME NEW c \in Callers,
                RunSession(c) \/ RunAdapter(c) \/ CallStep(c) \/ DropCall(c)
                \/ StepLeaseExpires(c)
         PROVE  Calm \/ AdapterStart(c) \/ AdapterFinish(c)
    <2>1. CASE RunSession(c) \/ RunAdapter(c) \/ ReadCursor(c) \/ DropCall(c)
               \/ StepLeaseExpires(c)
      BY <1>2, <1>3, <2>1
         DEF RunSession, RunAdapter, ReadCursor, DropCall, StepLeaseExpires, Kinds
    <2>2. CASE EnqueueJob(c)
      BY <2>2, EnqueueMoves DEF Calm
    <2> QED
      BY <1>11, <2>1, <2>2 DEF CallStep
  <1> QED
    BY <1>6, <1>7, <1>8, <1>9, <1>10, <1>11 DEF LoopNext, Callers

\* The steps with which a runner goes on with its job.
EndsTurn(r) ==
    \/ FinishTurn(r) \/ \E kind \in {"complete_task", "blocked"} : CompleteTask(r, kind)
    \/ ResumeCompletion(r)

GoesOn(r) == EndsTurn(r) \/ SettleRenew(r) \/ FailSession(r)

LEMMA RunnerGoes ==
  ASSUME LoopInv, [LoopNext]_loopVars, NEW r \in Runners
  PROVE  \/ runner'[r] = runner[r]
         \/ runner'[r] = IdleRunner
         \/ \E i \in DOMAIN loops : StartJob(r, i)
         \/ GoesOn(r)
  <1>1. runner \in [Runners -> Runner]
    BY DEF LoopInv, LoopTypeOK
  <1>2. CASE runner' = runner
    BY <1>2
  <1>3. ASSUME NEW q \in Runners, NEW i \in DOMAIN loops, StartJob(q, i)
        PROVE  StartJob(r, i) \/ runner'[r] = runner[r]
    BY <1>1, <1>3 DEF StartJob
  <1>4. ASSUME NEW q \in Runners, GoesOn(q) PROVE GoesOn(r) \/ runner'[r] = runner[r]
    <2>1. CASE q = r
      BY <1>4, <2>1
    <2>2. CASE q # r
      <3>1. \E pc, outcome : Go(q, pc, outcome)
        BY <1>4 DEF GoesOn, EndsTurn, FinishTurn, CompleteTask, ResumeCompletion, SettleRenew,
                    FailSession
      <3> QED
        BY <1>1, <2>2, <3>1 DEF Go
    <2> QED
      BY <2>1, <2>2
  <1>5. ASSUME NEW q \in Runners, Drop(q)
        PROVE  runner'[r] = IdleRunner \/ runner'[r] = runner[r]
    BY <1>1, <1>5 DEF Drop
  <1>6. CASE UNCHANGED loopVars
    BY <1>2, <1>6 DEF loopVars
  <1>7. CASE AppendInput \/ AppendNote \/ Terminate
    BY <1>2, <1>7 DEF AppendInput, AppendNote, Terminate
  <1>8. ASSUME NEW e \in Execs, RequestApproval(e) \/ ExecStep(e) PROVE runner' = runner
    BY <1>8 DEF RequestApproval, ExecStep, Approve, Reject, RecordResult, CompleteExec,
                FailExec, EndExecSilently
  <1>9. ASSUME NEW i \in DOMAIN loops, LoopLeaseExpires(i) PROVE runner' = runner
    BY <1>9 DEF LoopLeaseExpires
  <1>10. ASSUME NEW q \in Runners, RunnerStep(q) \/ RenewLate(q) \/ CrashRunner(q)
         PROVE  GoesOn(q) \/ Drop(q) \/ runner' = runner
    BY <1>10 DEF GoesOn, EndsTurn, RunnerStep, Acknowledge, LoseJob, RenewLate, CrashRunner
  <1>11. ASSUME NEW c \in Callers,
                RunSession(c) \/ RunAdapter(c) \/ CallStep(c) \/ DropCall(c)
                \/ StepLeaseExpires(c)
         PROVE  runner' = runner
    BY <1>11 DEF RunSession, RunAdapter, CallStep, ReadCursor, EnqueueJob, AdapterStart,
                 AdapterFinish, DropCall, StepLeaseExpires
  <1> QED
    BY <1>2, <1>3, <1>4, <1>5, <1>6, <1>7, <1>8, <1>9, <1>10, <1>11 DEF LoopNext, Callers

\* A job that does not wait is left alone but for its lease.
LEMMA CalmKeeps ==
  ASSUME LoopTypeOK, Calm, NEW k \in DOMAIN loops,
         loops[k].status # "queued" \/ loops'[k].status # "queued"
  PROVE  /\ loops'[k].status = loops[k].status /\ loops'[k].worker = loops[k].worker
         /\ loops'[k].starts = loops[k].starts
         /\ loops'[k].start = loops[k].start /\ loops'[k].end = loops[k].end
  <1>1. /\ Len(loops) \in Nat /\ DOMAIN loops = 1 .. Len(loops)
        /\ loops # <<>> => Len(loops) \in DOMAIN loops
    BY EmptySeq DEF LoopTypeOK
  <1>2. CASE \E job \in LoopJob : Enqueues(job)
    <2>1. PICK job \in LoopJob : Enqueues(job)
      BY <1>2
    <2>2. CASE loops' = Append(loops, job)
      BY <2>2, AddJob
    <2>3. CASE /\ loops # <<>> /\ loops[Len(loops)].status = "queued"
               /\ loops' = [loops EXCEPT ![Len(loops)] = job]
      <3>1. loops'[k] = IF k = Len(loops) THEN job ELSE loops[k]
        BY <1>1, <2>3, Rewrite
      <3>2. k # Len(loops)
        BY <2>1, <2>3, <3>1 DEF Enqueues
      <3> QED
        BY <3>1, <3>2
    <2> QED
      BY <2>1, <2>2, <2>3 DEF Enqueues
  <1>3. CASE \E i \in DOMAIN loops, l \in {"none", "live", "expired"} : Leases(i, l)
    <2>1. PICK i \in DOMAIN loops, l \in {"none", "live", "expired"} : Leases(i, l)
      BY <1>3
    <2>2. loops'[k] = IF k = i THEN LeasedJob(i, l) ELSE loops[k]
      BY <2>1, Rewrite, LeasedFields DEF Leases
    <2> QED
      BY <2>2, LeasedFields
  <1> QED
    BY <1>2, <1>3 DEF Calm
-----------------------------------------------------------------------------
(* Owners, for workers with names of their own *)

NamesApart ==
    /\ \A r, q \in Runners : WorkerOf[r] = WorkerOf[q] => r = q
    /\ \A r \in Runners : WorkerOf[r] \notin Adapters

\* A runner that owns its job works on the start and the window it claimed.
Holds(r) == runner[r].pc # "idle" /\ OwnsJob(runner[r].on, WorkerOf[r])

Current(r) ==
    LET job == loops[runner[r].on]
    IN /\ runner[r].starts = job.starts
       /\ runner[r].start = job.start /\ runner[r].end = job.end

OwnerInv == \A r \in Runners : Holds(r) => Current(r)

\* A job that a busy runner owns after a step was its own before.
LEMMA OwnedBefore ==
  ASSUME NamesApart, LoopInv, [LoopNext]_loopVars, NEW r \in Runners,
         runner[r].pc # "idle", NEW k \in DOMAIN loops,
         loops'[k].status = "running", loops'[k].worker = WorkerOf[r]
  PROVE  /\ loops[k].status = "running" /\ loops[k].worker = WorkerOf[r]
         /\ loops'[k].starts = loops[k].starts
         /\ loops'[k].start = loops[k].start /\ loops'[k].end = loops[k].end
  <1>1. LoopTypeOK
    BY DEF LoopInv
  <1>2. CASE Calm
    BY <1>1, <1>2, CalmKeeps
  <1>3. CASE loops' = loops
    BY <1>3
  <1>4. ASSUME NEW i \in DOMAIN loops, NEW w \in Names, start_session_loop_job(i, w),
               w # WorkerOf[r]
        PROVE  loops'[k] = loops[k]
    <2>1. loops' = [loops EXCEPT ![i] = StartedJob(i, w)]
      BY <1>1, <1>4, StartShape DEF Starts
    <2>2. loops'[k] = IF k = i THEN StartedJob(i, w) ELSE loops[k]
      BY <1>1, <2>1, Rewrite, StartedFields
    <2>3. StartedJob(i, w).worker = w
      BY <1>1, StartedFields
    <2> QED
      BY <1>4, <2>2, <2>3
  <1>5. ASSUME NEW i \in DOMAIN loops, Completes(i) \/ Fails(i)
        PROVE  loops'[k] = loops[k]
    <2>1. /\ \A j \in DOMAIN loops : j # i => loops'[j] = loops[j]
          /\ loops'[i].status \in {"completed", "failed"}
      BY <1>1, <1>5, Rewrite, CompletedFields, FailedFields DEF Completes, Fails
    <2> QED
      BY <2>1
  <1>6. ASSUME NEW q \in Runners, NEW i \in DOMAIN loops, StartJob(q, i)
        PROVE  loops'[k] = loops[k]
    <2>1. WorkerOf[q] # WorkerOf[r]
      BY <1>6 DEF NamesApart, StartJob
    <2> QED
      BY <1>4, <1>6, <2>1 DEF StartJob, Names
  <1>7. ASSUME NEW q \in Runners, Acknowledge(q) PROVE loops'[k] = loops[k]
    <2>1. runner[q].on \in DOMAIN loops
      BY <1>7 DEF LoopInv, RunnerOK, Acknowledge
    <2>2. runner[q].outcome # "ok" => session # "open"
      BY <1>7 DEF LoopInv, RunnerOK, Acknowledge
    <2>3. Completes(runner[q].on) \/ Fails(runner[q].on)
      BY <1>1, <1>7, <2>1, <2>2, CompleteShape, FailShape DEF Acknowledge
    <2> QED
      BY <1>5, <2>1, <2>3
  <1>8. ASSUME NEW c \in Callers, AdapterStart(c) \/ AdapterFinish(c)
        PROVE  loops'[k] = loops[k]
    <2>1. c \in Adapters /\ call[c].on \in DOMAIN loops
      BY <1>8 DEF LoopInv, CallOK, AdapterStart, AdapterFinish
    <2>2. c # WorkerOf[r]
      BY <2>1 DEF NamesApart
    <2>3. CASE AdapterStart(c)
      BY <1>3, <1>4, <2>1, <2>2, <2>3 DEF AdapterStart, Names
    <2>4. CASE AdapterFinish(c)
      BY <1>1, <1>5, <2>1, <2>4, CompleteShape DEF AdapterFinish
    <2> QED
      BY <1>8, <2>3, <2>4
  <1> QED
    BY <1>2, <1>6, <1>7, <1>8, Movers

LEMMA StartedIsCurrent ==
  ASSUME LoopInv, NEW r \in Runners, NEW i \in DOMAIN loops, StartJob(r, i)
  PROVE  Current(r)' /\ runner'[r].on = i
  <1>1. LoopTypeOK
    BY DEF LoopInv
  <1>2. WorkerOf[r] \in Names
    BY DEF Names
  <1>3. PICK job : job = StartedJob(i, WorkerOf[r])
    OBVIOUS
  <1>4. /\ job \in LoopJob /\ job.starts = loops[i].starts + 1
        /\ job.start = loops[i].start /\ job.end = loops[i].end
    BY <1>1, <1>2, <1>3, StartedFields
  <1>5. loops'[i] = job
    BY <1>1, <1>2, <1>3, <1>4, StartShape, Rewrite DEF StartJob, Starts
  <1>6. /\ runner'[r].on = i /\ runner'[r].starts = loops[i].starts + 1
        /\ runner'[r].start = loops[i].start /\ runner'[r].end = loops[i].end
    BY <1>1 DEF StartJob, LoopTypeOK
  <1> QED
    BY <1>4, <1>5, <1>6 DEF Current

\* A runner that goes on keeps the job and the window it claimed.
LEMMA GoKeeps ==
  ASSUME LoopInv, NEW r \in Runners,
         runner'[r] = runner[r] \/ GoesOn(r)
  PROVE  /\ runner'[r].on = runner[r].on /\ runner'[r].starts = runner[r].starts
         /\ runner'[r].start = runner[r].start /\ runner'[r].end = runner[r].end
         /\ runner'[r].pc # "idle" => runner[r].pc # "idle"
  <1>1. runner[r] \in Runner /\ runner \in [Runners -> Runner]
    BY DEF LoopInv, LoopTypeOK
  <1>2. CASE runner'[r] = runner[r]
    BY <1>2
  <1>3. CASE runner[r].pc # "idle" /\ \E pc, outcome : Go(r, pc, outcome)
    BY <1>1, <1>3 DEF Go, Runner
  <1> QED
    BY <1>2, <1>3 DEF GoesOn, EndsTurn, FinishTurn, CompleteTask, ResumeCompletion, SettleRenew,
                      FailSession

LEMMA OwnerKept ==
  ASSUME NamesApart, LoopInv, OwnerInv, [LoopNext]_loopVars
  PROVE  OwnerInv'
  <1> SUFFICES ASSUME NEW r \in Runners, Holds(r)' PROVE Current(r)'
    BY DEF OwnerInv
  <1>1. CASE \E i \in DOMAIN loops : StartJob(r, i)
    BY <1>1, StartedIsCurrent
  <1>2. CASE runner'[r] = IdleRunner
    BY <1>2 DEF Holds, IdleRunner
  <1>3. CASE runner'[r] = runner[r] \/ GoesOn(r)
    <2>1. /\ runner'[r].on = runner[r].on /\ runner'[r].starts = runner[r].starts
          /\ runner'[r].start = runner[r].start /\ runner'[r].end = runner[r].end
          /\ runner[r].pc # "idle"
      BY <1>3, GoKeeps DEF Holds
    <2> DEFINE k == runner[r].on
    <2>2. k \in DOMAIN loops
      BY <2>1 DEF LoopInv, RunnerOK
    <2>3. loops'[k].status = "running" /\ loops'[k].worker = WorkerOf[r]
      BY <2>1 DEF Holds, OwnsJob
    <2>4. /\ loops[k].status = "running" /\ loops[k].worker = WorkerOf[r]
          /\ loops'[k].starts = loops[k].starts
          /\ loops'[k].start = loops[k].start /\ loops'[k].end = loops[k].end
      BY <2>1, <2>2, <2>3, OwnedBefore
    <2>5. Current(r)
      BY <2>1, <2>4 DEF OwnerInv, Holds, OwnsJob
    <2> QED
      BY <2>1, <2>4, <2>5 DEF Current
  <1> QED
    BY <1>1, <1>2, <1>3, RunnerGoes

LEMMA OwnerInvariant ==
  ASSUME NamesApart
  PROVE  LoopSpec => []OwnerInv
  <1>1. LoopInit => OwnerInv
    BY DEF LoopInit, OwnerInv, Holds, IdleRunner
  <1>2. LoopInv /\ OwnerInv /\ [LoopNext]_loopVars => OwnerInv'
    BY OwnerKept
  <1> QED
    BY <1>1, <1>2, LoopInvariant, PTL DEF LoopSpec

\* Where workers have names of their own, a worker whose job was started again
\* by another one since cannot acknowledge it.
THEOREM StaleOwnerIsFencedHolds ==
  ASSUME NamesApart
  PROVE  LoopSpec => StaleOwnerIsFenced
  <1> DEFINE Fenced == \A r \in Runners :
                LET i == runner[r].on
                IN (runner[r].pc = "ack" /\ loops'[i].status \in {"completed", "failed"}
                    /\ loops[i].status = "running" /\ runner'[r].pc = "idle")
                   => runner[r].starts = loops[i].starts
  <1>1. ASSUME LoopInv, OwnerInv, [LoopNext]_loopVars PROVE Fenced
    <2> SUFFICES ASSUME NEW r \in Runners, runner[r].pc = "ack",
                        loops'[runner[r].on].status \in {"completed", "failed"},
                        loops[runner[r].on].status = "running", runner'[r].pc = "idle"
                 PROVE  runner[r].starts = loops[runner[r].on].starts
      OBVIOUS
    <2>1. LoopTypeOK /\ runner[r].on \in DOMAIN loops
      BY <1>1 DEF LoopInv, RunnerOK
    <2>2. CASE Calm
      BY <2>1, <2>2, CalmKeeps
    <2>3. ASSUME NEW q \in Runners, NEW i \in DOMAIN loops, StartJob(q, i) PROVE FALSE
      <3>1. runner'[r] = runner[r]
        BY <2>1, <2>3 DEF StartJob, LoopTypeOK
      <3> QED
        BY <3>1
    <2>4. ASSUME NEW q \in Runners, Acknowledge(q)
          PROVE  runner[r].starts = loops[runner[r].on].starts
      <3>1. q = r
        BY <2>1, <2>4 DEF Acknowledge, Drop, LoopTypeOK
      <3>2. Holds(r)
        BY <2>4, <3>1
           DEF Holds, Acknowledge, complete_session_loop_job, fail_session_loop_job
      <3> QED
        BY <1>1, <3>2 DEF OwnerInv, Current
    <2>5. ASSUME NEW c \in Callers, AdapterStart(c) \/ AdapterFinish(c) PROVE FALSE
      BY <2>5 DEF AdapterStart, AdapterFinish
    <2> QED
      BY <1>1, <2>2, <2>3, <2>4, <2>5, Movers
  <1>2. LoopInv /\ OwnerInv /\ [LoopNext]_loopVars => [Fenced]_loopVars
    BY <1>1
  <1> QED
    BY <1>2, LoopInvariant, OwnerInvariant, PTL DEF LoopSpec, StaleOwnerIsFenced
-----------------------------------------------------------------------------
(* Windows and inputs, without direct callers of enqueue_session_loop *)

\* Windows are not empty and follow one another.
WindowInv ==
    /\ \A i \in DOMAIN loops : 0 < loops[i].start /\ loops[i].start <= loops[i].end
    /\ WindowsFollow

\* A completion is announced once the execution has its result.
OrderInv ==
    /\ \A c \in DOMAIN log : log[c].kind = "execution.completed" =>
          log[c].exec \in Execs /\ execs[log[c].exec] = "completed"
    /\ \A s, c \in DOMAIN log :
          (log[s].kind = "tool.result" /\ log[c].kind = "execution.completed"
           /\ log[s].exec = log[c].exec) => s < c

\* What the windows have passed is in one of them, what is ahead of them waits
\* for the completion of an execution, and the first of it is a result.
Ahead(s) == \A k \in DOMAIN loops : loops[k].end < s

CoverInv ==
    session = "open" =>
        \A s \in DOMAIN log : log[s].kind # "note" =>
            /\ Ahead(s) \/ \E i \in DOMAIN loops : InWindow(i, s)
            /\ Ahead(s) => \E h \in DOMAIN log : Hidden(log, execs, h)
            /\ loops = <<>> => \E h \in 1 .. s : log[h].kind = "tool.result"
            /\ log[s].kind = "complete_task" => ~Ahead(s)

SameWindows ==
    /\ Len(loops') = Len(loops) /\ DOMAIN loops' = DOMAIN loops
    /\ \A i \in DOMAIN loops :
          loops'[i].start = loops[i].start /\ loops'[i].end = loops[i].end

NoneCompletes == \A e \in Execs : execs'[e] = "completed" => execs[e] = "completed"

Appends(event) ==
    /\ append_event(event, execs') /\ session' = session
    /\ \/ event.kind = "note" /\ NoneCompletes
       \/ event.kind = "input" /\ NoneCompletes
       \/ /\ event.kind \in {"complete_task", "blocked"}
          /\ execs' = execs /\ NothingUnresolved
       \/ /\ event.kind = "tool.result" /\ event.exec \in Execs
          /\ execs[event.exec] = "active" /\ execs'[event.exec] = "active" /\ NoneCompletes
       \/ /\ event.kind = "execution.completed" /\ event.exec \in Execs
          /\ execs'[event.exec] = "completed"
       \/ /\ event.kind = "execution.failed" /\ event.exec \in Execs
          /\ execs'[event.exec] = "failed" /\ NoneCompletes

Rests ==
    /\ SameWindows /\ NoneCompletes
    /\ \/ log' = log
       \/ log' = Append(log, Plain("complete_task")) /\ session' # "open"

LEMMA MoveIsSame ==
  ASSUME LoopTypeOK, NEW i \in DOMAIN loops,
         \/ \E w \in Names : Starts(i, w)
         \/ \E l \in {"none", "live", "expired"} : Leases(i, l)
         \/ Completes(i) \/ Fails(i)
  PROVE  SameWindows
  <1>1. PICK job \in LoopJob : /\ job.start = loops[i].start /\ job.end = loops[i].end
                               /\ loops' = [loops EXCEPT ![i] = job]
    BY MoveKeepsWindow
  <1> QED
    BY <1>1, Rewrite DEF SameWindows

LEMMA AppendsOrRests ==
  ASSUME Callers = {}, LoopInv, [LoopNext]_loopVars
  PROVE  (\E event \in Event : Appends(event)) \/ Rests
  <1>1. LoopTypeOK /\ execs \in [Execs -> {"absent", "waiting", "active", "rejected",
                           "completed", "failed", "canceled", "outcome_unknown"}]
    BY DEF LoopInv, LoopTypeOK
  <1>2. ASSUME loops' = loops, execs' = execs, log' = log PROVE Rests
    BY <1>2 DEF Rests, SameWindows, NoneCompletes
  <1>3. ASSUME SameWindows, execs' = execs, log' = log PROVE Rests
    BY <1>3 DEF Rests, NoneCompletes
  <1>4. CASE UNCHANGED loopVars
    BY <1>2, <1>4 DEF loopVars
  <1>5. ASSUME NEW kind \in {"input", "note"}, append_event(Plain(kind), execs),
               execs' = execs, session' = session
        PROVE  \E event \in Event : Appends(event)
    <2>1. Plain(kind) \in Event /\ Plain(kind).kind = kind
      BY EventTypes DEF Kinds
    <2>2. Appends(Plain(kind))
      BY <1>5, <2>1 DEF Appends, NoneCompletes
    <2> QED
      BY <2>1, <2>2
  <1>6. CASE AppendInput \/ AppendNote \/ Terminate
    BY <1>2, <1>5, <1>6 DEF AppendInput, AppendNote, Terminate
  <1>7. ASSUME NEW e \in Execs, RequestApproval(e) \/ Approve(e) \/ EndExecSilently(e)
        PROVE  Rests
    BY <1>1, <1>7
       DEF RequestApproval, Approve, EndExecSilently, SetExec, Rests, SameWindows,
           NoneCompletes
  <1>8. ASSUME NEW e \in Execs, Reject(e) PROVE \E event \in Event : Appends(event)
    <2>1. Plain("input") \in Event /\ Plain("input").kind = "input"
      BY EventTypes DEF Kinds
    <2>2. Appends(Plain("input"))
      BY <1>1, <1>8, <2>1 DEF Reject, SetExec, Appends, NoneCompletes
    <2> QED
      BY <2>1, <2>2
  <1>9. ASSUME NEW e \in Execs, RecordResult(e) PROVE \E event \in Event : Appends(event)
    <2> DEFINE event == About("tool.result", e)
    <2>1. event \in Event /\ event.kind = "tool.result" /\ event.exec = e
      BY EventTypes DEF Kinds
    <2>2. Appends(event)
      BY <1>1, <1>9, <2>1 DEF RecordResult, Appends, NoneCompletes
    <2> QED
      BY <2>1, <2>2
  <1>10. ASSUME NEW e \in Execs, CompleteExec(e) PROVE \E event \in Event : Appends(event)
    <2> DEFINE event == About("execution.completed", e)
    <2>1. event \in Event /\ event.kind = "execution.completed" /\ event.exec = e
      BY EventTypes DEF Kinds
    <2>2. Appends(event)
      BY <1>1, <1>10, <2>1 DEF CompleteExec, SetExec, Appends
    <2> QED
      BY <2>1, <2>2
  <1>11. ASSUME NEW e \in Execs, FailExec(e) PROVE \E event \in Event : Appends(event)
    <2> DEFINE event == About("execution.failed", e)
    <2>1. event \in Event /\ event.kind = "execution.failed" /\ event.exec = e
      BY EventTypes DEF Kinds
    <2>2. Appends(event)
      BY <1>1, <1>11, <2>1 DEF FailExec, SetExec, Appends, NoneCompletes
    <2> QED
      BY <2>1, <2>2
  <1>12. ASSUME NEW i \in DOMAIN loops, LoopLeaseExpires(i) PROVE Rests
    <2>1. SameWindows
      BY <1>1, <1>12, ExpiryShape, MoveIsSame
    <2> QED
      BY <1>3, <1>12, <2>1 DEF LoopLeaseExpires
  <1>13. ASSUME NEW r \in Runners, NEW i \in DOMAIN loops, StartJob(r, i) PROVE Rests
    <2>1. SameWindows
      BY <1>1, <1>13, StartShape, MoveIsSame DEF StartJob, Names
    <2> QED
      BY <1>3, <1>13, <2>1 DEF StartJob
  <1>14. ASSUME NEW r \in Runners, FinishTurn(r) PROVE Rests
    BY <1>14 DEF FinishTurn, Rests, SameWindows, NoneCompletes
  <1>15. ASSUME NEW r \in Runners, NEW kind \in {"complete_task", "blocked"},
                CompleteTask(r, kind)
         PROVE  \E event \in Event : Appends(event)
    <2>1. Plain(kind) \in Event /\ Plain(kind).kind = kind
      BY EventTypes DEF Kinds
    <2>2. Appends(Plain(kind))
      BY <1>15, <2>1 DEF CompleteTask, Appends
    <2> QED
      BY <2>1, <2>2
  <1>16. ASSUME NEW r \in Runners, SettleRenew(r) \/ RenewLate(r) \/ Acknowledge(r)
         PROVE  Rests
    <2>1. runner[r].on \in DOMAIN loops
      BY <1>16 DEF LoopInv, RunnerOK, SettleRenew, RenewLate, Acknowledge
    <2>2. CASE renew_session_loop_job_lease(runner[r].on, WorkerOf[r])
      <3>1. SameWindows
        BY <1>1, <2>1, <2>2, RenewShape, MoveIsSame
      <3> QED
        BY <1>3, <1>16, <3>1 DEF SettleRenew, RenewLate, Acknowledge
    <2>3. CASE Acknowledge(r)
      <3>1. runner[r].outcome # "ok" => session # "open"
        BY <2>3 DEF LoopInv, RunnerOK, Acknowledge
      <3>2. SameWindows
        BY <1>1, <2>1, <2>3, <3>1, CompleteShape, FailShape, MoveIsSame DEF Acknowledge
      <3> QED
        BY <1>3, <2>3, <3>2 DEF Acknowledge
    <2> QED
      BY <1>16, <2>2, <2>3 DEF SettleRenew, RenewLate
  <1>17. ASSUME NEW r \in Runners,
                ResumeCompletion(r) \/ FailSession(r) \/ LoseJob(r) \/ CrashRunner(r)
         PROVE  Rests
    BY <1>2, <1>17 DEF ResumeCompletion, FailSession, LoseJob, CrashRunner
  <1> QED
    BY <1>4, <1>6, <1>7, <1>8, <1>9, <1>10, <1>11, <1>12, <1>13, <1>14, <1>15, <1>16, <1>17
       DEF LoopNext, ExecStep, RunnerStep, Callers

LEMMA OrderKept ==
  ASSUME Callers = {}, LoopInv, OrderInv, [LoopNext]_loopVars
  PROVE  OrderInv'
  <1>1. LoopTypeOK /\ QueueInv /\ BoundInv /\ CursorInv
    BY DEF LoopInv
  <1>2. \A e \in Execs : execs[e] = "completed" => execs'[e] = "completed"
    BY LoopMoves DEF LoopStep, ExecsMove
  <1>3. ASSUME \A s \in DOMAIN log' : s \in DOMAIN log \/
                  log'[s].kind \notin {"tool.result", "execution.completed"},
               \A s \in DOMAIN log : log'[s] = log[s]
        PROVE  OrderInv'
    BY <1>2, <1>3 DEF OrderInv
  <1>4. CASE log' = log
    BY <1>3, <1>4
  <1>5. CASE log' = Append(log, Plain("complete_task"))
    <2>1. Plain("complete_task") \in Event /\ Plain("complete_task").kind = "complete_task"
      BY EventTypes DEF Kinds
    <2>2. /\ Len(log') = Len(log) + 1 /\ log' \in Seq(Event)
          /\ \A s \in 1 .. Len(log) : log'[s] = log[s]
          /\ log'[Len(log) + 1] = Plain("complete_task")
      BY <1>1, <1>5, <2>1, AppendProperties DEF LoopTypeOK
    <2>3. DOMAIN log' = DOMAIN log \cup {Len(log) + 1} /\ DOMAIN log = 1 .. Len(log)
      BY <1>1, <2>2 DEF LoopTypeOK
    <2> QED
      BY <1>3, <2>1, <2>2, <2>3
  <1>6. ASSUME NEW event \in Event, Appends(event) PROVE OrderInv'
    <2>1. /\ Len(log') = Len(log) + 1 /\ DOMAIN log' = DOMAIN log \cup {Len(log')}
          /\ \A s \in DOMAIN log : log'[s] = log[s]
          /\ log'[Len(log')] = event
      BY <1>1, <1>6, AppendMoves DEF Appends
    <2>2. Len(log) \in Nat /\ DOMAIN log = 1 .. Len(log)
      BY <1>1 DEF LoopTypeOK
    <2>3. CASE event.kind \notin {"tool.result", "execution.completed"}
      BY <1>3, <2>1, <2>3
    <2>4. CASE event.kind = "tool.result"
      <3>1. event.exec \in Execs /\ execs[event.exec] = "active"
        BY <1>6, <2>4 DEF Appends
      <3>2. ASSUME NEW c \in DOMAIN log', log'[c].kind = "execution.completed"
            PROVE  c \in DOMAIN log /\ log'[c] = log[c] /\ log[c].exec # event.exec
        BY <2>1, <2>4, <3>1, <3>2 DEF OrderInv
      <3>3. ASSUME NEW s \in DOMAIN log', NEW c \in DOMAIN log',
                   log'[s].kind = "tool.result", log'[c].kind = "execution.completed",
                   log'[s].exec = log'[c].exec
            PROVE  s < c
        <4>1. c \in DOMAIN log /\ log'[c] = log[c] /\ log[c].exec # event.exec
          BY <3>2, <3>3
        <4>2. s \in DOMAIN log /\ log'[s] = log[s]
          BY <2>1, <3>3, <4>1
        <4> QED
          BY <3>3, <4>1, <4>2 DEF OrderInv
      <3>4. \A c \in DOMAIN log' : log'[c].kind = "execution.completed" =>
               log'[c].exec \in Execs /\ execs'[log'[c].exec] = "completed"
        BY <1>2, <3>2 DEF OrderInv
      <3> QED
        BY <3>3, <3>4 DEF OrderInv
    <2>5. CASE event.kind = "execution.completed"
      <3>1. event.exec \in Execs /\ execs'[event.exec] = "completed"
        BY <1>6, <2>5 DEF Appends
      <3>2. ASSUME NEW s \in DOMAIN log', NEW c \in DOMAIN log',
                   log'[s].kind = "tool.result", log'[c].kind = "execution.completed",
                   log'[s].exec = log'[c].exec
            PROVE  s < c
        <4>1. s \in DOMAIN log /\ log'[s] = log[s]
          BY <2>1, <2>5, <3>2
        <4>2. CASE c = Len(log')
          BY <2>1, <2>2, <4>1, <4>2
        <4>3. CASE c \in DOMAIN log
          BY <2>1, <3>2, <4>1, <4>3 DEF OrderInv
        <4> QED
          BY <2>1, <4>2, <4>3
      <3>3. \A c \in DOMAIN log' : log'[c].kind = "execution.completed" =>
               log'[c].exec \in Execs /\ execs'[log'[c].exec] = "completed"
        BY <1>2, <2>1, <3>1 DEF OrderInv
      <3> QED
        BY <3>2, <3>3 DEF OrderInv
    <2> QED
      BY <2>3, <2>4, <2>5
  <1> QED
    BY <1>4, <1>5, <1>6, AppendsOrRests DEF Rests

\* With windows that are not empty, the mark is the greatest of their ends, as
\* long as the session is open.
LEMMA MarkIsEnd ==
  ASSUME LoopInv, WindowInv, session = "open"
  PROVE  LET mark == HighWatermark(loops)
         IN /\ mark \in Nat /\ mark <= Len(log)
            /\ \A i \in DOMAIN loops : loops[i].end <= mark
            /\ \A s \in Nat : (loops # <<>> /\ Ahead(s)) => mark < s
            /\ loops # <<>> => mark # 0
            /\ loops = <<>> => mark = 0
  <1> DEFINE mark == HighWatermark(loops)
  <1>1. \A i \in DOMAIN loops : loops[i] \in LoopJob
    BY DEF LoopInv, LoopTypeOK
  <1>2. \A i \in DOMAIN loops :
          /\ loops[i].status \in {"queued", "running", "completed"}
          /\ loops[i].end \in Nat /\ loops[i].processed \in Nat /\ loops[i].end # 0
          /\ Within(loops[i].processed)
          /\ loops[i].status = "completed" => loops[i].end <= loops[i].processed
    BY <1>1 DEF LoopInv, FailureInv, CursorInv, WindowInv, LoopJob
  <1>3. /\ mark \in Nat /\ mark <= Len(log)
        /\ \A i \in DOMAIN loops :
              /\ loops[i].processed <= mark
              /\ loops[i].status \in {"queued", "running"} => loops[i].end <= mark
        /\ \/ mark = 0
           \/ \E i \in DOMAIN loops :
                 \/ mark = loops[i].processed
                 \/ loops[i].status \in {"queued", "running"} /\ mark = loops[i].end
    BY MarkOf DEF LoopInv
  <1>4. \A i \in DOMAIN loops : loops[i].end <= mark
    BY <1>2, <1>3
  <1>5. /\ loops # <<>> => Len(loops) \in DOMAIN loops
        /\ loops = <<>> => DOMAIN loops = {}
    BY EmptySeq DEF LoopInv, LoopTypeOK
  <1>6. mark = 0 \/ \E k \in DOMAIN loops : mark <= loops[k].end
    BY <1>2, <1>3 DEF Within
  <1>7. loops # <<>> => mark # 0
    BY <1>2, <1>3, <1>4, <1>5
  <1>8. \A s \in Nat : (loops # <<>> /\ Ahead(s)) => mark < s
    BY <1>2, <1>3, <1>6, <1>7 DEF Ahead
  <1> QED
    BY <1>3, <1>4, <1>5, <1>7, <1>8

\* The trigger leaves the event at the end of the last window, which is new or
\* keeps its start.
LEMMA Projected ==
  ASSUME LoopInv, WindowInv, NEW start \in Nat, NEW n \in Nat, n = Len(log) + 1,
         loops' = MergeProjected(loops, start, n)
  PROVE  LET i == Len(loops')
         IN /\ i \in DOMAIN loops' /\ DOMAIN loops' = DOMAIN loops \cup {i}
            /\ \A k \in DOMAIN loops : k <= i
            /\ \A k \in DOMAIN loops : k # i => loops'[k] = loops[k]
            /\ loops'[i].end = n
            /\ IF i \in DOMAIN loops THEN loops'[i].start = loops[i].start
                                     ELSE loops'[i].start = start
  <1>1. LoopTypeOK /\ loops \in Seq(LoopJob) /\ Len(loops) \in Nat
        /\ DOMAIN loops = 1 .. Len(loops) /\ QueueInv
    BY DEF LoopInv, LoopTypeOK
  <1>2. CASE QueuedJobs(loops) = {}
    <2>1. PICK p : p = start - 1
      OBVIOUS
    <2>2. loops' = Append(loops, NewJob(start, n, p))
      BY <1>2, <2>1 DEF MergeProjected
    <2>3. PICK job : job = NewJob(start, n, p)
      OBVIOUS
    <2>4. job.start = start /\ job.end = n
      BY <2>3 DEF NewJob
    <2>5. /\ Len(loops') = Len(loops) + 1 /\ DOMAIN loops' = 1 .. Len(loops')
          /\ \A k \in 1 .. Len(loops) : loops'[k] = loops[k]
          /\ loops'[Len(loops')] = job
      BY <1>1, <2>2, <2>3
    <2>6. PICK i \in Nat : i = Len(loops') /\ i = Len(loops) + 1
      BY <1>1, <2>5
    <2>7. /\ i \in DOMAIN loops' /\ DOMAIN loops' = DOMAIN loops \cup {i} /\ i \notin DOMAIN loops
          /\ \A k \in DOMAIN loops : k <= i
      <3>1. /\ i \in 1 .. i /\ 1 .. i = (1 .. Len(loops)) \cup {i} /\ i \notin 1 .. Len(loops)
            /\ \A k \in 1 .. Len(loops) : k <= i
        BY <1>1, <2>6
      <3> QED
        BY <1>1, <2>5, <2>6, <3>1
    <2>8. loops'[i].end = n /\ loops'[i].start = start
      BY <2>4, <2>5, <2>6
    <2>9. \A k \in DOMAIN loops : k # i => loops'[k] = loops[k]
      BY <1>1, <2>5
    <2> QED
      BY <2>6, <2>7, <2>8, <2>9
  <1>3. CASE QueuedJobs(loops) # {}
    <2>1. /\ loops # <<>> /\ Len(loops) \in DOMAIN loops
          /\ Max(QueuedJobs(loops)) = Len(loops)
      BY <1>1, <1>3, Waiting DEF QueueInv
    <2> DEFINE i == Len(loops)
               old == loops[i]
    <2>2. old \in LoopJob
      BY <1>1, <2>1
    <2>3. /\ old.start \in Nat /\ old.end \in Nat /\ old.start # 0 /\ old.end <= Len(log)
          /\ Len(log) \in Nat
      BY <2>1, <2>2 DEF LoopJob, LoopInv, LoopTypeOK, BoundInv, WindowInv
    <2>4. Max({old.end, n}) = n
      BY <2>3, MaxOfTwo
    <2>5. PICK a : a = old.start
      OBVIOUS
    <2>6. loops' = [loops EXCEPT ![i].start = a, ![i].end = n]
      BY <1>3, <2>1, <2>3, <2>4, <2>5 DEF MergeProjected
    <2>7. PICK job : job = [old EXCEPT !.start = a, !.end = n]
      OBVIOUS
    <2>8. job \in LoopJob /\ job.start = a /\ job.end = n
      BY <2>2, <2>3, <2>5, <2>7 DEF LoopJob
    <2>9. loops' = [loops EXCEPT ![i] = job]
      BY <1>1, <2>1, <2>2, <2>6, <2>7 DEF LoopJob
    <2>10. /\ Len(loops') = Len(loops) /\ DOMAIN loops' = DOMAIN loops
           /\ \A k \in DOMAIN loops : loops'[k] = IF k = i THEN job ELSE loops[k]
      BY <1>1, <2>1, <2>8, <2>9, Rewrite
    <2>11. /\ i \in DOMAIN loops' /\ DOMAIN loops' = DOMAIN loops \cup {i}
           /\ \A k \in DOMAIN loops : k <= i
      <3>1. \A k \in 1 .. Len(loops) : k <= Len(loops)
        BY <1>1
      <3> QED
        BY <1>1, <2>1, <2>10, <3>1
    <2>12. loops'[i].end = n /\ loops'[i].start = loops[i].start
      BY <2>1, <2>5, <2>8, <2>10
    <2>13. \A k \in DOMAIN loops : k # i => loops'[k] = loops[k]
      BY <2>10
    <2>14. Len(loops') = i
      BY <2>10
    <2> QED
      BY <2>1, <2>11, <2>12, <2>13, <2>14
  <1> QED
    BY <1>2, <1>3

\* The window of the trigger is not behind the results it releases.
LEMMA StartIsLow ==
  ASSUME LoopTypeOK, BoundInv, NEW l, NEW x, NEW n, n = Len(log) + 1
  PROVE  LET mark == HighWatermark(loops)
             start == PendingStart(l, x, loops, n)
         IN /\ mark # 0 => start <= mark + 1
            /\ l[n].kind = "execution.completed" =>
                  \A h \in ReleasedResults(l, x, n, mark) : start <= h
  <1> DEFINE mark == HighWatermark(loops)
             first == IF mark = 0 THEN n ELSE mark + 1
             released == IF l[n].kind = "execution.completed"
                         THEN ReleasedResults(l, x, n, mark) ELSE {}
             low == Min({first} \cup released)
  <1>1. mark \in Nat /\ mark <= Len(log) /\ Len(log) \in Nat
    BY MarkOf DEF LoopTypeOK
  <1>2. released \subseteq mark + 1 .. n - 1
    BY DEF ReleasedResults
  <1>3. {first} \cup released \in SUBSET Nat
    BY <1>1, <1>2
  <1>4. low \in {first} \cup released /\ \A y \in {first} \cup released : low <= y
    BY <1>3, MinOf
  <1>5. PICK z \in Nat : z = low /\ z <= first
    BY <1>3, <1>4
  <1>6. ~(z > n)
    BY <1>1, <1>5
  <1>7. PendingStart(l, x, loops, n) = low
    BY <1>5, <1>6 DEF PendingStart
  <1> QED
    BY <1>4, <1>7

\* A result that is not settled stays hidden unless a completion is announced.
LEMMA StaysHidden ==
  ASSUME LoopInv, NEW event \in Event, Appends(event), event.kind # "execution.completed",
         NEW h \in DOMAIN log, Hidden(log, execs, h)
  PROVE  h \in DOMAIN log' /\ Hidden(log', execs', h)
  <1>1. LoopTypeOK /\ QueueInv /\ BoundInv /\ CursorInv /\ ExecInv
    BY DEF LoopInv
  <1>2. /\ DOMAIN log' = DOMAIN log \cup {Len(log')}
        /\ \A s \in DOMAIN log : log'[s] = log[s]
        /\ log'[Len(log')] = event
    BY <1>1, AppendMoves DEF Appends
  <1>3. NoneCompletes
    BY DEF Appends, NoneCompletes
  <1>4. log[h].kind = "tool.result" /\ log[h].exec \in Execs
    BY <1>1 DEF Hidden, ExecInv
  <1>5. Announced(log', log[h].exec) => Announced(log, log[h].exec)
    <2>1. event # About("execution.completed", log[h].exec)
      BY DEF About
    <2> QED
      BY <1>2, <2>1 DEF Announced
  <1> QED
    BY <1>2, <1>3, <1>4, <1>5 DEF Hidden, NoneCompletes

LEMMA RestKeeps ==
  ASSUME LoopInv, WindowInv, CoverInv, LoopStep, Rests
  PROVE  WindowInv' /\ CoverInv'
  <1>1. WindowInv'
    BY DEF WindowInv, WindowsFollow, Rests, SameWindows
  <1>2. ASSUME session' = "open", NEW s \in DOMAIN log', log'[s].kind # "note"
        PROVE  /\ Ahead(s)' \/ \E i \in DOMAIN loops' : InWindow(i, s)'
               /\ Ahead(s)' => \E h \in DOMAIN log' : Hidden(log', execs', h)
               /\ loops' = <<>> => \E h \in 1 .. s : log'[h].kind = "tool.result"
               /\ log'[s].kind = "complete_task" => ~Ahead(s)'
    <2>1. log' = log /\ session = "open"
      BY <1>2 DEF Rests, LoopStep, SessionMove
    <2>2. ASSUME NEW h \in DOMAIN log, Hidden(log, execs, h) PROVE Hidden(log, execs', h)
      <3>1. log[h].kind = "tool.result" /\ log[h].exec \in Execs
        BY <2>2 DEF Hidden, LoopInv, ExecInv
      <3> QED
        BY <2>2, <3>1 DEF Hidden, Rests, NoneCompletes
    <2>3. Ahead(s)' <=> Ahead(s)
      BY DEF Ahead, Rests, SameWindows
    <2>4. \A i \in DOMAIN loops : InWindow(i, s)' <=> InWindow(i, s)
      BY DEF InWindow, Rests, SameWindows
    <2>5. loops' = <<>> => loops = <<>>
      BY EmptySeq DEF Rests, SameWindows, LoopInv, LoopTypeOK
    <2>6. /\ Ahead(s) \/ \E i \in DOMAIN loops : InWindow(i, s)
          /\ Ahead(s) => \E h \in DOMAIN log : Hidden(log, execs, h)
          /\ loops = <<>> => \E h \in 1 .. s : log[h].kind = "tool.result"
          /\ log[s].kind = "complete_task" => ~Ahead(s)
      BY <1>2, <2>1 DEF CoverInv
    <2>7. DOMAIN loops' = DOMAIN loops
      BY DEF Rests, SameWindows
    <2>8. Ahead(s)' \/ \E i \in DOMAIN loops' : InWindow(i, s)'
      BY <2>3, <2>4, <2>6, <2>7
    <2>9. Ahead(s)' => \E h \in DOMAIN log' : Hidden(log', execs', h)
      BY <2>1, <2>2, <2>3, <2>6
    <2> QED
      BY <2>1, <2>3, <2>5, <2>6, <2>8, <2>9
  <1>3. CoverInv'
    BY <1>2 DEF CoverInv
  <1> QED
    BY <1>1, <1>3

\* An event that the trigger defers leaves a hidden result behind.
LEMMA DeferKeeps ==
  ASSUME LoopInv, WindowInv, CoverInv, LoopStep, NEW event \in Event, Appends(event),
         loops' = loops,
         session = "open" => \/ ~CallsForTurn(log', execs', Len(log'))
                             \/ \E h \in DOMAIN log' : Hidden(log', execs', h)
  PROVE  WindowInv' /\ CoverInv'
  <1>1. WindowInv'
    BY DEF WindowInv, WindowsFollow
  <1>2. LoopTypeOK /\ QueueInv /\ BoundInv /\ CursorInv /\ ExecInv
    BY DEF LoopInv
  <1>3. /\ Len(log') = Len(log) + 1 /\ DOMAIN log' = DOMAIN log \cup {Len(log')}
        /\ \A s \in DOMAIN log : log'[s] = log[s]
        /\ log'[Len(log')] = event
    BY <1>2, AppendMoves DEF Appends
  <1>4. /\ Len(log) \in Nat /\ DOMAIN log = 1 .. Len(log)
        /\ Len(log') \in Nat /\ DOMAIN log' = 1 .. Len(log')
    BY LogGrows, <1>2 DEF LoopStep
  <1>5. ASSUME session' = "open", NEW s \in DOMAIN log', log'[s].kind # "note"
        PROVE  /\ Ahead(s) \/ \E i \in DOMAIN loops : InWindow(i, s)
               /\ Ahead(s) => \E h \in DOMAIN log' : Hidden(log', execs', h)
               /\ loops = <<>> => \E h \in 1 .. s : log'[h].kind = "tool.result"
               /\ log'[s].kind = "complete_task" => ~Ahead(s)
    <2>1. session = "open"
      BY <1>5 DEF LoopStep, SessionMove
    <2>2. \/ ~CallsForTurn(log', execs', Len(log'))
          \/ \E h \in DOMAIN log' : Hidden(log', execs', h)
      BY <2>1
    <2>3. event.kind = "execution.completed" => CallsForTurn(log', execs', Len(log'))
      BY <1>3 DEF Appends, CallsForTurn
    <2>4. CASE s = Len(log')
      <3>1. \/ CallsForTurn(log', execs', Len(log'))
            \/ event.kind = "tool.result" /\ execs'[event.exec] = "active"
        BY <1>3, <1>5, <2>4 DEF Appends, CallsForTurn
      <3>2. \/ CallsForTurn(log', execs', Len(log'))
            \/ Hidden(log', execs', Len(log'))
        BY <1>3, <3>1 DEF Hidden
      <3>3. PICK h \in DOMAIN log' : Hidden(log', execs', h)
        BY <2>2, <2>4, <3>2
      <3>4. h \in 1 .. s /\ log'[h].kind = "tool.result"
        BY <1>4, <2>4, <3>3 DEF Hidden
      <3>5. log'[s].kind # "complete_task"
        <4>1. ASSUME event.kind = "complete_task" PROVE FALSE
          <5>1. h \in DOMAIN log /\ log'[h] = log[h]
            BY <1>3, <3>4, <4>1
          <5>2. log[h].exec \in Execs /\ execs[log[h].exec] \in {"active", "completed"}
            BY <1>2, <3>4, <5>1 DEF ExecInv
          <5>3. execs' = execs /\ execs[log[h].exec] = "completed"
            BY <4>1, <5>2 DEF Appends, NothingUnresolved
          <5>4. Announced(log, log[h].exec)
            BY <1>2, <5>2, <5>3 DEF ExecInv
          <5>5. Announced(log', log[h].exec)
            BY <1>3, <5>4 DEF Announced
          <5> QED
            BY <3>3, <5>1, <5>3, <5>5 DEF Hidden
        <4> QED
          BY <1>3, <2>4, <4>1
      <3>6. Ahead(s)
        <4>1. \A k \in DOMAIN loops : loops[k].end \in Nat /\ loops[k].end <= Len(log)
          <5>1. \A k \in DOMAIN loops : loops[k] \in LoopJob
            BY <1>2 DEF LoopTypeOK
          <5> QED
            BY <1>2, <5>1 DEF LoopJob, BoundInv
        <4> QED
          BY <1>3, <1>4, <2>4, <4>1 DEF Ahead
      <3> QED
        BY <3>3, <3>4, <3>5, <3>6
    <2>5. CASE s \in DOMAIN log
      <3>1. log[s].kind # "note" /\ s \in 1 .. Len(log)
        BY <1>3, <1>4, <1>5, <2>5
      <3>2. /\ Ahead(s) \/ \E i \in DOMAIN loops : InWindow(i, s)
            /\ Ahead(s) => \E h \in DOMAIN log : Hidden(log, execs, h)
            /\ loops = <<>> => \E h \in 1 .. s : log[h].kind = "tool.result"
            /\ log[s].kind = "complete_task" => ~Ahead(s)
        BY <2>1, <2>5, <3>1 DEF CoverInv
      <3>3. Ahead(s) => \E h \in DOMAIN log' : Hidden(log', execs', h)
        BY <2>2, <2>3, <3>2, StaysHidden
      <3>4. \A h \in 1 .. s : h \in DOMAIN log
        BY <1>4, <3>1
      <3>5. loops = <<>> => \E h \in 1 .. s : log'[h].kind = "tool.result"
        BY <1>3, <3>2, <3>4
      <3> QED
        BY <1>3, <2>5, <3>2, <3>3, <3>5
    <2> QED
      BY <1>3, <2>4, <2>5
  <1>6. CoverInv'
    BY <1>5 DEF CoverInv, Ahead, InWindow
  <1> QED
    BY <1>1, <1>6

\* The window of an event that the trigger takes reaches back to everything
\* that was ahead of the windows.
LEMMA ReachesBack ==
  ASSUME LoopInv, OrderInv, WindowInv, CoverInv, LoopStep, session = "open",
         NEW event \in Event, Appends(event),
         \A h \in DOMAIN log' : ~Hidden(log', execs', h),
         NEW s \in DOMAIN log', log'[s].kind # "note", Ahead(s)
  PROVE  PendingStart(log', execs', loops, Len(log')) <= s
  <1> DEFINE n == Len(log')
             start == PendingStart(log', execs', loops, n)
             mark == HighWatermark(loops)
  <1>1. LoopTypeOK /\ QueueInv /\ BoundInv /\ CursorInv /\ ExecInv
    BY DEF LoopInv
  <1>2. /\ n = Len(log) + 1 /\ DOMAIN log' = DOMAIN log \cup {n}
        /\ \A k \in DOMAIN log : log'[k] = log[k]
        /\ log'[n] = event
    BY <1>1, AppendMoves DEF Appends
  <1>3. /\ Len(log) \in Nat /\ DOMAIN log = 1 .. Len(log)
        /\ n \in Nat /\ DOMAIN log' = 1 .. n /\ s \in Nat
    BY LogGrows, <1>1 DEF LoopStep
  <1>4. start \in Nat /\ start <= n
    BY <1>1, <1>2, StartOfWindow
  <1>5. /\ mark \in Nat
        /\ loops # <<>> => mark < s /\ mark # 0
        /\ loops = <<>> => mark = 0
    BY <1>3, MarkIsEnd
  <1>6. /\ mark # 0 => start <= mark + 1
        /\ event.kind = "execution.completed" =>
              \A h \in ReleasedResults(log', execs', n, mark) : start <= h
    BY <1>1, <1>2, StartIsLow
  <1>7. CASE loops # <<>>
    BY <1>3, <1>4, <1>5, <1>6, <1>7
  <1>8. CASE s = n
    BY <1>4, <1>8
  <1>9. CASE loops = <<>> /\ s \in DOMAIN log
    <2>1. log[s].kind # "note" /\ s \in 1 .. Len(log)
      BY <1>2, <1>3, <1>9
    <2>2. PICK g \in DOMAIN log : Hidden(log, execs, g)
      BY <1>9, <2>1 DEF CoverInv
    <2>3. event.kind = "execution.completed"
      BY <2>2, StaysHidden
    <2>4. PICK h \in 1 .. s : log[h].kind = "tool.result"
      BY <1>9, <2>1 DEF CoverInv
    <2>5. /\ h \in DOMAIN log /\ h \in DOMAIN log' /\ log'[h] = log[h] /\ h \in 0 + 1 .. n - 1
          /\ h \in Nat /\ h <= s
      BY <1>2, <1>3, <2>1, <2>4
    <2>6. execs'[log[h].exec] = "completed" /\ Announced(log', log[h].exec)
      BY <2>4, <2>5 DEF Hidden
    <2>7. PICK c \in DOMAIN log' : log'[c] = About("execution.completed", log[h].exec)
      BY <2>6 DEF Announced
    <2>8. log'[c].kind = "execution.completed" /\ log'[c].exec = log[h].exec
      BY <2>7 DEF About
    <2>9. \/ log'[h].exec = event.exec
          \/ \E k \in h + 1 .. n - 1 : log'[k] = About("execution.completed", log'[h].exec)
      <3>1. CASE c = n
        BY <1>2, <2>5, <2>8, <3>1
      <3>2. CASE c \in DOMAIN log
        <4>1. h < c
          BY <1>2, <2>4, <2>5, <2>8, <3>2 DEF OrderInv
        <4>2. c \in h + 1 .. n - 1
          BY <1>2, <1>3, <2>5, <3>2, <4>1
        <4> QED
          BY <2>5, <2>7, <4>2
      <3> QED
        BY <1>2, <3>1, <3>2
    <2>10. mark = 0
      BY <1>5, <1>9
    <2>11. h \in ReleasedResults(log', execs', n, mark)
      BY <1>2, <2>4, <2>5, <2>6, <2>9, <2>10 DEF ReleasedResults
    <2>12. start <= h
      BY <1>6, <2>3, <2>11
    <2> QED
      BY <1>3, <1>4, <2>5, <2>12
  <1> QED
    BY <1>2, <1>7, <1>8, <1>9

LEMMA ProjectKeeps ==
  ASSUME LoopInv, OrderInv, WindowInv, CoverInv, LoopStep, session = "open",
         NEW event \in Event, Appends(event),
         \A h \in DOMAIN log' : ~Hidden(log', execs', h),
         loops' = MergeProjected(loops, PendingStart(log', execs', loops, Len(log')), Len(log'))
  PROVE  WindowInv' /\ CoverInv'
  <1>1. LoopTypeOK /\ QueueInv /\ BoundInv /\ CursorInv /\ ExecInv
    BY DEF LoopInv
  <1>2. Len(log') = Len(log) + 1 /\ DOMAIN log' = DOMAIN log \cup {Len(log')}
        /\ \A k \in DOMAIN log : log'[k] = log[k]
    BY <1>1, AppendMoves DEF Appends
  <1>3. /\ Len(log) \in Nat /\ DOMAIN log = 1 .. Len(log)
        /\ Len(log') \in Nat /\ DOMAIN log' = 1 .. Len(log')
    BY LogGrows, <1>1 DEF LoopStep
  <1>4. PICK n \in Nat : n = Len(log')
    BY <1>3
  <1>5. PICK start \in Nat : /\ start = PendingStart(log', execs', loops, n)
                             /\ HighWatermark(loops) < start /\ start <= n
    BY <1>1, <1>2, <1>4, StartOfWindow
  <1>6. PICK i : i = Len(loops')
    OBVIOUS
  <1>7. /\ i \in DOMAIN loops' /\ DOMAIN loops' = DOMAIN loops \cup {i}
        /\ \A k \in DOMAIN loops : k <= i
        /\ \A k \in DOMAIN loops : k # i => loops'[k] = loops[k]
        /\ loops'[i].end = n
        /\ IF i \in DOMAIN loops THEN loops'[i].start = loops[i].start
                                 ELSE loops'[i].start = start
    BY <1>2, <1>4, <1>5, <1>6, Projected
  <1>8. /\ \A k \in DOMAIN loops : loops[k].start \in Nat /\ loops[k].end \in Nat
                                   /\ loops[k].end <= Len(log)
                                   /\ 0 < loops[k].start /\ loops[k].start <= loops[k].end
        /\ DOMAIN loops \subseteq Nat
    <2>1. \A k \in DOMAIN loops : loops[k] \in LoopJob
      BY <1>1 DEF LoopTypeOK
    <2>2. DOMAIN loops \subseteq Nat
      BY <1>1 DEF LoopTypeOK
    <2> QED
      BY <1>1, <2>1, <2>2 DEF LoopJob, BoundInv, WindowInv
  <1>9. i \in Nat /\ loops'[i].start \in Nat
    <2>1. loops' \in Seq(LoopJob)
      BY DEF LoopStep, LoopInv, LoopTypeOK
    <2>2. i \in DOMAIN loops'
      BY <1>7
    <2>3. loops'[i] \in LoopJob /\ i \in Nat
      BY <2>1, <2>2
    <2> QED
      BY <2>3 DEF LoopJob
  <1>10. \A k \in DOMAIN loops : loops[k].end < start
    <2>1. /\ HighWatermark(loops) \in Nat
          /\ \A k \in DOMAIN loops : loops[k].end <= HighWatermark(loops)
      BY MarkIsEnd
    <2> QED
      BY <1>5, <1>8, <2>1
  <1>11. WindowInv'
    <2>1. 0 < loops'[i].start /\ loops'[i].start <= loops'[i].end
      <3>1. 0 < start
        <4>1. HighWatermark(loops) \in Nat
          BY MarkIsEnd
        <4> QED
          BY <1>5, <4>1
      <3>2. CASE i \in DOMAIN loops
        BY <1>2, <1>3, <1>4, <1>7, <1>8, <3>2
      <3>3. CASE i \notin DOMAIN loops
        BY <1>5, <1>7, <3>1, <3>3
      <3> QED
        BY <3>2, <3>3
    <2>2. \A k \in DOMAIN loops' :
             0 < loops'[k].start /\ loops'[k].start <= loops'[k].end
      BY <1>7, <1>8, <2>1
    <2>3. ASSUME NEW j \in DOMAIN loops', NEW k \in DOMAIN loops', j < k
          PROVE  loops'[j].end < loops'[k].start
      <3>1. j # i /\ j \in DOMAIN loops /\ loops'[j] = loops[j]
        <4>1. k <= i /\ k \in Nat
          BY <1>7, <1>8, <1>9
        <4>2. j # i
          BY <1>9, <2>3, <4>1
        <4> QED
          BY <1>7, <4>2
      <3>2. CASE k \in DOMAIN loops
        <4>1. loops[j].end < loops[k].start
          BY <2>3, <3>1, <3>2 DEF WindowInv, WindowsFollow
        <4>2. loops'[k].start = loops[k].start
          BY <1>7, <3>2
        <4> QED
          BY <3>1, <4>1, <4>2
      <3>3. CASE k \notin DOMAIN loops
        <4>1. loops'[k].start = start
          BY <1>7, <3>3
        <4> QED
          BY <1>10, <3>1, <4>1
      <3> QED
        BY <3>2, <3>3
    <2> QED
      BY <2>2, <2>3 DEF WindowInv, WindowsFollow
  <1>12. ASSUME NEW s \in DOMAIN log', log'[s].kind # "note"
         PROVE  /\ \E k \in DOMAIN loops' : InWindow(k, s)'
                /\ ~Ahead(s)'
    <2>1. s \in Nat /\ s <= n
      BY <1>3, <1>4
    <2>2. ~Ahead(s)'
      BY <1>4, <1>7, <2>1 DEF Ahead
    <2>3. CASE Ahead(s)
      <3>1. start <= s
        BY <1>4, <1>5, <1>12, <2>3, ReachesBack
      <3>2. loops'[i].start <= s
        BY <1>7, <1>8, <1>9, <2>1, <2>3, <3>1 DEF Ahead
      <3>3. loops'[i].start # 0
        BY <1>7, <1>9, <1>11 DEF WindowInv
      <3> QED
        BY <1>7, <2>1, <2>2, <3>2, <3>3 DEF InWindow
    <2>4. CASE ~Ahead(s)
      <3>1. s \in DOMAIN log
        <4>1. Ahead(n)
          BY <1>2, <1>3, <1>4, <1>8 DEF Ahead
        <4> QED
          BY <1>2, <1>4, <2>4, <4>1
      <3>2. log[s].kind # "note"
        BY <1>2, <1>12, <3>1
      <3>3. PICK k \in DOMAIN loops : InWindow(k, s)
        BY <2>4, <3>1, <3>2 DEF CoverInv
      <3>4. /\ k \in DOMAIN loops' /\ loops'[k].start = loops[k].start
            /\ loops[k].end <= loops'[k].end /\ loops'[k].end \in Nat
        BY <1>2, <1>3, <1>4, <1>7, <1>8
      <3>5. InWindow(k, s)'
        BY <1>8, <2>1, <3>3, <3>4 DEF InWindow
      <3> QED
        BY <2>2, <3>4, <3>5
    <2> QED
      BY <2>3, <2>4
  <1>13. loops' # <<>>
    <2>1. i \in DOMAIN loops'
      BY <1>7
    <2> QED
      BY <2>1, EmptySeq
  <1>14. CoverInv'
    BY <1>12, <1>13 DEF CoverInv
  <1> QED
    BY <1>11, <1>14

LEMMA CoverKept ==
  ASSUME Callers = {}, LoopInv, OrderInv, WindowInv, CoverInv, [LoopNext]_loopVars
  PROVE  WindowInv' /\ CoverInv'
  <1>1. LoopStep
    BY LoopMoves
  <1>2. CASE Rests
    BY <1>1, <1>2, RestKeeps
  <1>3. ASSUME NEW event \in Event, Appends(event) PROVE WindowInv' /\ CoverInv'
    <2>1. LoopTypeOK /\ QueueInv /\ BoundInv /\ CursorInv
      BY DEF LoopInv
    <2>2. Len(log') = Len(log) + 1 /\ DOMAIN log' = 1 .. Len(log')
      BY <1>1, <1>3, <2>1, AppendMoves, LogGrows DEF Appends, LoopStep
    <2> DEFINE n == Len(log')
    <2>3. loops' = IF session = "open" THEN Project(log', execs', loops, n) ELSE loops
      BY <1>3, <2>2 DEF Appends, append_event
    <2>4. CASE session # "open"
      BY <1>1, <1>3, <2>3, <2>4, DeferKeeps
    <2>5. CASE /\ session = "open"
               /\ CallsForTurn(log', execs', n) /\ \A s \in 1 .. n : ~Hidden(log', execs', s)
      <3>1. loops' = MergeProjected(loops, PendingStart(log', execs', loops, n), n)
        BY <2>3, <2>5 DEF Project
      <3> QED
        BY <1>1, <1>3, <2>2, <2>5, <3>1, ProjectKeeps
    <2>6. CASE /\ session = "open"
               /\ ~(CallsForTurn(log', execs', n) /\ \A s \in 1 .. n : ~Hidden(log', execs', s))
      <3>1. loops' = loops
        BY <2>3, <2>6 DEF Project
      <3> QED
        BY <1>1, <1>3, <2>2, <2>6, <3>1, DeferKeeps
    <2> QED
      BY <2>4, <2>5, <2>6
  <1> QED
    BY <1>2, <1>3, AppendsOrRests

LEMMA CoverInvariant ==
  ASSUME Callers = {}
  PROVE  LoopSpec => [](OrderInv /\ WindowInv /\ CoverInv)
  <1>1. LoopInit => OrderInv /\ WindowInv /\ CoverInv
    <2> SUFFICES ASSUME LoopInit PROVE OrderInv /\ WindowInv /\ CoverInv
      OBVIOUS
    <2>1. DOMAIN loops = {} /\ DOMAIN log = {}
      BY EmptySeq DEF LoopInit
    <2> QED
      BY <2>1 DEF OrderInv, WindowInv, WindowsFollow, CoverInv
  <1>2. LoopInv /\ (OrderInv /\ WindowInv /\ CoverInv) /\ [LoopNext]_loopVars
           => (OrderInv /\ WindowInv /\ CoverInv)'
    BY OrderKept, CoverKept
  <1> QED
    BY <1>1, <1>2, LoopInvariant, PTL DEF LoopSpec

\* Without direct callers the windows of the jobs follow one another, so that
\* the trigger gives no event to two jobs.
THEOREM WindowsFollowHolds ==
  ASSUME Callers = {}
  PROVE  LoopSpec => []WindowsFollow
  <1>1. WindowInv => WindowsFollow
    BY DEF WindowInv
  <1> QED
    BY <1>1, CoverInvariant, PTL

\* Without direct callers no event that calls for a turn and no result falls
\* between the windows: once nothing is hidden, each is in the window of a job
\* that has not failed.
THEOREM NoInputLostHolds ==
  ASSUME Callers = {}
  PROVE  LoopSpec => []NoInputLost
  <1>1. LoopInv /\ CoverInv => NoInputLost
    <2> SUFFICES ASSUME LoopInv, CoverInv, session = "open",
                        \A s \in DOMAIN log : ~Hidden(log, execs, s),
                        NEW s \in DOMAIN log, log[s].kind # "note"
                 PROVE  \E i \in DOMAIN loops : loops[i].status # "failed" /\ InWindow(i, s)
      BY DEF NoInputLost
    <2>1. PICK i \in DOMAIN loops : InWindow(i, s)
      BY DEF CoverInv
    <2> QED
      BY <2>1 DEF LoopInv, FailureInv
  <1> QED
    BY <1>1, LoopInvariant, CoverInvariant, PTL
-----------------------------------------------------------------------------
(* What the model has seen, without direct callers *)

\* A runner has the window of a job that was started.
Claimed(r) ==
    runner[r].pc # "idle" =>
        /\ loops[runner[r].on].status # "queued"
        /\ runner[r].start = loops[runner[r].on].start
        /\ runner[r].end = loops[runner[r].on].end

Shown(start, end) == start # 0 => start .. end \subseteq seen

\* A runner that reports success has shown its window to the model, or an
\* earlier runner of the job did.
ReportOK(r) ==
    (runner[r].pc \in {"settle", "ack"} /\ runner[r].outcome = "ok") =>
        Shown(runner[r].start, runner[r].end)

\* A completion that was recorded after the window of the running job is one
\* of its own.
SeenInv ==
    /\ \A r \in Runners : Claimed(r)
    /\ (session = "open" /\ ~stray) =>
          /\ \A r \in Runners : ReportOK(r)
          /\ \A i \in DOMAIN loops :
                loops[i].status = "completed" => Shown(loops[i].start, loops[i].end)
          /\ \A i \in DOMAIN loops, s \in DOMAIN log :
                (loops[i].status = "running" /\ log[s].kind = "complete_task"
                 /\ loops[i].end < s) => Shown(loops[i].start, loops[i].end)

LEMMA StartedStays ==
  ASSUME LoopTypeOK, JobsMove, NEW k \in DOMAIN loops, loops[k].status # "queued"
  PROVE  loops'[k].status # "queued"
  <1>1. /\ Len(loops) \in Nat /\ loops # <<>> => Len(loops) \in DOMAIN loops
    BY EmptySeq DEF LoopTypeOK
  <1>2. CASE loops' = loops
    BY <1>2
  <1>3. ASSUME NEW job \in LoopJob, Enqueues(job) PROVE loops'[k].status # "queued"
    <2>1. CASE loops' = Append(loops, job)
      BY <2>1, AddJob
    <2>2. CASE /\ loops # <<>> /\ loops[Len(loops)].status = "queued"
               /\ loops' = [loops EXCEPT ![Len(loops)] = job]
      <3>1. loops'[k] = IF k = Len(loops) THEN job ELSE loops[k]
        BY <1>1, <2>2, Rewrite
      <3> QED
        BY <2>2, <3>1
    <2> QED
      BY <1>3, <2>1, <2>2 DEF Enqueues
  <1>4. ASSUME NEW i \in DOMAIN loops, NEW w \in Names, Starts(i, w)
        PROVE  loops'[k].status # "queued"
    BY <1>4, Rewrite, StartedFields DEF Starts
  <1>5. ASSUME NEW i \in DOMAIN loops, NEW l \in {"none", "live", "expired"}, Leases(i, l)
        PROVE  loops'[k].status # "queued"
    BY <1>5, Rewrite, LeasedFields DEF Leases
  <1>6. ASSUME NEW i \in DOMAIN loops, Completes(i) \/ Fails(i)
        PROVE  loops'[k].status # "queued"
    BY <1>6, Rewrite, CompletedFields, FailedFields DEF Completes, Fails
  <1> QED
    BY <1>2, <1>3, <1>4, <1>5, <1>6 DEF JobsMove

LEMMA ClaimedKept ==
  ASSUME LoopInv, \A q \in Runners : Claimed(q), [LoopNext]_loopVars, NEW r \in Runners
  PROVE  Claimed(r)'
  <1>1. LoopTypeOK /\ JobsMove
    BY LoopMoves DEF LoopInv, LoopStep
  <1>2. CASE runner'[r] = runner[r] \/ GoesOn(r)
    <2>1. SUFFICES ASSUME runner'[r].pc # "idle" PROVE Claimed(r)'
      BY DEF Claimed
    <2>2. /\ runner'[r].on = runner[r].on /\ runner[r].pc # "idle"
          /\ runner'[r].start = runner[r].start /\ runner'[r].end = runner[r].end
      BY <1>2, <2>1, GoKeeps
    <2>3. runner[r].on \in DOMAIN loops
      BY <2>2 DEF LoopInv, RunnerOK
    <2>4. loops[runner[r].on].status # "queued"
      BY <2>2 DEF Claimed
    <2>5. /\ loops'[runner[r].on].status # "queued"
          /\ loops'[runner[r].on].start = loops[runner[r].on].start
          /\ loops'[runner[r].on].end = loops[runner[r].on].end
      BY <1>1, <2>3, <2>4, StartedStays, JobsGrow
    <2> QED
      BY <2>2, <2>5 DEF Claimed
  <1>3. CASE runner'[r] = IdleRunner
    BY <1>3 DEF Claimed, IdleRunner
  <1>4. ASSUME NEW i \in DOMAIN loops, StartJob(r, i) PROVE Claimed(r)'
    <2>1. Current(r)' /\ runner'[r].on = i
      BY <1>4, StartedIsCurrent
    <2>2. WorkerOf[r] \in Names
      BY DEF Names
    <2>3. loops'[i].status = "running"
      BY <1>1, <1>4, <2>2, StartShape, StartedFields, Rewrite DEF StartJob, Starts
    <2> QED
      BY <2>1, <2>3 DEF Claimed, Current
  <1> QED
    BY <1>2, <1>3, <1>4, RunnerGoes

LEMMA SeenGrows ==
  ASSUME [LoopNext]_loopVars
  PROVE  seen \subseteq seen'
  <1>1. CASE seen' = seen
    BY <1>1
  <1>2. CASE \E r \in Runners : EndsTurn(r)
    BY <1>2 DEF EndsTurn, FinishTurn, CompleteTask, ResumeCompletion
  <1> QED
    BY <1>1, <1>2
       DEF LoopNext, loopVars, AppendInput, AppendNote, Terminate, RequestApproval, ExecStep,
           Approve, Reject, RecordResult, CompleteExec, FailExec, EndExecSilently,
           LoopLeaseExpires, StartJob, EndsTurn, RunnerStep, SettleRenew, FailSession,
           Acknowledge, LoseJob, RenewLate, CrashRunner, RunSession, RunAdapter, CallStep,
           ReadCursor, EnqueueJob, AdapterStart, AdapterFinish, DropCall, StepLeaseExpires

LEMMA ReportKept ==
  ASSUME LoopInv, SeenInv, [LoopNext]_loopVars, session' = "open", ~stray', NEW r \in Runners
  PROVE  ReportOK(r)'
  <1>1. session = "open" /\ ~stray /\ seen \subseteq seen'
    BY SeenGrows, LoopMoves DEF LoopStep, SessionMove
  <1>2. ReportOK(r)
    BY <1>1 DEF SeenInv
  <1>3. runner[r] \in Runner /\ runner \in [Runners -> Runner]
    BY DEF LoopInv, LoopTypeOK
  <1>4. CASE runner'[r] = runner[r]
    BY <1>1, <1>2, <1>4 DEF ReportOK, Shown
  <1>5. CASE runner'[r] = IdleRunner
    BY <1>5 DEF ReportOK, IdleRunner
  <1>6. CASE \E i \in DOMAIN loops : StartJob(r, i)
    <2>1. runner'[r].pc = "turn"
      BY <1>1, <1>3, <1>6 DEF StartJob
    <2> QED
      BY <2>1 DEF ReportOK
  <1>7. CASE EndsTurn(r)
    <2>1. runner'[r].start = runner[r].start /\ runner'[r].end = runner[r].end
      BY <1>7, GoKeeps DEF GoesOn
    <2>2. CASE seen' = seen \cup Window(r)
      BY <2>1, <2>2 DEF ReportOK, Shown, Window
    <2>3. CASE \E outcome \in {"error", "terminal"} : Go(r, "settle", outcome)
      <3>1. runner'[r].outcome # "ok"
        BY <1>3, <2>3 DEF Go, Runner
      <3> QED
        BY <3>1 DEF ReportOK
    <2>4. CASE ResumeCompletion(r)
      <3> DEFINE i == runner[r].on
      <3>1. i \in DOMAIN loops /\ Claimed(r) /\ runner[r].pc # "idle"
        BY <2>4 DEF LoopInv, RunnerOK, SeenInv, ResumeCompletion
      <3>2. /\ loops[i].status # "queued" /\ loops[i].status # "failed"
            /\ loops[i].start = runner[r].start /\ loops[i].end = runner[r].end
        BY <1>1, <3>1 DEF Claimed, LoopInv, FailureInv
      <3>3. loops[i] \in LoopJob
        BY <3>1 DEF LoopInv, LoopTypeOK
      <3>4. loops[i].status \in {"running", "completed"} /\ loops[i].end \in Nat
        BY <3>2, <3>3 DEF LoopJob
      <3>5. PICK s \in runner[r].end + 1 .. Len(log) : log[s].kind = "complete_task"
        BY <2>4 DEF ResumeCompletion, TaskCompletedAfter
      <3>6. Len(log) \in Nat /\ DOMAIN log = 1 .. Len(log)
        BY DEF LoopInv, LoopTypeOK
      <3>7. s \in DOMAIN log /\ loops[i].end < s
        BY <3>2, <3>4, <3>5, <3>6
      <3>8. Shown(runner[r].start, runner[r].end)
        BY <1>1, <3>1, <3>2, <3>4, <3>5, <3>7 DEF SeenInv
      <3> QED
        BY <1>1, <2>1, <3>8 DEF ReportOK, Shown
    <2> QED
      BY <1>7, <2>2, <2>3, <2>4 DEF EndsTurn, FinishTurn, CompleteTask
  <1>8. CASE SettleRenew(r)
    <2>1. /\ runner'[r].start = runner[r].start /\ runner'[r].end = runner[r].end
      BY <1>8, GoKeeps DEF GoesOn
    <2>2. runner'[r].outcome = runner[r].outcome /\ runner[r].pc = "settle"
      BY <1>3, <1>8 DEF SettleRenew, Go, Runner
    <2> QED
      BY <1>1, <1>2, <2>1, <2>2 DEF ReportOK, Shown
  <1>9. CASE FailSession(r)
    BY <1>9 DEF FailSession
  <1> QED
    BY <1>4, <1>5, <1>6, <1>7, <1>8, <1>9, RunnerGoes DEF GoesOn

\* A job is completed by the runner that owns it.
LEMMA CompletedByOwner ==
  ASSUME Callers = {}, LoopInv, [LoopNext]_loopVars, NEW i \in DOMAIN loops',
         loops'[i].status = "completed"
  PROVE  /\ i \in DOMAIN loops
         /\ loops'[i].start = loops[i].start /\ loops'[i].end = loops[i].end
         /\ \/ loops[i].status = "completed"
            \/ \E r \in Runners : Acknowledge(r) /\ Holds(r) /\ runner[r].on = i
                                  /\ (session = "open" => runner[r].outcome = "ok")
  <1>1. LoopTypeOK /\ JobsMove
    BY LoopMoves DEF LoopInv, LoopStep
  <1>2. Became(i)
    BY <1>1, AllBecame
  <1>3. /\ i \in DOMAIN loops
        /\ loops'[i].start = loops[i].start /\ loops'[i].end = loops[i].end
        /\ loops[i].status \in {"running", "completed"}
    BY <1>2 DEF Became
  <1>4. ASSUME loops[i].status = "running"
        PROVE  \E r \in Runners : Acknowledge(r) /\ Holds(r) /\ runner[r].on = i
                                  /\ (session = "open" => runner[r].outcome = "ok")
    <2>1. CASE Calm
      BY <1>1, <1>3, <1>4, <2>1, CalmKeeps
    <2>2. ASSUME NEW q \in Runners, NEW k \in DOMAIN loops, StartJob(q, k) PROVE FALSE
      <3>1. WorkerOf[q] \in Names
        BY DEF Names
      <3>2. loops' = [loops EXCEPT ![k] = StartedJob(k, WorkerOf[q])]
        BY <1>1, <2>2, <3>1, StartShape DEF StartJob, Starts
      <3>3. loops'[i] = IF i = k THEN StartedJob(k, WorkerOf[q]) ELSE loops[i]
        BY <1>1, <1>3, <3>1, <3>2, Rewrite, StartedFields
      <3>4. StartedJob(k, WorkerOf[q]).status = "running"
        BY <1>1, <3>1, StartedFields
      <3> QED
        BY <1>4, <3>3, <3>4
    <2>3. ASSUME NEW q \in Runners, Acknowledge(q)
          PROVE  Holds(q) /\ runner[q].on = i /\ (session = "open" => runner[q].outcome = "ok")
      <3>1. runner[q].on \in DOMAIN loops /\ (session = "open" => runner[q].outcome = "ok")
        BY <2>3 DEF LoopInv, RunnerOK, Acknowledge
      <3>2. Completes(runner[q].on) \/ Fails(runner[q].on)
        BY <1>1, <2>3, <3>1, CompleteShape, FailShape DEF Acknowledge
      <3>3. \A j \in DOMAIN loops : j # runner[q].on => loops'[j] = loops[j]
        BY <1>1, <3>1, <3>2, Rewrite, CompletedFields, FailedFields DEF Completes, Fails
      <3>4. runner[q].on = i
        BY <1>3, <1>4, <3>3
      <3>5. Holds(q)
        BY <2>3 DEF Holds, Acknowledge, complete_session_loop_job, fail_session_loop_job
      <3> QED
        BY <3>1, <3>4, <3>5
    <2>4. ASSUME NEW c \in Callers, AdapterStart(c) \/ AdapterFinish(c) PROVE FALSE
      BY <2>4 DEF LoopInv, CallOK, AdapterStart, AdapterFinish
    <2> QED
      BY <2>1, <2>2, <2>3, <2>4, Movers
  <1> QED
    BY <1>3, <1>4

\* Where the session stays open, a completion is recorded by CompleteTask.
LEMMA WhoCompletes ==
  ASSUME Callers = {}, LoopInv, [LoopNext]_loopVars, session' = "open",
         NEW s \in DOMAIN log', s \notin DOMAIN log, log'[s].kind = "complete_task"
  PROVE  \E r \in Runners : CompleteTask(r, "complete_task")
  <1>1. LoopTypeOK /\ QueueInv /\ BoundInv /\ CursorInv
    BY DEF LoopInv
  <1>2. ASSUME NEW event \in Event, NEW x, append_event(event, x)
        PROVE  event.kind = "complete_task"
    BY <1>1, <1>2, AppendMoves
  <1>3. ASSUME NEW kind \in Kinds, NEW x, append_event(Plain(kind), x)
        PROVE  kind = "complete_task"
    BY <1>2, <1>3, EventTypes
  <1>4. ASSUME NEW kind \in Kinds, NEW e \in Execs, NEW x, append_event(About(kind, e), x)
        PROVE  kind = "complete_task"
    BY <1>2, <1>4, EventTypes
  <1>5. log' # log
    OBVIOUS
  <1>6. ~UNCHANGED loopVars /\ ~AppendInput /\ ~AppendNote /\ ~Terminate
    BY <1>3, <1>5 DEF loopVars, AppendInput, AppendNote, Terminate, Kinds
  <1>7. ASSUME NEW e \in Execs, RequestApproval(e) \/ ExecStep(e) PROVE FALSE
    BY <1>3, <1>4, <1>5, <1>7
       DEF RequestApproval, ExecStep, Approve, Reject, RecordResult, CompleteExec, FailExec,
           EndExecSilently, Kinds
  <1>8. ASSUME NEW r \in Runners, RunnerStep(r) \/ RenewLate(r) \/ CrashRunner(r)
        PROVE  CompleteTask(r, "complete_task")
    <2>1. \/ FinishTurn(r) \/ CompleteTask(r, "complete_task") \/ CompleteTask(r, "blocked")
      BY <1>5, <1>8
         DEF RunnerStep, ResumeCompletion, SettleRenew, FailSession, Acknowledge, LoseJob,
             RenewLate, CrashRunner
    <2>2. ~FinishTurn(r)
      BY <1>5 DEF FinishTurn
    <2>3. ~CompleteTask(r, "blocked")
      BY <1>3 DEF CompleteTask, Kinds
    <2> QED
      BY <2>1, <2>2, <2>3
  <1> QED
    BY <1>5, <1>6, <1>7, <1>8 DEF LoopNext, LoopLeaseExpires, StartJob, Callers

\* The window of the running job was shown before a completion after it counts.
LEMMA RunningShown ==
  ASSUME Callers = {}, LoopInv, WindowInv, CoverInv, SeenInv, [LoopNext]_loopVars,
         session' = "open", ~stray', NEW i \in DOMAIN loops', NEW s \in DOMAIN log',
         loops'[i].status = "running", log'[s].kind = "complete_task", loops'[i].end < s
  PROVE  Shown(loops[i].start, loops[i].end)'
  <1>1. session = "open" /\ ~stray /\ seen \subseteq seen'
    BY SeenGrows, LoopMoves DEF LoopStep, SessionMove
  <1>2. LoopTypeOK /\ QueueInv /\ JobsMove /\ LogMove
    BY LoopMoves DEF LoopInv, LoopStep
  <1>3. /\ i \in DOMAIN loops /\ loops[i].status \in {"queued", "running"}
        /\ loops'[i].start = loops[i].start /\ loops'[i].end = loops[i].end
    <2>1. Became(i)
      BY <1>2, AllBecame
    <2> QED
      BY <2>1 DEF Became
  <1>4. SUFFICES Shown(loops[i].start, loops[i].end) \/ loops[i].start .. loops[i].end \subseteq seen'
    BY <1>1, <1>3 DEF Shown
  <1>5. CASE s \in DOMAIN log
    <2>1. log'[s] = log[s]
      BY <1>2, <1>5, LogGrows
    <2>2. CASE loops[i].status = "running"
      BY <1>1, <1>3, <1>5, <2>1, <2>2 DEF SeenInv
    <2>3. CASE loops[i].status = "queued"
      <3>1. PICK k \in DOMAIN loops : ~(loops[k].end < s)
        BY <1>1, <1>5, <2>1 DEF CoverInv, Ahead
      <3>2. /\ loops[i] \in LoopJob /\ loops[k] \in LoopJob
            /\ s \in Nat /\ i = Len(loops) /\ k \in 1 .. Len(loops) /\ Len(loops) \in Nat
        BY <1>2, <1>3, <1>5, <2>3, <3>1 DEF LoopTypeOK, QueueInv
      <3>3. /\ loops[i].end \in Nat /\ loops[k].end \in Nat /\ loops[i].start \in Nat
        BY <3>2 DEF LoopJob
      <3>4. k # i
        BY <1>3, <3>1
      <3>5. k < i
        BY <3>2, <3>4
      <3>6. loops[k].end < loops[i].start /\ loops[i].start <= loops[i].end
        BY <1>3, <3>1, <3>5 DEF WindowInv, WindowsFollow
      <3>7. loops[i].end < s
        BY <1>3
      <3> QED
        BY <3>1, <3>2, <3>3, <3>6, <3>7
    <2> QED
      BY <1>3, <2>2, <2>3
  <1>6. CASE s \notin DOMAIN log
    <2>1. PICK r \in Runners : CompleteTask(r, "complete_task")
      BY <1>6, WhoCompletes
    <2>2. loops[runner[r].on].status = "running" /\ runner[r].on \in DOMAIN loops
      BY <1>2, <2>1 DEF CompleteTask, LoopInv, RunnerOK, LoopTypeOK
    <2>3. Calm
      <3>1. Plain("complete_task") \in Event
        BY EventTypes DEF Kinds
      <3>2. append_event(Plain("complete_task"), execs)
        BY <2>1 DEF CompleteTask
      <3>3. loops' = loops \/ \E job \in LoopJob : Enqueues(job)
        BY <1>2, <3>1, <3>2, AppendMoves DEF LoopInv
      <3> QED
        BY <3>3 DEF Calm
    <2>4. loops[i].status = "running"
      BY <1>2, <1>3, <2>3, CalmKeeps
    <2>5. runner[r].on = i
      BY <1>2, <1>3, <2>2, <2>4 DEF QueueInv
    <2>6. runner[r].start = loops[i].start /\ runner[r].end = loops[i].end
      BY <2>1, <2>5 DEF SeenInv, Claimed, CompleteTask
    <2>7. loops[i].start # 0 => Window(r) = loops[i].start .. loops[i].end
      BY <2>6 DEF Window
    <2>8. seen' = seen \cup Window(r)
      BY <2>1 DEF CompleteTask
    <2> QED
      BY <2>7, <2>8 DEF Shown
  <1> QED
    BY <1>5, <1>6

LEMMA SeenKept ==
  ASSUME Callers = {}, LoopInv, WindowInv, CoverInv, SeenInv, [LoopNext]_loopVars
  PROVE  SeenInv'
  <1>1. \A r \in Runners : Claimed(r)'
    BY ClaimedKept DEF SeenInv
  <1>2. SUFFICES ASSUME session' = "open", ~stray'
                 PROVE  /\ \A r \in Runners : ReportOK(r)'
                        /\ \A i \in DOMAIN loops' : loops'[i].status = "completed" =>
                              Shown(loops[i].start, loops[i].end)'
                        /\ \A i \in DOMAIN loops', s \in DOMAIN log' :
                              (loops'[i].status = "running" /\ log'[s].kind = "complete_task"
                               /\ loops'[i].end < s) => Shown(loops[i].start, loops[i].end)'
    BY <1>1 DEF SeenInv
  <1>3. session = "open" /\ ~stray /\ seen \subseteq seen'
    BY <1>2, SeenGrows, LoopMoves DEF LoopStep, SessionMove
  <1>4. \A r \in Runners : ReportOK(r)'
    BY <1>2, ReportKept
  <1>5. ASSUME NEW i \in DOMAIN loops', loops'[i].status = "completed"
        PROVE  Shown(loops[i].start, loops[i].end)'
    <2>1. /\ i \in DOMAIN loops
          /\ loops'[i].start = loops[i].start /\ loops'[i].end = loops[i].end
          /\ \/ loops[i].status = "completed"
             \/ \E r \in Runners : Acknowledge(r) /\ Holds(r) /\ runner[r].on = i
                                   /\ runner[r].outcome = "ok"
      BY <1>3, <1>5, CompletedByOwner
    <2>2. Shown(loops[i].start, loops[i].end)
      <3>1. CASE loops[i].status = "completed"
        BY <1>3, <2>1, <3>1 DEF SeenInv
      <3>2. ASSUME NEW r \in Runners, Acknowledge(r), Holds(r), runner[r].on = i,
                   runner[r].outcome = "ok"
            PROVE  Shown(loops[i].start, loops[i].end)
        <4>1. runner[r].start = loops[i].start /\ runner[r].end = loops[i].end
          BY <3>2 DEF SeenInv, Claimed, Holds
        <4>2. Shown(runner[r].start, runner[r].end)
          BY <1>3, <3>2 DEF SeenInv, ReportOK, Acknowledge
        <4> QED
          BY <4>1, <4>2
      <3> QED
        BY <2>1, <3>1, <3>2
    <2> QED
      BY <1>3, <2>1, <2>2 DEF Shown
  <1>6. ASSUME NEW i \in DOMAIN loops', NEW s \in DOMAIN log', loops'[i].status = "running",
               log'[s].kind = "complete_task", loops'[i].end < s
        PROVE  Shown(loops[i].start, loops[i].end)'
    BY <1>2, <1>6, RunningShown
  <1> QED
    BY <1>4, <1>5, <1>6

\* Without direct callers, and as long as no worker completed a task after
\* another one had settled its job, an input of an open session is marked as
\* processed only when the model has seen it.
THEOREM AcknowledgedWasSeenHolds ==
  ASSUME Callers = {}
  PROVE  LoopSpec => []AcknowledgedWasSeen
  <1>1. LoopInit => SeenInv
    <2> SUFFICES ASSUME LoopInit PROVE SeenInv
      OBVIOUS
    <2>1. DOMAIN loops = {} /\ DOMAIN log = {}
      BY EmptySeq DEF LoopInit
    <2> QED
      BY <2>1 DEF LoopInit, SeenInv, Claimed, ReportOK, IdleRunner
  <1>2. LoopInv /\ (OrderInv /\ WindowInv /\ CoverInv) /\ SeenInv /\ [LoopNext]_loopVars
           => SeenInv'
    BY SeenKept
  <1>3. LoopInv /\ SeenInv => AcknowledgedWasSeen
    <2> SUFFICES ASSUME LoopInv, SeenInv, session = "open", ~stray,
                        NEW i \in DOMAIN loops, NEW s \in DOMAIN log,
                        loops[i].status = "completed", InWindow(i, s)
                 PROVE  s \in seen
      BY DEF AcknowledgedWasSeen
    <2>1. loops[i] \in LoopJob /\ s \in Nat
      BY DEF LoopInv, LoopTypeOK
    <2>2. s \in loops[i].start .. loops[i].end
      BY <2>1 DEF InWindow, LoopJob
    <2> QED
      BY <2>2 DEF SeenInv, Shown, InWindow
  <1> QED
    BY <1>1, <1>2, <1>3, LoopInvariant, CoverInvariant, PTL DEF LoopSpec
=============================================================================
