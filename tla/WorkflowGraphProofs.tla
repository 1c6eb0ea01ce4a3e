------------------------- MODULE WorkflowGraphProofs -------------------------
(***************************************************************************)
(* Proofs about WorkflowGraph, for any number of steps, workers, deaths and *)
(* stalls of workers.  Whatever leases run out: the types, for every        *)
(* validated graph, and, for graphs whose steps share the session of the    *)
(* run, that a step runs after its dependencies.  As long as no living      *)
(* worker outlasts a lease, for the same graphs: that step keys are         *)
(* reserved, that an ended run is settled and stays as it is, and that the  *)
(* cap on parallel steps is kept.                                           *)
(***************************************************************************)
EXTENDS WorkflowGraph, FiniteSetTheorems, TLAPS

-----------------------------------------------------------------------------
(* The inductive invariant for every graph *)

Places == {"idle", "claim", "claimed", "late", "turn", "settle", "record", "ack",
           "scan", "create", "look",
           "completed?", "failed?", "action?", "write", "finish", "failed",
           "policy", "retry"}
Row  == [key : Keys, status : RowStatus, job : JobStatus,
         by : Workers \cup {NoWorker}, owner : Workers \cup {NoWorker}]
Item == [key : Keys, status : {"queued", "skipped", "blocked"}]
Doing == [at : Places, row : Nat, run : Executable \cup Ended, todo : SUBSET Item,
          target : Executable \cup Ended, was : Active \cup {"none"}]

ShapeInv ==
    /\ def \in Definitions
    /\ run \in Executable \cup Ended
    /\ rows \in Seq(Row)
    /\ session \in {"open", "failed", "terminated"}
    /\ worker \in [Workers -> Doing]
    /\ crashes \in Nat

\* The worker has the session loop job of its step.
Holding(w) == worker[w].row # 0 /\ worker[w].at \notin {"idle", "claim", "claimed", "late"}

\* What a worker that outlasts no lease knows of its step, whatever the others
\* do.  Only the activation of due steps is about no step.
PlaceOK(w) ==
    LET i == worker[w].row IN
    /\ i \in 0..Len(rows)
    /\ i = 0 => worker[w].at \in {"idle", "write", "ack"} /\ worker[w].target = "running"
    /\ At(w, "claim") => rows[i].status # "scheduled"
    /\ ~At(w, "late")
    /\ At(w, "claimed") => rows[i].status = "running" /\ rows[i].job = "none" /\ rows[i].by = w
    /\ worker[w].at \in {"turn", "settle", "record"} => rows[i].status \in Active
    /\ worker[w].at \in {"turn", "settle"} =>
          \/ worker[w].was = "none"
          \/ worker[w].was = "running" /\ rows[i].status = "running" /\ rows[i].by = w
    /\ At(w, "record") =>
          /\ worker[w].was = rows[i].status /\ (rows[i].status = "running" => rows[i].by = w)
          /\ worker[w].target \in Ended \cup Active
    /\ Holding(w) => rows[i].job = "held" /\ rows[i].owner = w

RowOK(i) == rows[i].status \in {"queued", "scheduled"} => rows[i].job = "none"

Engaged(w) == At(w, "claimed") \/ Holding(w)

\* No two workers are engaged with one step.
Apart(v, w) == Engaged(v) /\ Engaged(w) /\ worker[v].row = worker[w].row => v = w

TypeInv ==
    /\ ShapeInv
    /\ \A w \in Workers : PlaceOK(w)
    /\ \A i \in DOMAIN rows : RowOK(i)
    /\ \A v, w \in Workers : Apart(v, w)
-----------------------------------------------------------------------------
(* Types, for every graph *)

LEMMA RowUpdate ==
  ASSUME rows \in Seq(Row), NEW i \in DOMAIN rows, NEW r \in Row
  PROVE  /\ [rows EXCEPT ![i] = r] \in Seq(Row)
         /\ Len([rows EXCEPT ![i] = r]) = Len(rows)
         /\ DOMAIN [rows EXCEPT ![i] = r] = DOMAIN rows
  OBVIOUS

LEMMA RowAppend ==
  ASSUME rows \in Seq(Row), NEW r \in Row
  PROVE  /\ Append(rows, r) \in Seq(Row)
         /\ Len(Append(rows, r)) = Len(rows) + 1
         /\ DOMAIN rows = 1..Len(rows)
         /\ DOMAIN Append(rows, r) = 1..(Len(rows) + 1)
         /\ \A i \in DOMAIN rows : Append(rows, r)[i] = rows[i]
         /\ Append(rows, r)[Len(rows) + 1] = r
  OBVIOUS

\* A step of worker w: no other worker is engaged with a step run that it
\* changes, or with the one that it turns to.
LEMMA TypeStep ==
  ASSUME TypeInv, NEW w \in Workers, NEW rec \in Doing,
         worker' = [worker EXCEPT ![w] = rec], def' = def,
         run' \in Executable \cup Ended, session' \in {"open", "failed", "terminated"},
         crashes' \in Nat, rows' \in Seq(Row), Len(rows) <= Len(rows'),
         \A i \in DOMAIN rows :
            \/ rows'[i] = rows[i]
            \/ /\ rows'[i].status # "scheduled"
               /\ \A v \in Workers \ {w} : worker[v].row = i => ~Engaged(v),
         \A i \in DOMAIN rows' : RowOK(i)',
         PlaceOK(w)',
         Engaged(w)' => \A v \in Workers \ {w} : worker[v].row = rec.row => ~Engaged(v)
  PROVE  TypeInv'
  <1>1. ShapeInv'
    BY DEF TypeInv, ShapeInv
  <1>2. \A v \in Workers \ {w} : worker'[v] = worker[v]
    BY DEF TypeInv, ShapeInv
  <1>3. worker'[w] = rec
    BY DEF TypeInv, ShapeInv
  <1>4. \A v \in Workers \ {w} : Engaged(v)' <=> Engaged(v)
    BY <1>2 DEF Engaged, Holding, At
  <1>5. ASSUME NEW v \in Workers \ {w} PROVE PlaceOK(v)'
    <2>1. PlaceOK(v) /\ worker'[v] = worker[v]
      BY <1>2 DEF TypeInv
    <2>2. worker[v].row \in Nat /\ Len(rows) \in Nat /\ Len(rows') \in Nat
      BY DEF TypeInv, ShapeInv, Doing
    <2>3. worker'[v].row \in 0..Len(rows')
      BY <2>1, <2>2 DEF PlaceOK
    <2>4. CASE worker[v].row = 0
      BY <2>1, <2>3, <2>4 DEF PlaceOK, At, Holding
    <2>5. CASE worker[v].row # 0
      <3>1. worker[v].row \in DOMAIN rows
        BY <2>1, <2>2, <2>5 DEF PlaceOK, TypeInv, ShapeInv
      <3>2. CASE rows'[worker[v].row] = rows[worker[v].row]
        BY <2>1, <2>3, <3>2 DEF PlaceOK, At, Holding
      <3>3. CASE rows'[worker[v].row].status # "scheduled" /\ ~Engaged(v)
        BY <2>1, <2>3, <2>5, <3>3 DEF PlaceOK, At, Holding, Engaged
      <3> QED
        BY <3>1, <3>2, <3>3
    <2> QED
      BY <2>4, <2>5
  <1>6. \A u, v \in Workers : Apart(u, v)'
    <2> SUFFICES ASSUME NEW u \in Workers, NEW v \in Workers, Engaged(u)', Engaged(v)',
                        worker'[u].row = worker'[v].row
                 PROVE  u = v
      BY DEF Apart
    <2>1. CASE u # w /\ v # w
      BY <1>2, <1>4, <2>1 DEF TypeInv, Apart
    <2>2. CASE u = w \/ v = w
      BY <1>2, <1>3, <1>4, <2>2
    <2> QED
      BY <2>1, <2>2
  <1> QED
    BY <1>1, <1>5, <1>6 DEF TypeInv

\* The same for a step that changes no step run.
LEMMA WorkerOnly ==
  ASSUME TypeInv, NEW w \in Workers, NEW rec \in Doing,
         worker' = [worker EXCEPT ![w] = rec], UNCHANGED <<def, rows>>,
         run' \in Executable \cup Ended, session' \in {"open", "failed", "terminated"},
         crashes' \in Nat,
         PlaceOK(w)',
         Engaged(w)' => Engaged(w) /\ rec.row = worker[w].row
  PROVE  TypeInv'
  <1>1. rows' \in Seq(Row) /\ Len(rows) <= Len(rows') /\ \A i \in DOMAIN rows' : RowOK(i)'
    <2>1. rows \in Seq(Row) /\ Len(rows) \in Nat
      BY DEF TypeInv, ShapeInv
    <2>2. \A i \in DOMAIN rows : RowOK(i)
      BY DEF TypeInv
    <2> QED
      BY <2>1, <2>2 DEF RowOK
  <1>2. Engaged(w)' => \A v \in Workers \ {w} : worker[v].row = rec.row => ~Engaged(v)
    BY DEF TypeInv, Apart
  <1> QED
    BY <1>1, <1>2, TypeStep

\* A step of worker w that changes step run i.
LEMMA OneRow ==
  ASSUME TypeInv, NEW w \in Workers, NEW rec \in Doing, NEW i \in DOMAIN rows, NEW r \in Row,
         worker' = [worker EXCEPT ![w] = rec], rows' = [rows EXCEPT ![i] = r],
         def' = def, run' = run, session' = session, crashes' \in Nat,
         r.status # "scheduled", r.status = "queued" => r.job = "none",
         \A v \in Workers \ {w} : worker[v].row = i => ~Engaged(v),
         PlaceOK(w)',
         Engaged(w)' => rec.row = i
  PROVE  TypeInv'
  <1>1. rows' \in Seq(Row) /\ Len(rows') = Len(rows) /\ DOMAIN rows' = DOMAIN rows
    BY RowUpdate DEF TypeInv, ShapeInv
  <1>2. \A k \in DOMAIN rows : rows'[k] = IF k = i THEN r ELSE rows[k]
    BY DEF TypeInv, ShapeInv
  <1>3. \A k \in DOMAIN rows' : RowOK(k)'
    BY <1>1, <1>2 DEF TypeInv, RowOK
  <1>4. Len(rows) <= Len(rows') /\ run \in Executable \cup Ended
           /\ session \in {"open", "failed", "terminated"}
    BY <1>1 DEF TypeInv, ShapeInv
  <1> QED
    BY <1>1, <1>2, <1>3, <1>4, TypeStep

\* A step of worker w that inserts a step run.
LEMMA NewRowStep ==
  ASSUME TypeInv, NEW w \in Workers, NEW rec \in Doing, NEW r \in Row,
         worker' = [worker EXCEPT ![w] = rec], rows' = Append(rows, r),
         def' = def, run' = run, session' = session, crashes' = crashes,
         r.job = "none", Engaged(w), rec.row = worker[w].row, Holding(w),
         rec.at \in {"create", "scan", "policy", "write"}
  PROVE  TypeInv'
  <1>1. /\ rows' \in Seq(Row) /\ Len(rows') = Len(rows) + 1
        /\ DOMAIN rows = 1..Len(rows) /\ DOMAIN rows' = 1..(Len(rows) + 1)
        /\ \A i \in DOMAIN rows : rows'[i] = rows[i]
        /\ rows'[Len(rows) + 1] = r
    BY RowAppend DEF TypeInv, ShapeInv
  <1>2. Len(rows) \in Nat
    BY DEF TypeInv, ShapeInv
  <1>3. \A k \in DOMAIN rows' : RowOK(k)'
    <2> SUFFICES ASSUME NEW k \in DOMAIN rows' PROVE RowOK(k)'
      OBVIOUS
    <2>1. CASE k \in DOMAIN rows
      BY <1>1, <2>1 DEF TypeInv, RowOK
    <2>2. CASE k = Len(rows) + 1
      BY <1>1, <2>2 DEF RowOK
    <2> QED
      BY <1>1, <1>2, <2>1, <2>2
  <1>4. PlaceOK(w) /\ worker[w].row \in Nat
    BY DEF TypeInv, ShapeInv, Doing
  <1>5. worker[w].row \in DOMAIN rows
    BY <1>1, <1>2, <1>4 DEF PlaceOK, Holding
  <1>6. worker'[w] = rec
    BY DEF TypeInv, ShapeInv
  <1>7. PlaceOK(w)'
    BY <1>1, <1>2, <1>4, <1>5, <1>6 DEF PlaceOK, At, Holding
  <1>8. \A v \in Workers \ {w} : worker[v].row = rec.row => ~Engaged(v)
    BY DEF TypeInv, Apart
  <1>9. Len(rows) <= Len(rows') /\ run \in Executable \cup Ended /\ crashes \in Nat
           /\ session \in {"open", "failed", "terminated"}
    BY <1>1, <1>2 DEF TypeInv, ShapeInv
  <1> QED
    BY <1>1, <1>3, <1>7, <1>8, <1>9, TypeStep

LEMMA IdleIsDoing == Idle \in Doing
  BY DEF Idle, Doing, Places, Executable, Ended, Active

\* The fences of a worker that outlasts no lease never turn it away.
LEMMA HolderHasJob ==
  ASSUME TypeInv, NEW w \in Workers
  PROVE  HasJob(w) <=> Holding(w)
  BY DEF TypeInv, PlaceOK, HasJob, Working, Holding

LEMMA InitTyped == GraphInit => TypeInv
  <1> SUFFICES ASSUME GraphInit PROVE TypeInv
    OBVIOUS
  <1>1. PICK start \in [1..Cardinality(def.starts) -> def.starts] :
           rows = [i \in DOMAIN start |-> NewRow(start[i], "queued")]
    BY DEF GraphInit
  <1>2. def \in DefinitionType /\ IsFiniteSet(Keys)
    BY GraphAssumption DEF GraphInit
  <1>3. def.starts \subseteq Keys
    BY <1>2 DEF DefinitionType
  <1>4. Cardinality(def.starts) \in Nat
    BY <1>2, <1>3, FS_Subset, FS_CardinalityType
  <1>5. \A k \in Keys : NewRow(k, "queued") \in Row
    BY DEF NewRow, Row, RowStatus, JobStatus
  <1>6. rows \in [1..Cardinality(def.starts) -> Row]
    BY <1>1, <1>3, <1>5
  <1>7. rows \in Seq(Row)
    BY <1>4, <1>6
  <1>8. \A i \in DOMAIN rows : RowOK(i)
    BY <1>1 DEF RowOK, NewRow
  <1>9. ShapeInv
    BY <1>7, IdleIsDoing DEF GraphInit, ShapeInv, Executable
  <1>10. Len(rows) \in Nat
    BY <1>7
  <1>12. \A w \in Workers : worker[w] = Idle
    BY DEF GraphInit
  <1>11. \A w \in Workers : PlaceOK(w) /\ ~Engaged(w)
    BY <1>10, <1>12 DEF PlaceOK, At, Holding, Engaged, Idle
  <1> QED
    BY <1>8, <1>9, <1>11 DEF TypeInv, Apart

\* What the steps of a worker start from.
LEMMA AtHand ==
  ASSUME TypeInv, NEW w \in Workers
  PROVE  /\ worker[w] \in Doing /\ PlaceOK(w) /\ def \in DefinitionType
         /\ worker[w].row # 0 =>
               worker[w].row \in DOMAIN rows /\ rows[worker[w].row] \in Row
  <1>1. worker[w] \in Doing /\ PlaceOK(w) /\ rows \in Seq(Row)
    BY DEF TypeInv, ShapeInv
  <1>2. worker[w].row \in Nat /\ Len(rows) \in Nat /\ DOMAIN rows = 1..Len(rows)
    BY <1>1 DEF Doing
  <1>3. worker[w].row # 0 => worker[w].row \in DOMAIN rows
    BY <1>1, <1>2 DEF PlaceOK
  <1>4. def \in DefinitionType
    BY GraphAssumption DEF TypeInv, ShapeInv
  <1> QED
    BY <1>1, <1>3, <1>4

LEMMA PickType ==
  ASSUME TypeInv, NEW w \in Workers, NEW i \in DOMAIN rows, Pick(w, i)
  PROVE  TypeInv'
  <1> DEFINE rec == [Idle EXCEPT !.at = "claim", !.row = i, !.run = run]
  <1>1. rows \in Seq(Row) /\ run \in Executable \cup Ended /\ i \in 1..Len(rows)
           /\ crashes \in Nat /\ session \in {"open", "failed", "terminated"}
    BY DEF TypeInv, ShapeInv
  <1>4. rec.at = "claim" /\ rec.row = i /\ i # 0 /\ i \in Nat /\ i \in 0..Len(rows)
    BY <1>1 DEF Idle
  <1>2. rec \in Doing
    BY <1>1, <1>4 DEF Doing, Idle, Places, Executable, Ended, Active
  <1>3. worker' = [worker EXCEPT ![w] = rec] /\ worker'[w] = rec /\ rows' = rows
    BY DEF Pick, TypeInv, ShapeInv
  <1>5. rows[i].status # "scheduled"
    BY DEF Pick, Abandoned
  <1>6. PlaceOK(w)' /\ ~Engaged(w)'
    BY <1>3, <1>4, <1>5 DEF PlaceOK, At, Holding, Engaged
  <1> QED
    BY <1>1, <1>2, <1>3, <1>6, WorkerOnly DEF Pick

\* A worker without a job goes idle.
LEMMA Leaves ==
  ASSUME TypeInv, NEW w \in Workers, worker' = [worker EXCEPT ![w] = Idle],
         UNCHANGED <<def, rows, run, session>>, crashes' \in Nat
  PROVE  TypeInv'
  <1>1. worker'[w] = Idle /\ Len(rows') \in Nat
    BY DEF TypeInv, ShapeInv
  <1>2. PlaceOK(w)' /\ ~Engaged(w)'
    BY <1>1 DEF PlaceOK, At, Holding, Engaged, Idle
  <1>3. run' \in Executable \cup Ended /\ session' \in {"open", "failed", "terminated"}
    BY DEF TypeInv, ShapeInv
  <1> QED
    BY <1>2, <1>3, IdleIsDoing, WorkerOnly

\* A worker gives up its job, which becomes done or lost.
LEMMA Releases ==
  ASSUME TypeInv, NEW w \in Workers, worker' = [worker EXCEPT ![w] = Idle], Holding(w),
         NEW j \in {"lost", "done"}, rows' = [rows EXCEPT ![worker[w].row].job = j],
         UNCHANGED <<def, run, session>>, crashes' \in Nat
  PROVE  TypeInv'
  <1> DEFINE i == worker[w].row
             r == [rows[i] EXCEPT !.job = j]
  <1>1. i \in DOMAIN rows /\ rows[i] \in Row /\ PlaceOK(w)
    BY AtHand DEF Holding
  <1>2. r \in Row /\ r.status = rows[i].status /\ r.job = j
    BY <1>1 DEF Row, JobStatus
  <1>3. rows' = [rows EXCEPT ![i] = r]
    OBVIOUS
  <1>4. worker'[w] = Idle /\ Len(rows') \in Nat
    <2>1. rows' \in Seq(Row)
      BY <1>1, <1>2, <1>3, RowUpdate DEF TypeInv, ShapeInv
    <2> QED
      BY <2>1 DEF TypeInv, ShapeInv
  <1>5. PlaceOK(w)' /\ ~Engaged(w)'
    BY <1>4 DEF PlaceOK, At, Holding, Engaged, Idle
  <1>6. \A v \in Workers \ {w} : worker[v].row = i => ~Engaged(v)
    BY DEF TypeInv, Apart, Engaged
  <1>7. rows[i].job = "held" /\ RowOK(i)
    BY <1>1 DEF PlaceOK, TypeInv
  <1>8. r.status # "scheduled" /\ r.status # "queued"
    BY <1>2, <1>7 DEF RowOK
  <1> QED
    BY <1>1, <1>2, <1>3, <1>5, <1>6, <1>8, IdleIsDoing, OneRow

LEMMA ClaimType ==
  ASSUME TypeInv, NEW w \in Workers, claim_workflow_step_run_if_available(w)
  PROVE  TypeInv'
  <1> DEFINE i == worker[w].row
             r == [rows[i] EXCEPT !.status = "running", !.by = w]
             rec == [worker[w] EXCEPT !.at = "claimed"]
  <1>1. At(w, "claim") /\ PlaceOK(w) /\ worker[w] \in Doing
    BY AtHand DEF claim_workflow_step_run_if_available
  <1>2. i \in DOMAIN rows /\ rows[i] \in Row
    BY <1>1, AtHand DEF PlaceOK, At
  <1>3. crashes \in Nat
    BY DEF TypeInv, ShapeInv
  <1>4. CASE ~(~Occupied(i) /\ (rows[i].status = "queued" \/ Abandoned(i)))
    BY <1>3, <1>4, Leaves DEF claim_workflow_step_run_if_available
  <1>5. CASE ~Occupied(i) /\ (rows[i].status = "queued" \/ Abandoned(i))
    <2>1. rows' = [rows EXCEPT ![i] = r] /\ worker' = [worker EXCEPT ![w] = rec]
             /\ UNCHANGED <<def, run, session, crashes>>
      BY <1>5 DEF claim_workflow_step_run_if_available, Go
    <2>2. r \in Row /\ r.status = "running" /\ r.job = rows[i].job /\ r.by = w
      BY <1>2 DEF Row, RowStatus, Active
    <2>3. rec \in Doing /\ rec.at = "claimed" /\ rec.row = i
      BY <1>1 DEF Doing, Places
    <2>4. rows[i].job = "none"
      BY <1>2, <1>5 DEF Abandoned, TypeInv, RowOK
    <2>5. \A v \in Workers \ {w} : worker[v].row = i => ~Engaged(v)
      <3> SUFFICES ASSUME NEW v \in Workers \ {w}, worker[v].row = i, Engaged(v) PROVE FALSE
        OBVIOUS
      <3>1. PlaceOK(v)
        BY DEF TypeInv
      <3>2. At(v, "claimed") /\ rows[i].status = "running"
        BY <2>4, <3>1 DEF PlaceOK, Engaged
      <3> QED
        BY <1>5, <3>2 DEF Abandoned
    <2>6. worker'[w] = rec /\ rows'[i] = r /\ rows' \in Seq(Row) /\ Len(rows') = Len(rows)
      BY <1>2, <2>1, <2>2, RowUpdate DEF TypeInv, ShapeInv
    <2>7. PlaceOK(w)'
      BY <1>1, <2>2, <2>3, <2>4, <2>6 DEF PlaceOK, At, Holding
    <2> QED
      BY <1>2, <1>3, <2>1, <2>2, <2>3, <2>5, <2>7, OneRow
  <1> QED
    BY <1>4, <1>5

\* A worker takes the job of step run i, with which no worker is engaged.
LEMMA Takes ==
  ASSUME TypeInv, NEW w \in Workers, NEW i \in DOMAIN rows, NEW rec \in Doing,
         rec.row = i, rec.at \in {"turn", "ack", "finish", "scan"},
         rec.at = "turn" => rows[i].status \in Active,
         rec.was # "none" => rec.was = "running" /\ rows[i].status = "running" /\ rows[i].by = w,
         rows[i].status \notin {"queued", "scheduled"},
         rows[i].job # "held", rows[i].job = "none" => At(w, "claimed") /\ worker[w].row = i,
         worker' = [worker EXCEPT ![w] = rec], rows' = Start(i, w),
         UNCHANGED <<def, run, session, crashes>>
  PROVE  TypeInv'
  <1> DEFINE r == [rows[i] EXCEPT !.job = "held", !.owner = w]
  <1>1. rows \in Seq(Row) /\ i \in 1..Len(rows) /\ rows[i] \in Row /\ crashes \in Nat
    BY DEF TypeInv, ShapeInv
  <1>2. /\ r \in Row /\ r.status = rows[i].status /\ r.by = rows[i].by
        /\ r.job = "held" /\ r.owner = w
    BY <1>1 DEF Row, JobStatus
  <1>3. rows' = [rows EXCEPT ![i] = r]
    BY DEF Start
  <1>4. \A v \in Workers \ {w} : worker[v].row = i => ~Engaged(v)
    <2> SUFFICES ASSUME NEW v \in Workers \ {w}, worker[v].row = i, Engaged(v) PROVE FALSE
      OBVIOUS
    <2>1. PlaceOK(v)
      BY DEF TypeInv
    <2>2. At(v, "claimed") /\ rows[i].job = "none"
      BY <2>1 DEF PlaceOK, Engaged
    <2> QED
      BY <2>2 DEF TypeInv, Apart, Engaged
  <1>5. worker'[w] = rec /\ rows'[i] = r /\ Len(rows') = Len(rows) /\ i # 0
    BY <1>1, <1>2, <1>3, RowUpdate DEF TypeInv, ShapeInv
  <1> HIDE DEF r
  <1>6. PlaceOK(w)'
    BY <1>1, <1>2, <1>5 DEF PlaceOK, At, Holding
  <1> QED
    BY <1>1, <1>2, <1>3, <1>4, <1>6, OneRow

LEMMA StartJobType ==
  ASSUME TypeInv, NEW w \in Workers, StartJob(w)
  PROVE  TypeInv'
  <1> DEFINE i == worker[w].row
             rec == [worker[w] EXCEPT !.at = "turn", !.was = "running"]
  <1>1. At(w, "claimed") /\ PlaceOK(w) /\ worker[w] \in Doing
    BY AtHand DEF StartJob, PlaceOK
  <1>2. i \in DOMAIN rows /\ rows[i].status = "running" /\ rows[i].job = "none" /\ rows[i].by = w
    BY <1>1, AtHand DEF PlaceOK, At
  <1>3. rec \in Doing /\ rec.row = i /\ rec.at = "turn" /\ rec.was = "running"
    BY <1>1 DEF Doing, Places, Active
  <1>4. CASE JobRuns(i) \/ ForeignClaim(w, i)
    BY <1>4, Leaves DEF StartJob, TypeInv, ShapeInv
  <1>5. CASE ~(JobRuns(i) \/ ForeignClaim(w, i))
    <2>1. /\ worker' = [worker EXCEPT ![w] = rec] /\ rows' = Start(i, w)
          /\ UNCHANGED <<def, run, session, crashes>>
      BY <1>5 DEF StartJob
    <2> QED
      BY <1>1, <1>2, <1>3, <2>1, Takes DEF Active
  <1> QED
    BY <1>4, <1>5

LEMMA ResumeType ==
  ASSUME TypeInv, NEW w \in Workers, NEW i \in DOMAIN rows, Resume(w, i)
  PROVE  TypeInv'
  <1> DEFINE rec == [Idle EXCEPT !.at = "turn", !.row = i]
  <1>1. i \in Nat
    BY DEF TypeInv, ShapeInv
  <1>2. rec \in Doing /\ rec.row = i /\ rec.at = "turn" /\ rec.was = "none"
    BY <1>1 DEF Doing, Idle, Places, Executable, Ended, Active
  <1> QED
    BY <1>2, Takes DEF Resume, Active

LEMMA TakeOverType ==
  ASSUME TypeInv, NEW w \in Workers, NEW i \in DOMAIN rows, TakeOver(w, i)
  PROVE  TypeInv'
  <1> DEFINE at == resume_recorded_workflow_completion(i)
             rec == [Idle EXCEPT !.at = at, !.row = i, !.run = run]
  <1>1. run \in Executable \cup Ended /\ i \in Nat
    BY DEF TypeInv, ShapeInv
  <1>2. at \in {"turn", "ack", "finish", "scan"}
           /\ (at = "turn" => rows[i].status \in Active)
    BY DEF resume_recorded_workflow_completion
  <1>3. rec \in Doing /\ rec.row = i /\ rec.at = at /\ rec.was = "none"
    BY <1>1, <1>2 DEF Doing, Idle, Places, Executable, Ended, Active
  <1>4. rows[i].status \notin {"queued", "scheduled"}
    BY DEF TakeOver, TypeInv, RowOK
  <1> QED
    BY <1>2, <1>3, <1>4, Takes DEF TakeOver

LEMMA SettleType ==
  ASSUME TypeInv, NEW w \in Workers, Settle(w)
  PROVE  TypeInv' /\ rows' = rows /\ worker' = [worker EXCEPT ![w] = [worker[w] EXCEPT !.at = "settle"]]
  <1> DEFINE i == worker[w].row
             rec == [worker[w] EXCEPT !.at = "settle"]
  <1>1. At(w, "turn") /\ PlaceOK(w) /\ worker[w] \in Doing
    BY AtHand DEF Settle
  <1>2. i \in DOMAIN rows /\ rows[i] \in Row /\ i # 0
    BY <1>1, AtHand DEF PlaceOK, At
  <1>3. Holding(w) /\ rows[i].job = "held"
    BY <1>1, <1>2 DEF PlaceOK, At, Holding
  <1>4. rec \in Doing /\ rec.at = "settle" /\ rec.row = i /\ rec.was = worker[w].was
    BY <1>1 DEF Doing, Places
  <1>5. worker' = [worker EXCEPT ![w] = rec] /\ rows' = [rows EXCEPT ![i].job = "held"]
           /\ UNCHANGED <<def, run, session, crashes>>
    BY <1>3, HolderHasJob DEF Settle, Go
  <1>6. rows' = rows
    <2>1. [rows[i] EXCEPT !.job = "held"] = rows[i]
      BY <1>2, <1>3 DEF Row
    <2> QED
      BY <1>2, <1>5, <2>1 DEF TypeInv, ShapeInv
  <1>7. worker'[w] = rec /\ crashes \in Nat /\ run \in Executable \cup Ended
           /\ session \in {"open", "failed", "terminated"}
    BY <1>5 DEF TypeInv, ShapeInv
  <1>8. PlaceOK(w)'
    BY <1>1, <1>2, <1>3, <1>4, <1>6, <1>7 DEF PlaceOK, At, Holding
  <1> QED
    BY <1>3, <1>4, <1>5, <1>6, <1>7, <1>8, WorkerOnly DEF Engaged

LEMMA OutcomesType ==
  ASSUME TypeInv, NEW i
  PROVE  Outcomes(i) \subseteq Ended \cup Active /\ Outcomes(i) \subseteq Executable \cup Ended
  <1>1. session \in {"open", "failed", "terminated"}
    BY DEF TypeInv, ShapeInv
  <1> QED
    BY <1>1 DEF Outcomes, Active, Ended, Executable

LEMMA ConcludeType ==
  ASSUME TypeInv, NEW w \in Workers, NEW o, Conclude(w, o)
  PROVE  TypeInv'
  <1> DEFINE i == worker[w].row
             rec == [worker[w] EXCEPT !.at = "record", !.target = o]
  <1>1. At(w, "settle") /\ worker[w].was = "running" /\ PlaceOK(w) /\ worker[w] \in Doing
    BY AtHand DEF Conclude
  <1>2. i \in DOMAIN rows /\ i # 0
    BY <1>1, AtHand DEF PlaceOK, At
  <1>3. o \in Ended \cup Active /\ o \in Executable \cup Ended
    BY OutcomesType DEF Conclude
  <1>4. /\ rec \in Doing /\ rec.at = "record" /\ rec.row = i
        /\ rec.was = worker[w].was /\ rec.target = o
    BY <1>1, <1>3 DEF Doing, Places
  <1>5. worker' = [worker EXCEPT ![w] = rec] /\ UNCHANGED <<def, run, rows, session, crashes>>
    BY DEF Conclude
  <1>6. worker'[w] = rec /\ crashes \in Nat /\ run \in Executable \cup Ended
           /\ session \in {"open", "failed", "terminated"}
    BY <1>5 DEF TypeInv, ShapeInv
  <1>7. Holding(w)
    BY <1>1, <1>2 DEF At, Holding
  <1>8. PlaceOK(w)'
    BY <1>1, <1>2, <1>3, <1>4, <1>5, <1>6, <1>7 DEF PlaceOK, At, Holding
  <1> QED
    BY <1>4, <1>5, <1>6, <1>7, <1>8, WorkerOnly DEF Engaged

\* What reconciliation does for a worker that outlasts no lease: it always has
\* an open step, which it may adopt.
Reconciles(w, o) ==
    LET i == worker[w].row IN
    /\ At(w, "settle") /\ worker[w].was = "none" /\ o \in Outcomes(i)
    /\ rows[i].status \in Active
    /\ \E b \in Workers \cup {NoWorker} :
          /\ rows[i].status = "running" => b = w
          /\ rows' = [rows EXCEPT ![i].by = b]
    /\ worker' = [worker EXCEPT ![w] = [Idle EXCEPT !.at = "record", !.row = i, !.run = run,
                                                    !.target = o, !.was = rows[i].status]]
    /\ UNCHANGED <<def, run, session, crashes, stalls>>

LEMMA ReconcileIsFenced ==
  ASSUME TypeInv, NEW w \in Workers, NEW o, Reconcile(w, o)
  PROVE  Reconciles(w, o)
  <1> DEFINE i == worker[w].row
             foreign == rows[i].status = "running" /\ rows[i].by # w
  <1>1. At(w, "settle") /\ PlaceOK(w)
    BY AtHand DEF Reconcile
  <1>2. i \in DOMAIN rows /\ rows[i] \in Row /\ i # 0
    BY <1>1, AtHand DEF PlaceOK, At
  <1>3. Holding(w) /\ rows[i].job = "held" /\ rows[i].status \in Active
    BY <1>1, <1>2 DEF PlaceOK, At, Holding
  <1>4. Adoptable(w, i)
    BY <1>3, HolderHasJob DEF Adoptable
  <1>5. /\ worker[w].was = "none" /\ o \in Outcomes(i)
        /\ rows' = IF foreign THEN [rows EXCEPT ![i].by = w] ELSE rows
        /\ worker' = [worker EXCEPT ![w] = [Idle EXCEPT !.at = "record", !.row = i, !.run = run,
                                                        !.target = o, !.was = rows[i].status]]
        /\ UNCHANGED <<def, run, session, crashes, stalls>>
    BY <1>3, <1>4 DEF Reconcile
  <1>6. \E b \in Workers \cup {NoWorker} :
           /\ rows[i].status = "running" => b = w
           /\ rows' = [rows EXCEPT ![i].by = b]
    <2>1. CASE foreign
      BY <1>5, <2>1
    <2>2. CASE ~foreign
      <3>1. [rows[i] EXCEPT !.by = rows[i].by] = rows[i] /\ rows[i].by \in Workers \cup {NoWorker}
        BY <1>2 DEF Row
      <3>2. rows' = [rows EXCEPT ![i].by = rows[i].by]
        BY <1>2, <1>5, <2>2, <3>1 DEF TypeInv, ShapeInv
      <3> QED
        BY <2>2, <3>1, <3>2
    <2> QED
      BY <2>1, <2>2
  <1> QED
    BY <1>1, <1>3, <1>5, <1>6 DEF Reconciles

LEMMA ReconcileType ==
  ASSUME TypeInv, NEW w \in Workers, NEW o, Reconcile(w, o)
  PROVE  TypeInv'
  <1>1. Reconciles(w, o)
    BY ReconcileIsFenced
  <1> DEFINE i == worker[w].row
  <1>2. PICK b \in Workers \cup {NoWorker} :
           /\ rows[i].status = "running" => b = w
           /\ rows' = [rows EXCEPT ![i].by = b]
    BY <1>1 DEF Reconciles
  <1> DEFINE r == [rows[i] EXCEPT !.by = b]
             rec == [Idle EXCEPT !.at = "record", !.row = i, !.run = run,
                                 !.target = o, !.was = rows[i].status]
  <1>3. At(w, "settle") /\ PlaceOK(w)
    BY <1>1, AtHand DEF Reconciles
  <1>4. i \in DOMAIN rows /\ rows[i] \in Row /\ i # 0 /\ i \in Nat
    BY <1>3, AtHand DEF PlaceOK, At, Doing
  <1>5. Holding(w) /\ rows[i].job = "held" /\ rows[i].owner = w /\ rows[i].status \in Active
    BY <1>3, <1>4 DEF PlaceOK, At, Holding
  <1>6. o \in Ended \cup Active /\ o \in Executable \cup Ended
    BY <1>1, OutcomesType DEF Reconciles
  <1>7. /\ r \in Row /\ r.status = rows[i].status /\ r.job = rows[i].job
        /\ r.by = b /\ r.owner = rows[i].owner
    BY <1>4 DEF Row
  <1>8. /\ rec \in Doing /\ rec.at = "record" /\ rec.row = i /\ rec.target = o
        /\ rec.was = rows[i].status
    BY <1>4, <1>5, <1>6 DEF Doing, Idle, Places, Executable, Ended, TypeInv, ShapeInv
  <1>9. worker' = [worker EXCEPT ![w] = rec] /\ rows' = [rows EXCEPT ![i] = r]
           /\ UNCHANGED <<def, run, session, crashes>>
    BY <1>1, <1>2 DEF Reconciles
  <1>10. worker'[w] = rec /\ rows'[i] = r /\ Len(rows') = Len(rows) /\ crashes \in Nat
    BY <1>4, <1>7, <1>9, RowUpdate DEF TypeInv, ShapeInv
  <1>11. PlaceOK(w)'
    BY <1>2, <1>3, <1>4, <1>5, <1>6, <1>7, <1>8, <1>10 DEF PlaceOK, At, Holding
  <1>12. \A v \in Workers \ {w} : worker[v].row = i => ~Engaged(v)
    BY <1>5 DEF TypeInv, Apart, Engaged
  <1>13. r.status # "scheduled" /\ r.status # "queued"
    BY <1>5, <1>7 DEF Active
  <1> HIDE DEF i, r, rec
  <1> QED
    BY <1>4, <1>7, <1>8, <1>9, <1>10, <1>11, <1>12, <1>13, OneRow

\* What recording an outcome does for a worker that outlasts no lease: its
\* claim on the step still stands.
Records(w, o) ==
    LET i == worker[w].row IN
    /\ At(w, "record") /\ o = worker[w].target
    /\ rows' = [rows EXCEPT ![i] = [@ EXCEPT !.status = o, !.by = w]]
    /\ worker' = [worker EXCEPT ![w].at = FirstAdvance(rows[i].status, o),
                                ![w].target = IF o \in Active THEN o ELSE "running"]
    /\ UNCHANGED <<def, run, session, crashes, stalls>>

LEMMA RecordIsFenced ==
  ASSUME TypeInv, NEW w \in Workers, Record(w)
  PROVE  worker[w].target \in RowStatus /\ Records(w, worker[w].target)
  <1>1. At(w, "record") /\ PlaceOK(w)
    BY AtHand DEF Record
  <1>2. /\ worker[w].was = rows[worker[w].row].status
        /\ worker[w].target \in Ended \cup Active
        /\ \/ rows[worker[w].row].status = "requires_action"
           \/ rows[worker[w].row].status = "running" /\ rows[worker[w].row].by = w
    BY <1>1 DEF PlaceOK, At, Active
  <1> QED
    BY <1>1, <1>2 DEF Record, Records, RowStatus, Terminal, Successful, Ended

LEMMA RecordsType ==
  ASSUME TypeInv, NEW w \in Workers, NEW o, Records(w, o)
  PROVE  TypeInv'
  <1> DEFINE i == worker[w].row
             r == [rows[i] EXCEPT !.status = o, !.by = w]
             rec == [worker[w] EXCEPT !.at = FirstAdvance(rows[i].status, o),
                                      !.target = IF o \in Active THEN o ELSE "running"]
  <1>1. At(w, "record") /\ PlaceOK(w) /\ worker[w] \in Doing
    BY AtHand DEF Records
  <1>2. i \in DOMAIN rows /\ rows[i] \in Row /\ i # 0
    BY <1>1, AtHand DEF PlaceOK, At
  <1>3. rows[i].job = "held" /\ rows[i].owner = w /\ Engaged(w)
    BY <1>1, <1>2 DEF PlaceOK, At, Holding, Engaged
  <1>4. o \in RowStatus /\ o \notin {"queued", "scheduled"}
    BY <1>1 DEF Records, PlaceOK, Active, Ended, RowStatus, Terminal, Successful
  <1>5. r \in Row /\ r.status = o /\ r.job = "held" /\ r.owner = w
    BY <1>2, <1>3, <1>4 DEF Row
  <1>6. FirstAdvance(rows[i].status, o) \in {"ack", "write", "scan", "failed"}
    BY DEF FirstAdvance
  <1>7. rec \in Doing /\ rec.at = FirstAdvance(rows[i].status, o) /\ rec.row = i
    BY <1>1, <1>6 DEF Doing, Places, Active, Executable
  <1>8. worker' = [worker EXCEPT ![w] = rec] /\ rows' = [rows EXCEPT ![i] = r]
    BY DEF Records, TypeInv, ShapeInv
  <1>9. worker'[w] = rec /\ rows'[i] = r /\ Len(rows') = Len(rows)
    BY <1>2, <1>5, <1>8, RowUpdate DEF TypeInv, ShapeInv
  <1>10. PlaceOK(w)'
    BY <1>1, <1>2, <1>5, <1>6, <1>7, <1>9 DEF PlaceOK, At, Holding
  <1>11. \A v \in Workers \ {w} : worker[v].row = i => ~Engaged(v)
    BY <1>3 DEF TypeInv, Apart
  <1>12. crashes' \in Nat /\ UNCHANGED <<def, run, session>>
    BY DEF TypeInv, ShapeInv, Records
  <1>13. r.status # "scheduled" /\ (r.status = "queued" => r.job = "none")
            /\ (Engaged(w)' => rec.row = i)
    BY <1>4, <1>5, <1>7
  <1> HIDE DEF i, r, rec
  <1> QED
    BY <1>2, <1>5, <1>7, <1>8, <1>10, <1>11, <1>12, <1>13, OneRow

LEMMA AckType ==
  ASSUME TypeInv, NEW w \in Workers, Ack(w)
  PROVE  TypeInv'
  <1>1. crashes \in Nat
    BY DEF TypeInv, ShapeInv
  <1>2. CASE ~Holding(w)
    BY <1>1, <1>2, Leaves, HolderHasJob DEF Ack
  <1>3. CASE Holding(w)
    BY <1>1, <1>3, Releases, HolderHasJob DEF Ack
  <1> QED
    BY <1>2, <1>3

\* An error or the death of the worker leaves the job to its lease.
LEMMA AbortType ==
  ASSUME TypeInv, NEW w \in Workers, Abort(w), UNCHANGED <<def, run, session>>, crashes' \in Nat
  PROVE  TypeInv'
  <1>1. CASE Holding(w)
    BY <1>1, Releases, HolderHasJob DEF Abort, Lapse
  <1>2. CASE ~Holding(w)
    BY <1>2, Leaves, HolderHasJob DEF Abort, Lapse
  <1> QED
    BY <1>1, <1>2

\* A worker that has its job goes on without changing a step run.
LEMMA GoesOn ==
  ASSUME TypeInv, NEW w \in Workers, NEW rec \in Doing, Holding(w),
         rec.row = worker[w].row, rec.at \notin {"idle", "claim", "claimed", "late", "turn", "settle", "record"},
         worker' = [worker EXCEPT ![w] = rec], UNCHANGED <<def, rows, crashes>>,
         run' \in Executable \cup Ended, session' \in {"open", "failed", "terminated"}
  PROVE  TypeInv'
  <1>1. worker'[w] = rec /\ crashes \in Nat
    BY DEF TypeInv, ShapeInv
  <1>2. PlaceOK(w)'
    BY <1>1, AtHand DEF PlaceOK, At, Holding
  <1> QED
    BY <1>1, <1>2, WorkerOnly DEF Engaged

\* The worker goes on to create the step runs in todo, if there are any.
Plans(w, todo) ==
    worker' = [worker EXCEPT ![w] = [worker[w] EXCEPT
                  !.at = IF todo = {} THEN "look" ELSE "create", !.todo = todo]]

ScanItem(k, off) == [key |-> k, status |-> IF k \in off THEN "skipped" ELSE "queued"]
ScanPlan(off) ==
    LET ready == workflow_graph_ready_steps IN
    {ScanItem(k, off) : k \in {r \in ready : HasRoom(r, ready, off)}}

PolicyItem(k, failed) ==
    [key |-> k, status |-> IF failed \in def.sources[k] THEN "queued" ELSE "blocked"]
PolicyPlan(failed) ==
    {PolicyItem(k, failed) : k \in {s \in Steps : FailurePolicyApplies(s, failed)}}

LEMMA ScanPlans ==
  ASSUME NEW w \in Workers, Scan(w)
  PROVE  \E off \in SUBSET (workflow_graph_ready_steps \cap def.conditional) :
            Plans(w, ScanPlan(off))
  <1> DEFINE Todo(off) ==
          {[key |-> k, status |-> IF k \in off THEN "skipped" ELSE "queued"] :
              k \in {r \in workflow_graph_ready_steps :
                        HasRoom(r, workflow_graph_ready_steps, off)}}
  <1>1. PICK off \in SUBSET (workflow_graph_ready_steps \cap def.conditional) :
           worker' = [worker EXCEPT ![w].at = IF Todo(off) = {} THEN "look" ELSE "create",
                                    ![w].todo = Todo(off)]
    BY Zenon DEF Scan
  <1>2. Todo(off) = ScanPlan(off)
    BY Zenon DEF ScanPlan, ScanItem
  <1> HIDE DEF Todo
  <1>3. Plans(w, Todo(off))
    BY <1>1 DEF Plans
  <1> QED
    BY <1>2, <1>3

LEMMA PolicyPlans ==
  ASSUME NEW w \in Workers, FailurePolicy(w)
  PROVE  Plans(w, PolicyPlan(rows[worker[w].row].key))
  BY DEF FailurePolicy, Plans, PolicyPlan, PolicyItem

LEMMA PlanType ==
  ASSUME TypeInv, NEW w \in Workers, NEW todo \in SUBSET Item, Plans(w, todo),
         At(w, "scan") \/ At(w, "policy"), UNCHANGED <<def, run, rows, session, crashes>>
  PROVE  TypeInv'
  <1> DEFINE rec == [worker[w] EXCEPT !.at = IF todo = {} THEN "look" ELSE "create",
                                      !.todo = todo]
  <1>1. worker[w] \in Doing /\ PlaceOK(w)
    BY AtHand
  <1>2. rec \in Doing /\ rec.row = worker[w].row /\ rec.at \in {"look", "create"}
    BY <1>1 DEF Doing, Places
  <1>3. worker' = [worker EXCEPT ![w] = rec]
    BY DEF Plans
  <1>4. Holding(w)
    BY <1>1 DEF PlaceOK, At, Holding
  <1> QED
    BY <1>2, <1>3, <1>4, GoesOn DEF TypeInv, ShapeInv

LEMMA PlansAreItems ==
  ASSUME ShapeInv
  PROVE  /\ Steps \subseteq Keys
         /\ \A off : ScanPlan(off) \subseteq Item
         /\ \A failed : PolicyPlan(failed) \subseteq Item
  <1>1. def \in DefinitionType
    BY GraphAssumption DEF ShapeInv
  <1>2. Steps \subseteq Keys
    BY <1>1 DEF Steps, DefinitionType
  <1>3. workflow_graph_ready_steps \subseteq Keys
    BY <1>2 DEF workflow_graph_ready_steps
  <1>4. \A off : \A k \in Keys : ScanItem(k, off) \in Item
    BY DEF ScanItem, Item
  <1>5. \A failed : \A k \in Keys : PolicyItem(k, failed) \in Item
    BY DEF PolicyItem, Item
  <1> QED
    BY <1>2, <1>3, <1>4, <1>5 DEF ScanPlan, PolicyPlan

LEMMA ScanType ==
  ASSUME TypeInv, NEW w \in Workers, Scan(w)
  PROVE  TypeInv'
  <1>1. PICK off : Plans(w, ScanPlan(off))
    BY ScanPlans
  <1> QED
    BY <1>1, PlansAreItems, PlanType DEF Scan, TypeInv

LEMMA FailurePolicyType ==
  ASSUME TypeInv, NEW w \in Workers, FailurePolicy(w)
  PROVE  TypeInv'
  BY PolicyPlans, PlansAreItems, PlanType DEF FailurePolicy, TypeInv

LEMMA RetryType ==
  ASSUME TypeInv, NEW w \in Workers, Retry(w)
  PROVE  TypeInv'
  <1> DEFINE k == rows[worker[w].row].key
             r == NewRow(k, IF k \in def.delayed THEN "scheduled" ELSE "queued")
             rec == [worker[w] EXCEPT !.at = "write", !.target = "running"]
  <1>1. worker[w] \in Doing /\ PlaceOK(w) /\ At(w, "retry")
    BY AtHand DEF Retry
  <1>2. Holding(w)
    BY <1>1 DEF PlaceOK, At, Holding
  <1>3. rows[worker[w].row] \in Row
    BY <1>2, AtHand DEF Holding
  <1>4. CASE run \in Executable
    <2>1. r \in Row /\ r.job = "none"
      BY <1>3 DEF NewRow, Row, RowStatus, JobStatus
    <2>2. rec \in Doing /\ rec.row = worker[w].row /\ rec.at = "write"
      BY <1>1 DEF Doing, Places, Executable
    <2>3. rows' = Append(rows, r) /\ worker' = [worker EXCEPT ![w] = rec]
             /\ UNCHANGED <<def, run, session, crashes>>
      BY <1>4 DEF Retry
    <2> QED
      BY <1>2, <2>1, <2>2, <2>3, NewRowStep DEF Engaged
  <1>5. CASE run \notin Executable
    BY <1>5, AbortType DEF Retry, TypeInv, ShapeInv
  <1> QED
    BY <1>4, <1>5

LEMMA CreateNextType ==
  ASSUME TypeInv, NEW w \in Workers, CreateNext(w)
  PROVE  TypeInv'
  <1>1. worker[w] \in Doing /\ PlaceOK(w) /\ At(w, "create")
    BY AtHand DEF CreateNext
  <1>2. Holding(w)
    BY <1>1 DEF PlaceOK, At, Holding
  <1>3. CASE run \in Executable
    <2>1. PICK next \in worker[w].todo, at \in {"create", "scan", "policy"} :
             /\ rows' = Append(rows, NewRow(next.key, next.status))
             /\ worker' = [worker EXCEPT ![w].todo = worker[w].todo \ {next}, ![w].at = at]
             /\ UNCHANGED <<def, run, session, crashes>>
      BY <1>3 DEF CreateNext
    <2> DEFINE r == NewRow(next.key, next.status)
               rec == [worker[w] EXCEPT !.todo = worker[w].todo \ {next}, !.at = at]
    <2>2. r \in Row /\ r.job = "none"
      BY <1>1 DEF Doing, Item, NewRow, Row, RowStatus, JobStatus, Terminal, Successful
    <2>3. rec \in Doing /\ rec.row = worker[w].row /\ rec.at \in {"create", "scan", "policy"}
      BY <1>1 DEF Doing, Places
    <2>4. worker' = [worker EXCEPT ![w] = rec]
      BY <2>1
    <2> QED
      BY <1>2, <2>1, <2>2, <2>3, <2>4, NewRowStep DEF Engaged
  <1>4. CASE run \notin Executable
    <2>1. Abort(w) /\ UNCHANGED <<def, run, session, crashes>>
      BY <1>4 DEF CreateNext
    <2> QED
      BY <2>1, AbortType DEF TypeInv, ShapeInv
  <1> QED
    BY <1>3, <1>4

LEMMA ActivateDueType ==
  ASSUME TypeInv, NEW w \in Workers, NEW i \in DOMAIN rows, ActivateDue(w, i)
  PROVE  TypeInv'
  <1> DEFINE r == [rows[i] EXCEPT !.status = "queued"]
             rec == [Idle EXCEPT !.at = "write", !.run = run]
  <1>1. rows \in Seq(Row) /\ rows[i] \in Row /\ run \in Executable \cup Ended /\ crashes \in Nat
    BY DEF TypeInv, ShapeInv
  <1>2. rows[i].status = "scheduled" /\ rows[i].job = "none"
    BY DEF ActivateDue, TypeInv, RowOK
  <1>3. r \in Row /\ r.status = "queued" /\ r.job = "none"
    BY <1>1, <1>2 DEF Row, RowStatus
  <1>4. rec \in Doing /\ rec.at = "write" /\ rec.row = 0 /\ rec.target = "running"
    BY <1>1 DEF Doing, Idle, Places, Executable, Ended, Active
  <1>5. rows' = [rows EXCEPT ![i] = r] /\ worker' = [worker EXCEPT ![w] = rec]
           /\ UNCHANGED <<def, run, session, crashes>>
    BY DEF ActivateDue
  <1>6. worker'[w] = rec /\ Len(rows') \in Nat
    <2>1. rows' \in Seq(Row)
      BY <1>1, <1>3, <1>5, RowUpdate
    <2> QED
      BY <1>5, <2>1 DEF TypeInv, ShapeInv
  <1>7. PlaceOK(w)' /\ ~Engaged(w)'
    BY <1>4, <1>6 DEF PlaceOK, At, Holding, Engaged
  <1>8. \A v \in Workers \ {w} : worker[v].row = i => ~Engaged(v)
    BY <1>2 DEF TypeInv, PlaceOK, Engaged
  <1> QED
    BY <1>1, <1>3, <1>4, <1>5, <1>7, <1>8, OneRow

\* Steps that change only where the holder of a job is, what it has read of
\* the run and what it is going to write.
LEMMA HolderGoes ==
  ASSUME TypeInv, NEW w \in Workers, Holding(w), NEW at \in Places, NEW r, NEW target,
         at \notin {"idle", "claim", "claimed", "late", "turn", "settle", "record"},
         r \in Executable \cup Ended, target \in Executable \cup Ended,
         worker' = [worker EXCEPT ![w].at = at, ![w].run = r, ![w].target = target],
         UNCHANGED <<def, rows, crashes>>,
         run' \in Executable \cup Ended, session' \in {"open", "failed", "terminated"}
  PROVE  TypeInv'
  <1> DEFINE rec == [worker[w] EXCEPT !.at = at, !.run = r, !.target = target]
  <1>1. rec \in Doing /\ rec.row = worker[w].row /\ rec.at = at
    BY AtHand DEF Doing
  <1> QED
    BY <1>1, GoesOn

LEMMA WriteType ==
  ASSUME TypeInv, NEW w \in Workers, update_workflow_run_status_and_record(w)
  PROVE  TypeInv'
  <1> DEFINE at == IF worker[w].target = "completed" THEN "finish" ELSE "ack"
             rec == [worker[w] EXCEPT !.at = at]
  <1>1. worker[w] \in Doing /\ PlaceOK(w) /\ At(w, "write")
    BY AtHand DEF update_workflow_run_status_and_record
  <1>2. rec \in Doing /\ rec.row = worker[w].row /\ rec.at = at /\ rec.target = worker[w].target
    BY <1>1 DEF Doing, Places
  <1>3. worker' = [worker EXCEPT ![w] = rec] /\ UNCHANGED <<def, rows, session, crashes>>
    BY DEF update_workflow_run_status_and_record, Go
  <1>4. run' \in Executable \cup Ended
    BY <1>1 DEF update_workflow_run_status_and_record, TypeInv, ShapeInv, Doing
  <1>5. session' \in {"open", "failed", "terminated"} /\ crashes' \in Nat
    BY <1>3 DEF TypeInv, ShapeInv
  <1>6. worker'[w] = rec
    BY <1>3 DEF TypeInv, ShapeInv
  <1>7. PlaceOK(w)' /\ (Engaged(w)' => Engaged(w))
    BY <1>1, <1>2, <1>3, <1>6 DEF PlaceOK, At, Holding, Engaged
  <1> QED
    BY <1>2, <1>3, <1>4, <1>5, <1>7, WorkerOnly

LEMMA CrashType ==
  ASSUME TypeInv, NEW w \in Workers, Crash(w)
  PROVE  TypeInv'
  <1>1. crashes' \in Nat
    BY DEF TypeInv, ShapeInv, Crash
  <1> QED
    BY <1>1, AbortType DEF Crash

\* A step that changes only the status of the session.
LEMMA SessionType ==
  ASSUME TypeInv, UNCHANGED <<def, run, rows, worker, crashes>>,
         session' \in {"open", "failed", "terminated"}
  PROVE  TypeInv'
  BY DEF TypeInv, ShapeInv, PlaceOK, At, Holding, RowOK, Apart, Engaged

\* A step in which no living worker outlasts a lease.
PunctualNext == [GraphNext]_vars /\ stalls' = stalls /\ stalls \in Nat

LEMMA NoStall ==
  ASSUME PunctualNext
  PROVE  /\ \A w \in Workers : ~Stall(w)
         /\ [GraphNext]_vars
  BY DEF PunctualNext, Stall

LEMMA TypeNext == TypeInv /\ PunctualNext => TypeInv'
  <1> SUFFICES ASSUME TypeInv, PunctualNext PROVE TypeInv'
    OBVIOUS
  <1>1. ASSUME NEW w \in Workers, OwnStep(w) PROVE TypeInv'
    <2>1. worker[w] \in Doing /\ PlaceOK(w) /\ worker \in [Workers -> Doing]
             /\ session \in {"open", "failed", "terminated"} /\ run \in Executable \cup Ended
      BY AtHand DEF TypeInv, ShapeInv
    <2>2. worker[w].run \in Executable \cup Ended /\ worker[w].target \in Executable \cup Ended
      BY <2>1 DEF Doing
    <2>3. CASE StepFailed(w)
      <3>1. PICK at \in {"retry", "policy"} : Go(w, at)
        BY <2>3 DEF StepFailed
      <3>2. Holding(w)
        BY <2>1, <2>3 DEF StepFailed, PlaceOK, At, Holding
      <3>3. worker' = [worker EXCEPT ![w].at = at, ![w].run = worker[w].run,
                                     ![w].target = worker[w].target]
        BY <2>1, <3>1 DEF Go, Doing
      <3> QED
        BY <2>1, <2>2, <2>3, <3>2, <3>3, HolderGoes DEF StepFailed, Places
    <2>4. CASE Look(w)
      <3>1. Holding(w)
        BY <2>1, <2>4 DEF Look, PlaceOK, At, Holding
      <3>2. worker' = [worker EXCEPT ![w].at = "completed?", ![w].run = run,
                                     ![w].target = worker[w].target]
        BY <2>1, <2>4 DEF Look, Doing
      <3> QED
        BY <2>1, <2>2, <2>4, <3>1, <3>2, HolderGoes DEF Look, Places
    <2>5. CASE CheckCompleted(w) \/ CheckFailed(w) \/ CheckAction(w)
      <3>1. Holding(w)
        BY <2>1, <2>5 DEF CheckCompleted, CheckFailed, CheckAction, PlaceOK, At, Holding
      <3>2. PICK at \in {"write", "failed?", "action?"}, target \in Executable \cup Ended :
               worker' = [worker EXCEPT ![w].at = at, ![w].run = worker[w].run,
                                        ![w].target = target]
        <4>1. \A at \in {"failed?", "action?"} : Go(w, at) =>
                 worker' = [worker EXCEPT ![w].at = at, ![w].run = worker[w].run,
                                          ![w].target = worker[w].target]
          BY <2>1 DEF Go, Doing
        <4>2. \A target \in Executable \cup Ended : Decide(w, target) =>
                 worker' = [worker EXCEPT ![w].at = "write", ![w].run = worker[w].run,
                                          ![w].target = target]
          BY <2>1 DEF Decide, Doing
        <4>3. workflow_graph_terminal_failure_status \in {"none", "failed", "canceled"}
          BY DEF workflow_graph_terminal_failure_status
        <4>4. \/ \E at \in {"failed?", "action?"} : Go(w, at)
              \/ \E target \in Executable \cup Ended : Decide(w, target)
          BY <2>5, <4>3 DEF CheckCompleted, CheckFailed, CheckAction, Executable, Ended
        <4> QED
          BY <2>2, <4>1, <4>2, <4>4
      <3> QED
        <4>1. at \in Places /\ at \notin {"idle", "claim", "claimed", "late", "turn", "settle", "record"}
                 /\ UNCHANGED <<def, run, rows, session, crashes>>
          BY <2>5 DEF CheckCompleted, CheckFailed, CheckAction, Places
        <4> QED
          BY <2>1, <2>2, <3>1, <3>2, <4>1, HolderGoes
    <2>6. CASE finish_completed_workflow_session(w)
      <3>1. Holding(w)
        BY <2>1, <2>6 DEF finish_completed_workflow_session, PlaceOK, At, Holding
      <3>2. worker' = [worker EXCEPT ![w].at = "ack", ![w].run = worker[w].run,
                                     ![w].target = worker[w].target]
        BY <2>1, <2>6 DEF finish_completed_workflow_session, Go, Doing
      <3> QED
        BY <2>1, <2>2, <2>6, <3>1, <3>2, HolderGoes
           DEF finish_completed_workflow_session, Places
    <2> QED
      BY <1>1, <2>3, <2>4, <2>5, <2>6, ClaimType, StartJobType, SettleType, RecordIsFenced,
         RecordsType, AckType, ScanType, FailurePolicyType, RetryType, CreateNextType, WriteType
         DEF OwnStep
  <1>2. ASSUME NEW w \in Workers, Starts(w) PROVE TypeInv'
    BY <1>2, PickType, ResumeType, TakeOverType, ActivateDueType DEF Starts
  <1>3. ASSUME NEW w \in Workers, FailSession(w) PROVE TypeInv'
    BY <1>3, SessionType DEF FailSession
  <1>4. CASE TerminateSession
    BY <1>4, SessionType DEF TerminateSession
  <1>5. CASE UNCHANGED vars
    BY <1>5, SessionType DEF vars, TypeInv, ShapeInv
  <1> QED
    BY <1>1, <1>2, <1>3, <1>4, <1>5, NoStall, CrashType, ConcludeType, ReconcileType DEF GraphNext

\* The types, also when workers outlast their leases.
LooseInv ==
    /\ ShapeInv /\ stalls \in Nat
    /\ \A w \in Workers : /\ worker[w].row \in 0..Len(rows)
                          /\ worker[w].row = 0 => worker[w].at \in {"idle", "write", "ack"}
                                                 /\ worker[w].target = "running"

Fields(w, rec) ==
    /\ rec \in Doing /\ rec.row \in 0..Len(rows)
    /\ rec.row = 0 => rec.at \in {"idle", "write", "ack"} /\ rec.target = "running"
    /\ worker' = [worker EXCEPT ![w] = rec]

Longer == rows' \in Seq(Row) /\ Len(rows) <= Len(rows')

LEMMA LooseStep ==
  ASSUME LooseInv, NEW w \in Workers, NEW rec, Fields(w, rec), Longer, def' = def,
         run' \in Executable \cup Ended, session' \in {"open", "failed", "terminated"},
         crashes' \in Nat, stalls' \in Nat
  PROVE  LooseInv'
  <1>1. ShapeInv'
    BY DEF LooseInv, ShapeInv, Fields, Longer
  <1>2. \A v \in Workers : worker'[v] = IF v = w THEN rec ELSE worker[v]
    BY DEF LooseInv, ShapeInv, Fields
  <1>3. Len(rows) \in Nat /\ Len(rows') \in Nat
    BY DEF LooseInv, ShapeInv, Longer
  <1>4. 0..Len(rows) \subseteq 0..Len(rows')
    BY <1>3 DEF Longer
  <1> QED
    BY <1>1, <1>2, <1>4 DEF LooseInv, Fields

LEMMA LooseHand ==
  ASSUME LooseInv, NEW w \in Workers
  PROVE  /\ worker[w] \in Doing /\ worker[w].row \in 0..Len(rows) /\ worker[w].row \in Nat
         /\ worker[w].row # 0 => worker[w].row \in DOMAIN rows /\ rows[worker[w].row] \in Row
         /\ worker[w].at \notin {"idle", "write", "ack"} => worker[w].row # 0
         /\ rows \in Seq(Row) /\ Len(rows) \in Nat /\ run \in Executable \cup Ended
         /\ session \in {"open", "failed", "terminated"} /\ crashes \in Nat /\ stalls \in Nat
         /\ worker \in [Workers -> Doing]
  BY DEF LooseInv, ShapeInv, Doing

\* A change to the fields of a step run.
LEMMA LooseRow ==
  ASSUME LooseInv, NEW i \in DOMAIN rows, NEW row \in Row, rows' = [rows EXCEPT ![i] = row]
  PROVE  Longer
  <1>1. rows \in Seq(Row) /\ Len(rows) \in Nat
    BY DEF LooseInv, ShapeInv
  <1> QED
    BY <1>1, RowUpdate DEF Longer

LEMMA LooseSame ==
  ASSUME LooseInv, rows' = rows
  PROVE  Longer
  BY DEF LooseInv, ShapeInv, Longer

LEMMA LooseJob ==
  ASSUME LooseInv, NEW i \in DOMAIN rows, NEW job \in JobStatus, NEW v \in Workers \cup {NoWorker},
         \/ rows' = [rows EXCEPT ![i].job = job]
         \/ rows' = Start(i, v)
         \/ rows' = [rows EXCEPT ![i].by = v]
  PROVE  Longer
  <1>1. rows[i] \in Row
    BY DEF LooseInv, ShapeInv
  <1>2. /\ [rows[i] EXCEPT !.job = job] \in Row
        /\ [rows[i] EXCEPT !.job = "held", !.owner = v] \in Row
        /\ [rows[i] EXCEPT !.by = v] \in Row
    BY <1>1 DEF Row, JobStatus
  <1>3. \/ rows' = [rows EXCEPT ![i] = [rows[i] EXCEPT !.job = job]]
        \/ rows' = [rows EXCEPT ![i] = [rows[i] EXCEPT !.job = "held", !.owner = v]]
        \/ rows' = [rows EXCEPT ![i] = [rows[i] EXCEPT !.by = v]]
    BY DEF Start
  <1> QED
    BY <1>2, <1>3, LooseRow

LEMMA LooseNew ==
  ASSUME LooseInv, NEW k \in Keys, NEW s \in RowStatus, rows' = Append(rows, NewRow(k, s))
  PROVE  Longer
  <1>1. rows \in Seq(Row) /\ Len(rows) \in Nat
    BY DEF LooseInv, ShapeInv
  <1>2. NewRow(k, s) \in Row
    BY DEF NewRow, Row, JobStatus
  <1> QED
    BY <1>1, <1>2, RowAppend DEF Longer

LEMMA LooseIdle ==
  ASSUME LooseInv, NEW w \in Workers, worker' = [worker EXCEPT ![w] = Idle]
  PROVE  Fields(w, Idle)
  BY IdleIsDoing, LooseHand DEF Fields, Idle

LEMMA LooseLapse ==
  ASSUME LooseInv, NEW w \in Workers, rows' = Lapse(w)
  PROVE  Longer
  <1>1. CASE HasJob(w)
    <2>1. worker[w].row \in DOMAIN rows
      BY <1>1, LooseHand DEF HasJob, Working
    <2> QED
      BY <1>1, <2>1, LooseJob DEF Lapse, JobStatus
  <1>2. CASE ~HasJob(w)
    BY <1>2, LooseSame DEF Lapse
  <1> QED
    BY <1>1, <1>2

LEMMA LooseAbort ==
  ASSUME LooseInv, NEW w \in Workers, Abort(w)
  PROVE  Fields(w, Idle) /\ Longer
  BY LooseIdle, LooseLapse DEF Abort

\* A worker goes from one place to another.
LEMMA LooseGo ==
  ASSUME LooseInv, NEW w \in Workers, NEW at \in Places, NEW target \in Executable \cup Ended,
         NEW copy \in Executable \cup Ended,
         worker[w].row = 0 => at \in {"idle", "write", "ack"} /\ target = "running",
         worker' = [worker EXCEPT ![w].at = at, ![w].run = copy, ![w].target = target]
  PROVE  \E rec : Fields(w, rec)
  <1> DEFINE rec == [worker[w] EXCEPT !.at = at, !.run = copy, !.target = target]
  <1>1. rec \in Doing /\ rec.row = worker[w].row /\ rec.at = at /\ rec.target = target
    BY LooseHand DEF Doing
  <1>2. Fields(w, rec)
    BY <1>1, LooseHand DEF Fields
  <1> QED
    BY <1>2

LEMMA LooseGoes ==
  ASSUME LooseInv, NEW w \in Workers, NEW at \in Places,
         worker[w].row = 0 => at \in {"idle", "write", "ack"} /\ Go(w, at),
         \/ Go(w, at)
         \/ \E target \in Executable \cup Ended :
               worker' = [worker EXCEPT ![w].at = at, ![w].target = target]
         \/ \E copy \in Executable \cup Ended :
               worker' = [worker EXCEPT ![w].run = copy, ![w].at = at]
  PROVE  \E rec : Fields(w, rec)
  <1>1. worker[w] \in Doing /\ worker \in [Workers -> Doing]
    BY LooseHand
  <1>2. worker[w].run \in Executable \cup Ended /\ worker[w].target \in Executable \cup Ended
    BY <1>1 DEF Doing
  <1>3. \E target \in Executable \cup Ended, copy \in Executable \cup Ended :
           /\ worker' = [worker EXCEPT ![w].at = at, ![w].run = copy, ![w].target = target]
           /\ worker[w].row = 0 => target = "running"
    <2>1. CASE Go(w, at)
      <3>1. worker' = [worker EXCEPT ![w].at = at, ![w].run = worker[w].run,
                                     ![w].target = worker[w].target]
        BY <1>1, <2>1 DEF Go, Doing
      <3>2. worker[w].row = 0 => worker[w].target = "running"
        BY DEF LooseInv
      <3> QED
        BY <1>2, <3>1, <3>2
    <2>2. ASSUME NEW target \in Executable \cup Ended,
                 worker' = [worker EXCEPT ![w].at = at, ![w].target = target]
          PROVE  worker' = [worker EXCEPT ![w].at = at, ![w].run = worker[w].run,
                                          ![w].target = target]
      BY <1>1, <2>2 DEF Doing
    <2>3. ASSUME NEW copy \in Executable \cup Ended,
                 worker' = [worker EXCEPT ![w].run = copy, ![w].at = at]
          PROVE  worker' = [worker EXCEPT ![w].at = at, ![w].run = copy,
                                          ![w].target = worker[w].target]
      BY <1>1, <2>3 DEF Doing
    <2> QED
      BY <1>2, <2>1, <2>2, <2>3
  <1> QED
    BY <1>3, LooseGo

LEMMA LooseInit == GraphInit => LooseInv
  <1> SUFFICES ASSUME GraphInit PROVE LooseInv
    OBVIOUS
  <1>1. TypeInv /\ stalls = 0
    BY InitTyped DEF GraphInit
  <1> QED
    BY <1>1 DEF TypeInv, PlaceOK, LooseInv

\* What any step does to the worker that takes it and to the step runs.
LEMMA LooseChange ==
  ASSUME LooseInv, GraphNext
  PROVE  /\ Longer /\ stalls' \in {stalls, stalls + 1}
         /\ worker' = worker \/ \E w \in Workers : \E rec : Fields(w, rec)
         /\ def' = def /\ run' \in Executable \cup Ended
         /\ session' \in {"open", "failed", "terminated"} /\ crashes' \in Nat
  <1> DEFINE Goal == /\ Longer /\ stalls' \in {stalls, stalls + 1}
                     /\ worker' = worker \/ \E w \in Workers : \E rec : Fields(w, rec)
                     /\ def' = def /\ run' \in Executable \cup Ended
                     /\ session' \in {"open", "failed", "terminated"} /\ crashes' \in Nat
  <1>0. /\ run \in Executable \cup Ended /\ session \in {"open", "failed", "terminated"}
        /\ crashes \in Nat
    BY DEF LooseInv, ShapeInv
  <1>1. ASSUME NEW w \in Workers, Stall(w) PROVE Goal
    <2>1. CASE rows' = Lapse(w) /\ worker' = worker
      BY <1>0, <1>1, <2>1, LooseLapse DEF Stall
    <2>2. CASE At(w, "claimed") /\ Go(w, "late") /\ rows' = rows
      <3>1. "late" \in Places /\ worker[w].row # 0
        BY <2>2, LooseHand DEF Places, At
      <3>2. \E rec : Fields(w, rec)
        BY <2>2, <3>1, LooseGoes
      <3> QED
        BY <1>0, <1>1, <2>2, <3>2, LooseSame DEF Stall
    <2> QED
      BY <1>1, <2>1, <2>2 DEF Stall
  <1>2. ASSUME NEW w \in Workers, Crash(w) PROVE Goal
    BY <1>0, <1>2, LooseAbort DEF Crash
  <1>3. ASSUME NEW w \in Workers, FailSession(w) PROVE Goal
    BY <1>0, <1>3, LooseSame DEF FailSession
  <1>4. CASE TerminateSession
    BY <1>0, <1>4, LooseSame DEF TerminateSession
  <1>5. ASSUME NEW w \in Workers, Starts(w) PROVE Goal
    <2>1. PICK i \in DOMAIN rows : Pick(w, i) \/ Resume(w, i) \/ TakeOver(w, i) \/ ActivateDue(w, i)
      BY <1>5 DEF Starts
    <2>2. i \in Nat /\ i \in 0..Len(rows) /\ i # 0 /\ rows[i] \in Row
      BY DEF LooseInv, ShapeInv
    <2>3. CASE Pick(w, i)
      <3> DEFINE rec == [Idle EXCEPT !.at = "claim", !.row = i, !.run = run]
      <3>1. rec \in Doing /\ rec.row = i
        BY <1>0, <2>2 DEF Doing, Idle, Places, Executable, Ended, Active
      <3>2. Fields(w, rec)
        BY <2>2, <2>3, <3>1 DEF Fields, Pick
      <3> HIDE DEF rec
      <3> QED
        BY <1>0, <2>3, <3>2, LooseSame DEF Pick
    <2>4. CASE Resume(w, i)
      <3> DEFINE rec == [Idle EXCEPT !.at = "turn", !.row = i]
      <3>1. rec \in Doing /\ rec.row = i
        BY <2>2 DEF Doing, Idle, Places, Executable, Ended, Active
      <3>2. Fields(w, rec)
        BY <2>2, <2>4, <3>1 DEF Fields, Resume
      <3> HIDE DEF rec
      <3> QED
        BY <1>0, <2>4, <3>2, LooseJob DEF Resume, JobStatus
    <2>5. CASE TakeOver(w, i)
      <3> DEFINE at == resume_recorded_workflow_completion(i)
                 rec == [Idle EXCEPT !.at = at, !.row = i, !.run = run]
      <3>1. at \in {"turn", "ack", "finish", "scan"}
        BY DEF resume_recorded_workflow_completion
      <3>2. rec \in Doing /\ rec.row = i
        BY <1>0, <2>2, <3>1 DEF Doing, Idle, Places, Executable, Ended, Active
      <3>3. Fields(w, rec)
        BY <2>2, <2>5, <3>2 DEF Fields, TakeOver
      <3> HIDE DEF rec, at
      <3> QED
        BY <1>0, <2>5, <3>3, LooseJob DEF TakeOver, JobStatus
    <2>6. CASE ActivateDue(w, i)
      <3> DEFINE row == [rows[i] EXCEPT !.status = "queued"]
                 rec == [Idle EXCEPT !.at = "write", !.run = run]
      <3>1. rec \in Doing /\ rec.row = 0 /\ rec.at = "write" /\ rec.target = "running"
        BY <1>0 DEF Doing, Idle, Places, Executable, Ended, Active
      <3>4. 0 \in 0..Len(rows)
        BY LooseHand
      <3>2. Fields(w, rec)
        BY <2>6, <3>1, <3>4 DEF Fields, ActivateDue
      <3>3. row \in Row /\ rows' = [rows EXCEPT ![i] = row]
        BY <2>2, <2>6 DEF Row, RowStatus, ActivateDue
      <3> HIDE DEF rec, row
      <3> QED
        BY <1>0, <2>6, <3>2, <3>3, LooseRow DEF ActivateDue
    <2> QED
      BY <2>1, <2>3, <2>4, <2>5, <2>6
  <1>6. ASSUME NEW w \in Workers, NEW o \in RowStatus, Conclude(w, o) \/ Reconcile(w, o) PROVE Goal
    <2>1. worker[w].row # 0 /\ worker[w].row \in DOMAIN rows /\ rows[worker[w].row] \in Row
      BY <1>6, LooseHand DEF Conclude, Reconcile, At
    <2>2. o \in Executable \cup Ended
      BY <1>0, <1>6 DEF Conclude, Reconcile, Outcomes, Active, Executable, Ended
    <2>3. CASE Conclude(w, o)
      <3>1. \E rec : Fields(w, rec)
        BY <2>1, <2>2, <2>3, LooseGoes DEF Conclude, Places
      <3> QED
        BY <1>0, <2>3, <3>1, LooseSame DEF Conclude
    <2>4. CASE Reconcile(w, o)
      <3> DEFINE i == worker[w].row
                 rec == [Idle EXCEPT !.at = "record", !.row = i, !.run = run,
                                     !.target = o, !.was = rows[i].status]
      <3>1. CASE rows[i].status \notin Active /\ Go(w, "ack") /\ rows' = rows
        <4>1. \E x : Fields(w, x)
          BY <2>1, <3>1, LooseGoes DEF Places
        <4> QED
          BY <1>0, <2>4, <3>1, <4>1, LooseSame DEF Reconcile
      <3>2. CASE /\ rows[i].status \in Active
                 /\ rows' = rows \/ rows' = [rows EXCEPT ![i].by = w]
                 /\ worker' = [worker EXCEPT ![w] = rec]
        <4>1. rec \in Doing /\ rec.row = i
          BY <1>0, <2>1, <2>2, <3>2, LooseHand DEF Doing, Idle, Places, Executable, Ended
        <4>2. Fields(w, rec)
          BY <2>1, <3>2, <4>1, LooseHand DEF Fields
        <4>3. Longer
          BY <2>1, <3>2, LooseSame, LooseJob DEF JobStatus
        <4> HIDE DEF rec
        <4> QED
          BY <1>0, <2>4, <4>2, <4>3 DEF Reconcile
      <3>3. CASE Abort(w)
        BY <1>0, <2>4, <3>3, LooseAbort DEF Reconcile
      <3> QED
        BY <2>4, <3>1, <3>2, <3>3 DEF Reconcile
    <2> QED
      BY <1>6, <2>3, <2>4
  <1>7. ASSUME NEW w \in Workers, OwnStep(w) PROVE Goal
    <2>1. /\ worker[w] \in Doing /\ worker \in [Workers -> Doing]
          /\ worker[w].target \in Executable \cup Ended
          /\ ~At(w, "ack") /\ ~At(w, "write") /\ ~At(w, "idle") =>
                worker[w].row # 0 /\ worker[w].row \in DOMAIN rows /\ rows[worker[w].row] \in Row
      BY LooseHand DEF Doing, At
    <2>2. CASE claim_workflow_step_run_if_available(w)
      <3> DEFINE i == worker[w].row
                 row == [rows[i] EXCEPT !.status = "running", !.by = w]
      <3>1. i # 0 /\ i \in DOMAIN rows /\ rows[i] \in Row
        BY <2>1, <2>2 DEF claim_workflow_step_run_if_available, At
      <3>2. CASE rows' = [rows EXCEPT ![i] = row] /\ Go(w, "claimed")
        <4>1. row \in Row
          BY <3>1 DEF Row, RowStatus, Active
        <4>2. \E rec : Fields(w, rec)
          BY <3>1, <3>2, LooseGoes DEF Places
        <4> HIDE DEF row
        <4> QED
          BY <1>0, <2>2, <3>1, <3>2, <4>1, <4>2, LooseRow DEF claim_workflow_step_run_if_available
      <3>3. CASE worker' = [worker EXCEPT ![w] = Idle] /\ rows' = rows
        BY <1>0, <2>2, <3>3, LooseIdle, LooseSame DEF claim_workflow_step_run_if_available
      <3> QED
        BY <2>2, <3>2, <3>3 DEF claim_workflow_step_run_if_available
    <2>3. CASE StartJob(w)
      <3> DEFINE i == worker[w].row
                 rec == [worker[w] EXCEPT !.at = "turn", !.was = "running"]
      <3>1. i # 0 /\ i \in DOMAIN rows
        BY <2>1, <2>3 DEF StartJob, At
      <3>2. CASE rows' = Start(i, w) /\ worker' = [worker EXCEPT ![w] = rec]
        <4>1. rec \in Doing /\ rec.row = i
          BY <2>1 DEF Doing, Places, Active
        <4>2. Fields(w, rec)
          BY <3>1, <3>2, <4>1, LooseHand DEF Fields
        <4> HIDE DEF rec
        <4> QED
          BY <1>0, <2>3, <3>1, <3>2, <4>2, LooseJob DEF StartJob, JobStatus
      <3>3. CASE worker' = [worker EXCEPT ![w] = Idle] /\ rows' = rows
        BY <1>0, <2>3, <3>3, LooseIdle, LooseSame DEF StartJob
      <3> QED
        BY <2>3, <3>2, <3>3 DEF StartJob
    <2>4. CASE Settle(w)
      <3>1. worker[w].row # 0 /\ worker[w].row \in DOMAIN rows
        BY <2>1, <2>4 DEF Settle, At
      <3>2. CASE rows' = [rows EXCEPT ![worker[w].row].job = "held"] /\ Go(w, "settle")
        <4>1. \E rec : Fields(w, rec)
          BY <3>1, <3>2, LooseGoes DEF Places
        <4> QED
          BY <1>0, <2>4, <3>1, <3>2, <4>1, LooseJob DEF Settle, JobStatus
      <3>3. CASE worker' = [worker EXCEPT ![w] = Idle] /\ rows' = rows
        BY <1>0, <2>4, <3>3, LooseIdle, LooseSame DEF Settle
      <3> QED
        BY <2>4, <3>2, <3>3 DEF Settle
    <2>5. CASE Record(w)
      <3> DEFINE i == worker[w].row
                 o == worker[w].target
                 row == [rows[i] EXCEPT !.status = o, !.by = w]
                 at == FirstAdvance(worker[w].was, o)
                 target == IF o \in Active THEN o ELSE "running"
      <3>1. i # 0 /\ i \in DOMAIN rows /\ rows[i] \in Row
        BY <2>1, <2>5 DEF Record, At
      <3>2. CASE /\ rows' = [rows EXCEPT ![i] = row]
                 /\ worker' = [worker EXCEPT ![w].at = at, ![w].target = target]
        <4>1. row \in Row
          BY <2>1, <3>1 DEF Row, RowStatus, Executable, Ended, Active, Terminal, Successful
        <4>2. at \in Places /\ target \in Executable \cup Ended
          BY DEF FirstAdvance, Places, Active, Executable
        <4> HIDE DEF row, at, target
        <4>3. \E rec : Fields(w, rec)
          BY <3>1, <3>2, <4>2, LooseGoes
        <4> QED
          BY <1>0, <2>5, <3>1, <3>2, <4>1, <4>3, LooseRow DEF Record
      <3>3. CASE Abort(w)
        BY <1>0, <2>5, <3>3, LooseAbort DEF Record
      <3> QED
        BY <2>5, <3>2, <3>3 DEF Record
    <2>6. CASE Ack(w)
      <3>1. Longer
        <4>1. CASE HasJob(w)
          <5>1. worker[w].row \in DOMAIN rows
            BY <4>1, LooseHand DEF HasJob, Working
          <5> QED
            BY <2>6, <4>1, <5>1, LooseJob DEF Ack, JobStatus
        <4>2. CASE ~HasJob(w)
          BY <2>6, <4>2, LooseSame DEF Ack
        <4> QED
          BY <4>1, <4>2
      <3> QED
        BY <1>0, <2>6, <3>1, LooseIdle DEF Ack
    <2>7. ASSUME NEW todo \in SUBSET Item, Plans(w, todo), At(w, "scan") \/ At(w, "policy")
          PROVE  \E rec : Fields(w, rec)
      <3> DEFINE rec == [worker[w] EXCEPT !.at = IF todo = {} THEN "look" ELSE "create",
                                          !.todo = todo]
      <3>1. worker[w].row # 0
        BY <2>7, <2>1 DEF At
      <3>2. rec \in Doing /\ rec.row = worker[w].row
        BY <2>1 DEF Doing, Places
      <3>3. Fields(w, rec)
        BY <2>7, <3>1, <3>2, LooseHand DEF Fields, Plans
      <3> QED
        BY <3>3
    <2>8. CASE Scan(w)
      <3>1. PICK off : Plans(w, ScanPlan(off))
        BY <2>8, ScanPlans
      <3>2. \E rec : Fields(w, rec)
        BY <2>7, <2>8, <3>1, PlansAreItems DEF Scan, LooseInv
      <3> QED
        BY <1>0, <2>8, <3>2, LooseSame DEF Scan
    <2>9. CASE FailurePolicy(w)
      <3>1. \E rec : Fields(w, rec)
        BY <2>7, <2>9, PolicyPlans, PlansAreItems DEF FailurePolicy, LooseInv
      <3> QED
        BY <1>0, <2>9, <3>1, LooseSame DEF FailurePolicy
    <2>10. CASE StepFailed(w)
      <3>1. PICK at \in {"retry", "policy"} : Go(w, at)
        BY <2>10 DEF StepFailed
      <3>2. \E rec : Fields(w, rec)
        BY <2>1, <2>10, <3>1, LooseGoes DEF StepFailed, At, Places
      <3> QED
        BY <1>0, <2>10, <3>2, LooseSame DEF StepFailed
    <2>11. CASE Retry(w)
      <3>1. worker[w].row # 0 /\ rows[worker[w].row].key \in Keys
        BY <2>1, <2>11 DEF Retry, At, Row
      <3>2. CASE run \in Executable
        <4>1. PICK s \in RowStatus : rows' = Append(rows, NewRow(rows[worker[w].row].key, s))
          BY <2>11, <3>2 DEF Retry, RowStatus
        <4>2. "write" \in Places /\ "running" \in Executable \cup Ended
          BY DEF Places, Executable
        <4>3. \E rec : Fields(w, rec)
          BY <2>11, <3>1, <3>2, <4>2, LooseGoes DEF Retry
        <4> QED
          BY <1>0, <2>11, <3>1, <4>1, <4>3, LooseNew DEF Retry
      <3>3. CASE run \notin Executable
        BY <1>0, <2>11, <3>3, LooseAbort DEF Retry
      <3> QED
        BY <3>2, <3>3
    <2>12. CASE CreateNext(w)
      <3>1. CASE run \in Executable
        <4>1. PICK next \in worker[w].todo, at \in {"create", "scan", "policy"} :
                 /\ rows' = Append(rows, NewRow(next.key, next.status))
                 /\ worker' = [worker EXCEPT ![w].todo = worker[w].todo \ {next}, ![w].at = at]
                 /\ UNCHANGED <<def, run, session, crashes, stalls>>
          BY <2>12, <3>1 DEF CreateNext
        <4> DEFINE rec == [worker[w] EXCEPT !.todo = worker[w].todo \ {next}, !.at = at]
        <4>2. next.key \in Keys /\ next.status \in RowStatus
          BY <2>1 DEF Doing, Item, RowStatus, Terminal, Successful
        <4>3. rec \in Doing /\ rec.row = worker[w].row
          BY <2>1 DEF Doing, Places
        <4>4. Fields(w, rec)
          BY <2>1, <2>12, <4>1, <4>3, LooseHand DEF Fields, CreateNext, At
        <4> QED
          BY <1>0, <4>1, <4>2, <4>4, LooseNew
      <3>2. CASE run \notin Executable
        <4>1. Abort(w) /\ UNCHANGED <<def, run, session, crashes, stalls>>
          BY <2>12, <3>2 DEF CreateNext
        <4> QED
          BY <1>0, <4>1, LooseAbort
      <3> QED
        BY <3>1, <3>2
    <2>13. CASE Look(w)
      <3>1. \E rec : Fields(w, rec)
        BY <1>0, <2>1, <2>13, LooseGoes DEF Look, At, Places
      <3> QED
        BY <1>0, <2>13, <3>1, LooseSame DEF Look
    <2>14. CASE CheckCompleted(w) \/ CheckFailed(w) \/ CheckAction(w)
      <3>1. worker[w].row # 0
        BY <2>1, <2>14 DEF CheckCompleted, CheckFailed, CheckAction, At
      <3>2. workflow_graph_terminal_failure_status \in {"none", "failed", "canceled"}
        BY DEF workflow_graph_terminal_failure_status
      <3>3. \/ \E at \in {"failed?", "action?"} : Go(w, at)
            \/ \E target \in Executable \cup Ended : Decide(w, target)
        BY <2>14, <3>2 DEF CheckCompleted, CheckFailed, CheckAction, Executable, Ended
      <3>4. \E rec : Fields(w, rec)
        BY <3>1, <3>3, LooseGoes DEF Decide, Places
      <3> QED
        BY <1>0, <2>14, <3>4, LooseSame DEF CheckCompleted, CheckFailed, CheckAction
    <2>15. CASE update_workflow_run_status_and_record(w)
      <3>1. PICK at \in {"finish", "ack"} : Go(w, at) /\ (at = "finish" => worker[w].target = "completed")
        BY <2>15 DEF update_workflow_run_status_and_record
      <3>2. run' \in Executable \cup Ended
        BY <1>0, <2>1, <2>15 DEF update_workflow_run_status_and_record
      <3>3. worker[w].row # 0 \/ at = "ack"
        BY <3>1 DEF LooseInv
      <3>4. \E rec : Fields(w, rec)
        BY <3>1, <3>3, LooseGoes DEF Places
      <3> QED
        BY <1>0, <2>15, <3>2, <3>4, LooseSame DEF update_workflow_run_status_and_record
    <2>16. CASE finish_completed_workflow_session(w)
      <3>1. \E rec : Fields(w, rec)
        BY <2>1, <2>16, LooseGoes DEF finish_completed_workflow_session, At, Places
      <3> QED
        BY <1>0, <2>16, <3>1, LooseSame DEF finish_completed_workflow_session
    <2> QED
      BY <1>7, <2>2, <2>3, <2>4, <2>5, <2>6, <2>8, <2>9, <2>10, <2>11, <2>12, <2>13, <2>14,
         <2>15, <2>16 DEF OwnStep
  <1> QED
    BY <1>1, <1>2, <1>3, <1>4, <1>5, <1>6, <1>7 DEF GraphNext

LEMMA LooseNext == LooseInv /\ [GraphNext]_vars => LooseInv' /\ stalls' \in {stalls, stalls + 1}
  <1> SUFFICES ASSUME LooseInv, [GraphNext]_vars
               PROVE  LooseInv' /\ stalls' \in {stalls, stalls + 1}
    OBVIOUS
  <1>1. CASE UNCHANGED vars
    BY <1>1 DEF vars, LooseInv, ShapeInv
  <1>2. CASE GraphNext
    <2>1. stalls \in Nat /\ stalls' \in {stalls, stalls + 1}
      BY <1>2, LooseChange DEF LooseInv
    <2>2. CASE worker' = worker
      <3>1. ShapeInv' /\ Len(rows) \in Nat /\ Len(rows') \in Nat /\ Len(rows) <= Len(rows')
        BY <1>2, <2>2, LooseChange DEF LooseInv, ShapeInv, Longer
      <3>2. 0..Len(rows) \subseteq 0..Len(rows')
        BY <3>1
      <3> QED
        BY <2>1, <2>2, <3>1, <3>2 DEF LooseInv
    <2>3. ASSUME NEW w \in Workers, NEW rec, Fields(w, rec) PROVE LooseInv'
      BY <1>2, <2>1, <2>3, LooseChange, LooseStep
    <2> QED
      BY <1>2, <2>1, <2>2, <2>3, LooseChange
  <1> QED
    BY <1>1, <1>2

\* A property that holds until a living worker outlasts a lease.
LEMMA PunctualStep ==
  ASSUME LooseInv, [GraphNext]_vars, stalls' = 0
  PROVE  stalls = 0 /\ PunctualNext
  BY LooseNext DEF LooseInv, PunctualNext

\* Every graph that passes validation keeps the types, whatever leases run out;
\* and while no living worker outlasts one, a worker runs a turn only for a
\* step that is still open: the job it holds is not taken over or settled by
\* another one.
THEOREM GraphTypeCorrect == GraphSpec => []GraphTypeOK
  <1> DEFINE Inv == LooseInv /\ (Punctual => TypeInv)
  <1>1. GraphInit => Inv
    BY LooseInit, InitTyped
  <1>2. Inv /\ [GraphNext]_vars => Inv'
    BY LooseNext, PunctualStep, TypeNext DEF Punctual
  <1>3. Inv => GraphTypeOK
    <2> SUFFICES ASSUME Inv PROVE GraphTypeOK
      OBVIOUS
    <2>1. \A i \in DOMAIN rows : rows[i] \in Row
      BY DEF LooseInv, ShapeInv
    <2>2. ASSUME NEW w \in Workers
          PROVE  /\ worker[w].row \in 0..Len(rows)
                 /\ worker[w].run \in Executable \cup Ended
                 /\ worker[w].todo \subseteq Item
      BY LooseHand DEF Doing
    <2>3. ASSUME NEW w \in Workers, Punctual,
                 worker[w].at \in {"claimed", "turn", "settle", "record"}
          PROVE  rows[worker[w].row].status \in Active
      BY <2>3 DEF TypeInv, PlaceOK, At, Active
    <2> QED
      BY <2>1, <2>2, <2>3 DEF GraphTypeOK, LooseInv, ShapeInv, Row, Item
  <1> QED
    BY <1>1, <1>2, <1>3, PTL DEF GraphSpec
-----------------------------------------------------------------------------
(* One step at a time in a shared session *)

\* The graphs whose steps all run in the primary session of the run.
SharedSession == \A d \in Definitions : d.isolated = {}

\* A step that is open, or whose session loop job is not acknowledged.
Busy(i) == rows[i].status \in Active \/ rows[i].job \in {"held", "lost"}
SoleInv == \A i, j \in DOMAIN rows : Busy(i) /\ Busy(j) => i = j

LEMMA AllShared ==
  ASSUME SharedSession, TypeInv \/ LooseInv, NEW i
  PROVE  /\ Shared(i)
         /\ JobRuns(i) <=> \E j \in DOMAIN rows : rows[j].job \in {"held", "lost"}
  BY DEF SharedSession, TypeInv, LooseInv, ShapeInv, JobRuns, SameSession, Shared

\* Step runs become busy one at a time, by the claim of a worker.
NoneBecomesBusy == \A i \in DOMAIN rows' : Busy(i)' => i \in DOMAIN rows /\ Busy(i)
OneBecomesBusy ==
    \E i \in DOMAIN rows' : /\ \A j \in DOMAIN rows : j # i => ~Busy(j)
                            /\ \A j \in DOMAIN rows' : j # i => j \in DOMAIN rows /\ (Busy(j)' => Busy(j))

LEMMA RowChange ==
  ASSUME TypeInv \/ LooseInv, NEW i \in DOMAIN rows, NEW r, rows' = [rows EXCEPT ![i] = r]
  PROVE  DOMAIN rows' = DOMAIN rows /\ \A j \in DOMAIN rows : rows'[j] = IF j = i THEN r ELSE rows[j]
  BY DEF TypeInv, LooseInv, ShapeInv

LEMMA RowTyped ==
  ASSUME TypeInv \/ LooseInv, NEW i \in DOMAIN rows
  PROVE  rows[i] \in Row
  BY DEF TypeInv, LooseInv, ShapeInv

LEMMA JobChange ==
  ASSUME TypeInv \/ LooseInv, NEW i \in DOMAIN rows, NEW job,
         \/ rows' = [rows EXCEPT ![i].job = job]
         \/ job = "held" /\ \E v : rows' = Start(i, v)
  PROVE  /\ DOMAIN rows' = DOMAIN rows
         /\ \A j \in DOMAIN rows : j # i => rows'[j] = rows[j]
         /\ rows'[i].key = rows[i].key /\ rows'[i].status = rows[i].status /\ rows'[i].job = job
  <1>1. rows[i] \in Row
    BY RowTyped
  <1>2. CASE rows' = [rows EXCEPT ![i].job = job]
    <2>1. rows' = [rows EXCEPT ![i] = [rows[i] EXCEPT !.job = job]]
      BY <1>2
    <2> QED
      BY <1>1, <2>1, RowChange DEF Row
  <1>3. ASSUME NEW v, job = "held", rows' = Start(i, v)
        PROVE  /\ DOMAIN rows' = DOMAIN rows
               /\ \A j \in DOMAIN rows : j # i => rows'[j] = rows[j]
               /\ rows'[i].key = rows[i].key /\ rows'[i].status = rows[i].status
               /\ rows'[i].job = job
    <2>1. rows' = [rows EXCEPT ![i] = [rows[i] EXCEPT !.job = "held", !.owner = v]]
      BY <1>3 DEF Start
    <2> QED
      BY <1>1, <1>3, <2>1, RowChange DEF Row
  <1> QED
    BY <1>2, <1>3

LEMMA StatusChange ==
  ASSUME TypeInv \/ LooseInv, NEW i \in DOMAIN rows, NEW status,
         \/ rows' = [rows EXCEPT ![i].status = status]
         \/ \E v : rows' = [rows EXCEPT ![i] = [@ EXCEPT !.status = status, !.by = v]]
  PROVE  /\ DOMAIN rows' = DOMAIN rows
         /\ \A j \in DOMAIN rows : j # i => rows'[j] = rows[j]
         /\ rows'[i].key = rows[i].key /\ rows'[i].status = status /\ rows'[i].job = rows[i].job
  <1>1. rows[i] \in Row
    BY RowTyped
  <1>2. CASE rows' = [rows EXCEPT ![i].status = status]
    <2>1. rows' = [rows EXCEPT ![i] = [rows[i] EXCEPT !.status = status]]
      BY <1>2
    <2> QED
      BY <1>1, <2>1, RowChange DEF Row
  <1>3. ASSUME NEW v, rows' = [rows EXCEPT ![i] = [@ EXCEPT !.status = status, !.by = v]]
        PROVE  /\ DOMAIN rows' = DOMAIN rows
               /\ \A j \in DOMAIN rows : j # i => rows'[j] = rows[j]
               /\ rows'[i].key = rows[i].key /\ rows'[i].status = status
               /\ rows'[i].job = rows[i].job
    <2>1. rows' = [rows EXCEPT ![i] = [rows[i] EXCEPT !.status = status, !.by = v]]
      BY <1>3
    <2> QED
      BY <1>1, <2>1, RowChange DEF Row
  <1> QED
    BY <1>2, <1>3

LEMMA DueChange ==
  ASSUME TypeInv \/ LooseInv, NEW w \in Workers, NEW i \in DOMAIN rows, ActivateDue(w, i)
  PROVE  /\ DOMAIN rows' = DOMAIN rows
         /\ \A j \in DOMAIN rows : j # i => rows'[j] = rows[j]
         /\ rows'[i].key = rows[i].key /\ rows'[i].status = "queued" /\ rows'[i].job = rows[i].job
  <1>1. rows' = [rows EXCEPT ![i].status = "queued"]
    BY DEF ActivateDue
  <1> QED
    BY <1>1, StatusChange

LEMMA ClaimChange ==
  ASSUME TypeInv \/ LooseInv, NEW i \in DOMAIN rows, NEW b, rows' = [rows EXCEPT ![i].by = b]
  PROVE  /\ DOMAIN rows' = DOMAIN rows
         /\ \A j \in DOMAIN rows : /\ rows'[j].key = rows[j].key /\ rows'[j].status = rows[j].status
                                   /\ rows'[j].job = rows[j].job
  <1>1. rows[i] \in Row
    BY RowTyped
  <1>2. rows' = [rows EXCEPT ![i] = [rows[i] EXCEPT !.by = b]]
    OBVIOUS
  <1> QED
    BY <1>1, <1>2, RowChange DEF Row

\* The jobs of workers that outlast no lease are lost only with them.
LEMMA Aborts ==
  ASSUME TypeInv, NEW w \in Workers, Abort(w)
  PROVE  /\ worker' = [worker EXCEPT ![w] = Idle]
         /\ \/ rows' = rows
            \/ Holding(w) /\ rows' = [rows EXCEPT ![worker[w].row].job = "lost"]
  BY HolderHasJob DEF Abort, Lapse

LEMMA Grows ==
  ASSUME TypeInv \/ LooseInv, NEW k, NEW s, rows' = Append(rows, NewRow(k, s))
  PROVE  /\ Len(rows) \in Nat /\ DOMAIN rows = 1..Len(rows)
         /\ DOMAIN rows' = DOMAIN rows \cup {Len(rows) + 1}
         /\ Len(rows) + 1 \notin DOMAIN rows
         /\ \A j \in DOMAIN rows : rows'[j] = rows[j] /\ j < Len(rows) + 1
         /\ rows'[Len(rows) + 1].key = k /\ rows'[Len(rows) + 1].status = s
         /\ rows'[Len(rows) + 1].job = "none"
  <1>1. rows \in Seq(Row)
    BY DEF TypeInv, LooseInv, ShapeInv
  <1>2. Len(rows) \in Nat /\ DOMAIN rows = 1..Len(rows) /\ DOMAIN rows' = 1..(Len(rows) + 1)
    BY <1>1
  <1>3. \A j \in DOMAIN rows : rows'[j] = rows[j] /\ j < Len(rows) + 1
    BY <1>1
  <1>4. rows'[Len(rows) + 1] = NewRow(k, s)
    BY <1>1
  <1> QED
    BY <1>2, <1>3, <1>4 DEF NewRow

\* The step run of a worker that holds its job.
LEMMA HeldIsBusy ==
  ASSUME TypeInv, NEW w \in Workers, Engaged(w)
  PROVE  worker[w].row \in DOMAIN rows /\ Busy(worker[w].row)
  <1>1. PlaceOK(w)
    BY DEF TypeInv
  <1>2. worker[w].row # 0
    BY <1>1 DEF Engaged, Holding, PlaceOK, At
  <1> QED
    BY <1>1, <1>2, AtHand DEF PlaceOK, Engaged, Busy, Active

LEMMA ClaimIsSole ==
  ASSUME SharedSession, TypeInv, NEW w \in Workers, NEW i \in DOMAIN rows, ~Occupied(i),
         rows' = [rows EXCEPT ![i] = [@ EXCEPT !.status = "running", !.by = w]]
  PROVE  OneBecomesBusy
  <1>1. \A j \in DOMAIN rows : j # i => ~Busy(j)
    BY AllShared DEF Occupied, Busy, SameSession
  <1>2. /\ DOMAIN rows' = DOMAIN rows
        /\ \A j \in DOMAIN rows : j # i => rows'[j] = rows[j]
    BY RowChange
  <1> QED
    BY <1>1, <1>2 DEF OneBecomesBusy, Busy

LEMMA StepsAreSole ==
  ASSUME SharedSession, TypeInv, PunctualNext
  PROVE  NoneBecomesBusy \/ OneBecomesBusy
  <1>1. CASE rows' = rows
    BY <1>1 DEF NoneBecomesBusy, Busy
  <1>2. ASSUME NEW w \in Workers, Holding(w), NEW j \in {"lost", "done"},
               rows' = [rows EXCEPT ![worker[w].row].job = j]
        PROVE  NoneBecomesBusy
    <2>1. worker[w].row \in DOMAIN rows /\ Busy(worker[w].row)
      BY <1>2, HeldIsBusy DEF Engaged
    <2> QED
      BY <1>2, <2>1, JobChange DEF NoneBecomesBusy, Busy
  <1>3. ASSUME NEW k, NEW s, rows' = Append(rows, NewRow(k, s)), s \notin Active
        PROVE  NoneBecomesBusy
    BY <1>3, Grows DEF NoneBecomesBusy, Busy
  <1>4. ASSUME NEW w \in Workers, OwnStep(w), rows' # rows PROVE NoneBecomesBusy \/ OneBecomesBusy
    <2>1. PlaceOK(w) /\ worker[w] \in Doing
      BY AtHand
    <2>2. CASE claim_workflow_step_run_if_available(w)
      <3>1. worker[w].row \in DOMAIN rows
        BY <2>1, <2>2, AtHand DEF claim_workflow_step_run_if_available, PlaceOK, At
      <3> QED
        BY <1>4, <2>2, <3>1, ClaimIsSole DEF claim_workflow_step_run_if_available
    <2>3. CASE StartJob(w)
      <3>1. worker[w].row \in DOMAIN rows /\ Busy(worker[w].row)
        BY <2>1, <2>3, HeldIsBusy DEF StartJob, Engaged, PlaceOK
      <3>2. rows' = Start(worker[w].row, w)
        BY <1>4, <2>3 DEF StartJob
      <3> QED
        BY <3>1, <3>2, JobChange DEF NoneBecomesBusy, Busy
    <2>4. CASE Ack(w)
      BY <1>2, <1>4, <2>4, HolderHasJob DEF Ack
    <2>7. CASE Settle(w)
      BY <1>4, <2>7, SettleType
    <2>8. CASE Record(w)
      <3>1. worker[w].row \in DOMAIN rows /\ Busy(worker[w].row)
        BY <2>1, <2>8, HeldIsBusy DEF Record, PlaceOK, Engaged, Holding, At
      <3>2. \E o : rows' = [rows EXCEPT ![worker[w].row] = [@ EXCEPT !.status = o, !.by = w]]
        BY <2>8, RecordIsFenced DEF Records
      <3> QED
        BY <3>1, <3>2, StatusChange DEF NoneBecomesBusy, Busy
    <2>5. CASE Retry(w)
      <3>1. Holding(w)
        BY <2>1, <2>5 DEF Retry, PlaceOK, At, Holding
      <3>2. CASE Abort(w)
        BY <1>2, <1>4, <3>2, Aborts
      <3>3. CASE ~Abort(w)
        <4>1. PICK k \in Keys, s \in {"scheduled", "queued"} : rows' = Append(rows, NewRow(k, s))
          <5>1. rows[worker[w].row].key \in Keys
            BY <3>1, AtHand DEF Holding, Row
          <5> QED
            BY <2>5, <3>3, <5>1 DEF Retry
        <4> QED
          BY <1>3, <4>1 DEF Active
      <3> QED
        BY <3>2, <3>3
    <2>6. CASE CreateNext(w)
      <3>1. Holding(w)
        BY <2>1, <2>6 DEF CreateNext, PlaceOK, At, Holding
      <3>2. CASE Abort(w)
        BY <1>2, <1>4, <3>2, Aborts
      <3>3. CASE ~Abort(w)
        <4>1. PICK next \in worker[w].todo : rows' = Append(rows, NewRow(next.key, next.status))
          BY <2>6, <3>3 DEF CreateNext
        <4>2. next.status \notin Active
          BY <2>1 DEF Doing, Item, Active
        <4> QED
          BY <1>3, <4>1, <4>2
      <3> QED
        BY <3>2, <3>3
    <2> QED
      BY <1>4, <2>2, <2>3, <2>4, <2>5, <2>6, <2>7, <2>8
         DEF OwnStep, Scan, StepFailed, FailurePolicy, Look, CheckCompleted, CheckFailed,
             CheckAction, update_workflow_run_status_and_record, finish_completed_workflow_session
  <1>5. ASSUME NEW w \in Workers, NEW i \in DOMAIN rows,
               Pick(w, i) \/ Resume(w, i) \/ TakeOver(w, i) \/ ActivateDue(w, i)
        PROVE  NoneBecomesBusy
    <2>1. CASE Pick(w, i)
      BY <1>1, <2>1 DEF Pick, NoneBecomesBusy, Busy
    <2>2. CASE Resume(w, i) \/ TakeOver(w, i)
      <3>1. rows' = Start(i, w) /\ Busy(i)
        BY <2>2 DEF Resume, TakeOver, Busy
      <3> QED
        BY <3>1, JobChange DEF NoneBecomesBusy, Busy
    <2>3. CASE ActivateDue(w, i)
      BY <2>3, DueChange DEF NoneBecomesBusy, Busy, Active
    <2> QED
      BY <1>5, <2>1, <2>2, <2>3
  <1>6. ASSUME NEW w \in Workers, NEW o \in RowStatus, Reconcile(w, o) PROVE NoneBecomesBusy
    <2>1. PlaceOK(w) /\ Reconciles(w, o)
      BY <1>6, ReconcileIsFenced DEF TypeInv
    <2>2. worker[w].row \in DOMAIN rows
      BY <2>1, AtHand DEF Reconciles, PlaceOK, At
    <2>3. \E b : rows' = [rows EXCEPT ![worker[w].row].by = b]
      BY <2>1 DEF Reconciles
    <2> QED
      BY <2>2, <2>3, ClaimChange DEF NoneBecomesBusy, Busy
  <1>7. ASSUME NEW w \in Workers, Crash(w), rows' # rows PROVE NoneBecomesBusy
    BY <1>2, <1>7, Aborts DEF Crash
  <1>8. rows' # rows => \/ \E w \in Workers : OwnStep(w) \/ Starts(w) \/ Crash(w)
                        \/ \E w \in Workers, o \in RowStatus : Reconcile(w, o)
    BY NoStall DEF GraphNext, vars, FailSession, TerminateSession, Conclude
  <1> QED
    BY <1>1, <1>4, <1>5, <1>6, <1>7, <1>8 DEF Starts

LEMMA SoleNext ==
  ASSUME SharedSession, TypeInv, SoleInv, PunctualNext
  PROVE  SoleInv'
  BY StepsAreSole DEF SoleInv, NoneBecomesBusy, OneBecomesBusy

LEMMA SoleInit == GraphInit => SoleInv
  <1> SUFFICES ASSUME GraphInit PROVE SoleInv
    OBVIOUS
  <1>1. \A i \in DOMAIN rows : rows[i].status = "queued" /\ rows[i].job = "none"
    BY DEF GraphInit, NewRow
  <1> QED
    BY <1>1 DEF SoleInv, Busy, Active

\* At most one worker is engaged.
LEMMA OneEngaged ==
  ASSUME TypeInv, SoleInv, NEW v \in Workers, NEW w \in Workers, Engaged(v), Engaged(w)
  PROVE  v = w
  BY HeldIsBusy DEF SoleInv, TypeInv, Apart
-----------------------------------------------------------------------------
(* The kinds of steps, as the step runs and the other workers see them *)

Others(w) == def' = def /\ \A v \in Workers \ {w} : worker'[v] = worker[v]

SameSteps ==
    /\ DOMAIN rows' = DOMAIN rows
    /\ \A i \in DOMAIN rows : rows'[i].key = rows[i].key /\ rows'[i].status = rows[i].status

\* At most the session ends.
Pauses ==
    /\ UNCHANGED <<def, run, rows, worker>>
    /\ session' = session \/ session' # "open"

\* A worker takes a step or a job, gives it up or goes on reading.
Moves(w) ==
    /\ Others(w) /\ SameSteps /\ run' = run
    /\ session' = session \/ session' # "open"
    /\ worker'[w].todo \in {{}, worker[w].todo}
    /\ worker'[w].at \in {"idle", "claim", "turn", "settle", "record", "ack", "finish", "scan",
                          "completed?", "failed?", "action?"}
    /\ worker'[w].at = "claim" => session = "open" /\ worker'[w].row \in DOMAIN rows
    /\ worker'[w].at = "scan" =>
          worker'[w].row \in DOMAIN rows /\ rows[worker'[w].row].status = "completed"
    /\ worker'[w].at = "record" /\ session = "open" =>
          worker'[w].target \notin {"failed", "canceled"}
    /\ run \in Ended /\ worker[w].at \in {"idle", "claim", "finish", "ack"} =>
          \/ worker'[w].at \in {"idle", "finish", "ack"}
          \/ worker'[w].row \in DOMAIN rows /\ rows[worker'[w].row].status \in Active

Claims(w) ==
    LET i == worker[w].row IN
    /\ Others(w) /\ run' = run /\ session' = session
    /\ At(w, "claim") /\ i \in DOMAIN rows
    /\ ~Occupied(i) /\ rows[i].status \in {"queued", "running"}
    /\ rows' = [rows EXCEPT ![i] = [@ EXCEPT !.status = "running", !.by = w]]
    /\ worker'[w].at = "claimed" /\ worker'[w].todo = worker[w].todo /\ worker'[w].row = i

Finds(w, target) ==
    /\ target \in Executable \cup Ended
    /\ target \in Ended =>
          \/ target = "completed" /\ workflow_graph_run_completed
          \/ /\ target \in {"failed", "canceled"} /\ Some(target)
             /\ \A i \in DOMAIN rows : rows[i].status \in Terminal

Decides(w) ==
    /\ Others(w) /\ UNCHANGED <<run, rows, session>>
    /\ worker[w].at \in {"completed?", "failed?", "action?"}
    /\ worker'[w].at = "write" /\ worker'[w].todo = worker[w].todo
    /\ worker'[w].row = worker[w].row
    /\ Finds(w, worker'[w].target)

Retries(w) ==
    /\ Others(w) /\ run' = run /\ session' = session
    /\ At(w, "retry") /\ Holding(w) /\ run \in Executable
    /\ \E s \in {"queued", "scheduled"} :
          rows' = Append(rows, NewRow(rows[worker[w].row].key, s))
    /\ worker'[w].at = "write" /\ worker'[w].todo = worker[w].todo
    /\ worker'[w].target = "running" /\ worker'[w].row = worker[w].row

Creates(w, next) ==
    /\ Others(w) /\ run' = run /\ session' = session
    /\ At(w, "create") /\ Holding(w) /\ run \in Executable
    /\ rows' = Append(rows, NewRow(next.key, next.status))
    /\ worker'[w].todo = worker[w].todo \ {next} /\ worker'[w].row = worker[w].row
    /\ worker'[w].at \in {"create", "scan", "policy"}
    /\ worker'[w].at = "scan" => rows[worker[w].row].status = "completed"
    /\ worker'[w].at = "policy" => rows[worker[w].row].status # "completed"

Kind(w) ==
    \/ Moves(w) \/ Claims(w) \/ Scan(w) \/ FailurePolicy(w) \/ StepFailed(w)
    \/ Decides(w) \/ Retries(w) \/ \E next \in worker[w].todo : Creates(w, next)
    \/ update_workflow_run_status_and_record(w)
    \/ \E o \in RowStatus : Records(w, o)
    \/ \E i \in DOMAIN rows : ActivateDue(w, i)

LEMMA ClaimsChange ==
  ASSUME TypeInv, NEW w \in Workers, Claims(w), NEW i, i = worker[w].row
  PROVE  /\ DOMAIN rows' = DOMAIN rows
         /\ \A j \in DOMAIN rows : j # i => rows'[j] = rows[j]
         /\ rows'[i].key = rows[i].key /\ rows'[i].status = "running" /\ rows'[i].job = rows[i].job
  <1>1. i \in DOMAIN rows /\ \E v : rows' = [rows EXCEPT ![i] = [@ EXCEPT !.status = "running", !.by = v]]
    BY DEF Claims
  <1> QED
    BY <1>1, StatusChange

\* The fields that the steps of a worker assign.
LEMMA GoFields ==
  ASSUME TypeInv \/ LooseInv, NEW w \in Workers, def' = def, NEW at, Go(w, at)
  PROVE  /\ Others(w) /\ worker'[w].at = at /\ worker'[w].todo = worker[w].todo
         /\ worker'[w].row = worker[w].row /\ worker'[w].target = worker[w].target
  BY DEF Go, Others, Doing, TypeInv, LooseInv, ShapeInv

LEMMA DecideFields ==
  ASSUME TypeInv \/ LooseInv, NEW w \in Workers, def' = def, NEW target, Decide(w, target)
  PROVE  /\ Others(w) /\ worker'[w].at = "write" /\ worker'[w].todo = worker[w].todo
         /\ worker'[w].row = worker[w].row /\ worker'[w].target = target
  BY DEF Decide, Others, Doing, TypeInv, LooseInv, ShapeInv

LEMMA IdleFields ==
  ASSUME TypeInv \/ LooseInv, NEW w \in Workers, def' = def, worker' = [worker EXCEPT ![w] = Idle]
  PROVE  /\ Others(w) /\ worker'[w].at = "idle" /\ worker'[w].todo = {}
         /\ worker'[w].row = 0
  BY DEF Idle, Others, TypeInv, LooseInv, ShapeInv

LEMMA StartFields ==
  ASSUME TypeInv \/ LooseInv, NEW w \in Workers, def' = def, NEW at, NEW i,
         \/ worker' = [worker EXCEPT ![w] = [Idle EXCEPT !.at = at, !.row = i, !.run = run]]
         \/ worker' = [worker EXCEPT ![w] = [Idle EXCEPT !.at = at, !.row = i]]
  PROVE  /\ Others(w) /\ worker'[w].at = at /\ worker'[w].todo = {}
         /\ worker'[w].row = i
  BY DEF Idle, Others, TypeInv, LooseInv, ShapeInv

LEMMA GivesUp ==
  ASSUME TypeInv, NEW w \in Workers, worker' = [worker EXCEPT ![w] = Idle],
         UNCHANGED <<def, run, session>>,
         \/ rows' = rows
         \/ Holding(w) /\ \E job \in JobStatus : rows' = [rows EXCEPT ![worker[w].row].job = job]
  PROVE  Moves(w)
  <1>1. SameSteps
    <2>1. CASE rows' = rows
      BY <2>1 DEF SameSteps
    <2>2. CASE rows' # rows
      <3>1. worker[w].row \in DOMAIN rows
        BY <2>2, HeldIsBusy DEF Engaged
      <3> QED
        BY <2>2, <3>1, JobChange DEF SameSteps
    <2> QED
      BY <2>1, <2>2
  <1> QED
    BY <1>1, IdleFields DEF Moves

LEMMA AbortMoves ==
  ASSUME TypeInv, NEW w \in Workers, Abort(w), UNCHANGED <<def, run, session>>
  PROVE  Moves(w)
  BY Aborts, GivesUp DEF JobStatus

LEMMA StepKinds ==
  ASSUME SharedSession, TypeInv, PunctualNext
  PROVE  Pauses \/ \E w \in Workers : Kind(w)
  <1>1. ASSUME NEW w \in Workers, OwnStep(w) PROVE Kind(w)
    <2>1. PlaceOK(w) /\ worker[w] \in Doing
      BY AtHand
    <2>2. CASE claim_workflow_step_run_if_available(w)
      <3>1. worker[w].row \in DOMAIN rows
        BY <2>1, <2>2, AtHand DEF claim_workflow_step_run_if_available, PlaceOK, At
      <3>2. CASE ~Occupied(worker[w].row)
                    /\ (rows[worker[w].row].status = "queued" \/ Abandoned(worker[w].row))
        <4>1. Claims(w)
          BY <2>2, <3>1, <3>2, GoFields DEF claim_workflow_step_run_if_available, Claims, Abandoned
        <4> QED
          BY <4>1 DEF Kind
      <3>3. CASE ~(~Occupied(worker[w].row)
                     /\ (rows[worker[w].row].status = "queued" \/ Abandoned(worker[w].row)))
        BY <2>2, <3>3, GivesUp DEF claim_workflow_step_run_if_available, Kind
      <3> QED
        BY <3>2, <3>3
    <2>3. CASE StartJob(w)
      <3>1. worker[w].row \in DOMAIN rows /\ At(w, "claimed")
        BY <2>1, <2>3, HeldIsBusy DEF StartJob, Engaged, PlaceOK
      <3>2. CASE rows' = rows /\ worker' = [worker EXCEPT ![w] = Idle]
        BY <2>3, <3>2, GivesUp DEF StartJob, Kind
      <3>3. CASE /\ rows' = Start(worker[w].row, w)
                 /\ worker' = [worker EXCEPT ![w].at = "turn", ![w].was = "running"]
        <4>1. Others(w) /\ worker'[w].at = "turn" /\ worker'[w].todo = worker[w].todo
          BY <2>1, <2>3, <3>3 DEF StartJob, Others, TypeInv, ShapeInv, Doing
        <4>2. SameSteps
          BY <3>1, <3>3, JobChange DEF SameSteps
        <4>3. Moves(w)
          BY <2>3, <3>1, <4>1, <4>2 DEF StartJob, Moves, At
        <4> QED
          BY <4>3 DEF Kind
      <3> QED
        BY <2>3, <3>2, <3>3 DEF StartJob
    <2>4. CASE Ack(w)
      <3>1. \/ rows' = rows
            \/ Holding(w) /\ rows' = [rows EXCEPT ![worker[w].row].job = "done"]
        BY <2>4, HolderHasJob DEF Ack
      <3> QED
        BY <2>4, <3>1, GivesUp DEF Ack, Kind, JobStatus
    <2>13. CASE Settle(w)
      <3>1. Go(w, "settle") /\ rows' = rows
        BY <2>13, SettleType DEF Go
      <3>2. Others(w) /\ worker'[w].at = "settle" /\ worker'[w].todo = worker[w].todo
        BY <2>13, <3>1, GoFields DEF Settle
      <3>3. Moves(w)
        BY <2>13, <3>1, <3>2 DEF Settle, Moves, SameSteps, At
      <3> QED
        BY <3>3 DEF Kind
    <2>14. CASE Record(w)
      BY <2>14, RecordIsFenced DEF Kind
    <2>5. CASE Retry(w)
      <3>1. Holding(w)
        BY <2>1, <2>5 DEF Retry, PlaceOK, At, Holding
      <3>2. CASE run \in Executable
        <4>1. /\ Others(w) /\ worker'[w].at = "write" /\ worker'[w].target = "running"
              /\ worker'[w].row = worker[w].row /\ worker'[w].todo = worker[w].todo
          BY <2>1, <2>5, <3>2 DEF Retry, Others, TypeInv, ShapeInv, Doing
        <4>2. Retries(w)
          BY <2>5, <3>1, <3>2, <4>1 DEF Retry, Retries
        <4> QED
          BY <4>2 DEF Kind
      <3>3. CASE run \notin Executable
        BY <2>5, <3>3, AbortMoves DEF Retry, Kind
      <3> QED
        BY <3>2, <3>3
    <2>6. CASE CreateNext(w)
      <3>1. Holding(w)
        BY <2>1, <2>6 DEF CreateNext, PlaceOK, At, Holding
      <3>2. CASE run \in Executable
        <4>1. PICK next \in worker[w].todo, at \in {"create", "scan", "policy"} :
                 /\ rows' = Append(rows, NewRow(next.key, next.status))
                 /\ worker' = [worker EXCEPT ![w].todo = worker[w].todo \ {next}, ![w].at = at]
                 /\ at = "scan" => rows[worker[w].row].status = "completed"
                 /\ at = "policy" => rows[worker[w].row].status # "completed"
                 /\ UNCHANGED <<def, run, session>>
          BY <2>6, <3>2 DEF CreateNext
        <4>2. /\ Others(w) /\ worker'[w].at = at
              /\ worker'[w].row = worker[w].row /\ worker'[w].todo = worker[w].todo \ {next}
          BY <2>1, <4>1 DEF Others, TypeInv, ShapeInv, Doing
        <4>3. Creates(w, next)
          BY <2>6, <3>1, <3>2, <4>1, <4>2 DEF Creates, CreateNext
        <4> QED
          BY <4>3 DEF Kind
      <3>3. CASE run \notin Executable
        <4>1. Abort(w) /\ UNCHANGED <<def, run, session>>
          BY <2>6, <3>3 DEF CreateNext
        <4> QED
          BY <4>1, AbortMoves DEF Kind
      <3> QED
        BY <3>2, <3>3
    <2>7. CASE Look(w)
      <3>1. /\ Others(w) /\ worker'[w].at = "completed?"
            /\ worker'[w].row = worker[w].row /\ worker'[w].todo = worker[w].todo
        BY <2>1, <2>7 DEF Look, Others, TypeInv, ShapeInv, Doing
      <3>2. Moves(w)
        BY <2>7, <3>1 DEF Look, Moves, SameSteps, At
      <3> QED
        BY <3>2 DEF Kind
    <2>8. CASE CheckCompleted(w)
      <3>1. CASE workflow_graph_run_completed
        <4>1. Decides(w)
          BY <2>8, <3>1, DecideFields DEF CheckCompleted, Decides, Finds, Ended, At
        <4> QED
          BY <4>1 DEF Kind
      <3>2. CASE ~workflow_graph_run_completed
        <4>2. Others(w) /\ worker'[w].at = "failed?" /\ worker'[w].todo = worker[w].todo
          BY <2>8, <3>2, GoFields DEF CheckCompleted
        <4>1. Moves(w)
          BY <2>8, <4>2 DEF CheckCompleted, Moves, SameSteps, At
        <4> QED
          BY <4>1 DEF Kind
      <3> QED
        BY <3>1, <3>2
    <2>9. CASE CheckFailed(w)
      <3> DEFINE status == workflow_graph_terminal_failure_status
      <3>1. CASE status = "none"
        <4>2. Others(w) /\ worker'[w].at = "action?" /\ worker'[w].todo = worker[w].todo
          BY <2>9, <3>1, GoFields DEF CheckFailed
        <4>1. Moves(w)
          BY <2>9, <4>2 DEF CheckFailed, Moves, SameSteps, At
        <4> QED
          BY <4>1 DEF Kind
      <3>2. CASE status # "none"
        <4>1. /\ status \in {"failed", "canceled"} /\ Some(status)
              /\ \A i \in DOMAIN rows : rows[i].status \in Terminal
          BY <3>2 DEF workflow_graph_terminal_failure_status
        <4>2. Finds(w, status)
          BY <4>1 DEF Finds, Ended
        <4> HIDE DEF status
        <4>3. Decides(w)
          BY <2>9, <3>2, <4>2, DecideFields DEF CheckFailed, Decides, At, status
        <4> QED
          BY <4>3 DEF Kind
      <3> QED
        BY <3>1, <3>2
    <2>10. CASE CheckAction(w)
      <3>2. PICK target \in {"requires_action", "running"} : Decide(w, target)
        BY <2>10 DEF CheckAction
      <3>3. Finds(w, target)
        BY DEF Finds, Executable, Ended
      <3>1. Decides(w)
        BY <2>10, <3>2, <3>3, DecideFields DEF CheckAction, Decides, At
      <3> QED
        BY <3>1 DEF Kind
    <2>11. CASE finish_completed_workflow_session(w)
      <3>2. Others(w) /\ worker'[w].at = "ack" /\ worker'[w].todo = worker[w].todo
        BY <2>11, GoFields DEF finish_completed_workflow_session
      <3>1. Moves(w)
        BY <2>11, <3>2 DEF finish_completed_workflow_session, Moves, SameSteps, At
      <3> QED
        BY <3>1 DEF Kind
    <2>12. CASE Scan(w) \/ StepFailed(w) \/ FailurePolicy(w)
                  \/ update_workflow_run_status_and_record(w)
      BY <2>12 DEF Kind
    <2> QED
      BY <1>1, <2>2, <2>3, <2>4, <2>5, <2>6, <2>7, <2>8, <2>9, <2>10, <2>11, <2>12,
         <2>13, <2>14 DEF OwnStep
  <1>2. ASSUME NEW w \in Workers, NEW i \in DOMAIN rows,
               Pick(w, i) \/ Resume(w, i) \/ TakeOver(w, i) \/ ActivateDue(w, i)
        PROVE  Kind(w)
    <2>1. CASE Pick(w, i)
      <3>1. run \notin Ended /\ session = "open"
        BY <2>1, AllShared DEF Pick, Executable, Ended
      <3>2. Others(w) /\ worker'[w].at = "claim" /\ worker'[w].todo = {} /\ worker'[w].row = i
        BY <2>1, StartFields DEF Pick
      <3>3. Moves(w)
        BY <2>1, <3>1, <3>2 DEF Pick, Moves, SameSteps
      <3> QED
        BY <3>3 DEF Kind
    <2>2. CASE Resume(w, i)
      <3>1. Others(w) /\ worker'[w].at = "turn" /\ worker'[w].todo = {} /\ worker'[w].row = i
        BY <2>2, StartFields DEF Resume
      <3>2. Moves(w)
        BY <2>2, <3>1, JobChange DEF Resume, Moves, SameSteps
      <3> QED
        BY <3>2 DEF Kind
    <2>3. CASE TakeOver(w, i)
      <3> DEFINE at == resume_recorded_workflow_completion(i)
      <3>1. /\ at \in {"turn", "ack", "finish", "scan"}
            /\ at = "scan" => rows[i].status = "completed" /\ run \notin Ended
            /\ at = "turn" => rows[i].status \in Active
        BY DEF resume_recorded_workflow_completion, Executable, Ended
      <3> HIDE DEF at
      <3>2. Others(w) /\ worker'[w].at = at /\ worker'[w].todo = {} /\ worker'[w].row = i
        BY <2>3, StartFields DEF TakeOver, at
      <3>3. Moves(w)
        BY <2>3, <3>1, <3>2, JobChange DEF TakeOver, Moves, SameSteps
      <3> QED
        BY <3>3 DEF Kind
    <2> QED
      BY <1>2, <2>1, <2>2, <2>3 DEF Kind
  <1>3. ASSUME NEW w \in Workers, Crash(w) PROVE Kind(w)
    BY <1>3, AbortMoves DEF Crash, Kind
  <1>4. ASSUME NEW w \in Workers, FailSession(w) PROVE Pauses
    BY <1>4 DEF FailSession, Pauses
  <1>5. CASE TerminateSession
    BY <1>5 DEF TerminateSession, Pauses
  <1>6. CASE UNCHANGED vars
    BY <1>6 DEF vars, Pauses
  <1>7. ASSUME NEW w \in Workers, NEW o \in RowStatus, Conclude(w, o) \/ Reconcile(w, o)
        PROVE  Kind(w)
    <2>1. session = "open" => o \notin {"failed", "canceled"}
      BY <1>7, AllShared DEF Conclude, Reconcile, Outcomes, Active
    <2>2. CASE Conclude(w, o)
      <3>1. /\ Others(w) /\ worker'[w].at = "record" /\ worker'[w].target = o
            /\ worker'[w].todo = worker[w].todo
        BY <2>2 DEF Conclude, Others, TypeInv, ShapeInv, Doing
      <3>2. Moves(w)
        BY <2>1, <2>2, <3>1 DEF Conclude, Moves, SameSteps, At
      <3> QED
        BY <3>2 DEF Kind
    <2>3. CASE Reconcile(w, o)
      <3>5. Reconciles(w, o) /\ At(w, "settle")
        BY <2>3, ReconcileIsFenced DEF Reconcile
      <3>1. Reconciles(w, o) /\ worker[w].row \in DOMAIN rows
        BY <3>5, AtHand DEF PlaceOK, At
      <3>2. /\ Others(w) /\ worker'[w].at = "record" /\ worker'[w].target = o
            /\ worker'[w].todo = {}
        BY <3>1 DEF Reconciles, Others, Idle, TypeInv, ShapeInv
      <3>3. SameSteps
        <4>1. \E b : rows' = [rows EXCEPT ![worker[w].row].by = b]
          BY <3>1 DEF Reconciles
        <4> QED
          BY <3>1, <4>1, ClaimChange DEF SameSteps
      <3>4. Moves(w)
        BY <2>1, <3>1, <3>2, <3>3 DEF Reconciles, Moves, At
      <3> QED
        BY <3>4 DEF Kind
    <2> QED
      BY <1>7, <2>2, <2>3
  <1> QED
    BY <1>1, <1>2, <1>3, <1>4, <1>5, <1>6, <1>7, NoStall DEF GraphNext, Starts
-----------------------------------------------------------------------------
(* Step keys are reserved *)

\* Step runs of one key follow each other's failures.
KeyInv ==
    /\ \A i \in DOMAIN rows : rows[i].key \in Steps
    /\ \A i, j \in DOMAIN rows : i < j /\ rows[i].key = rows[j].key => rows[i].status = "failed"

\* No worker has outlasted its lease.
KeysBound == \A k \in Keys : Cardinality(Of(k)) <= def.attempts[k]

\* What was decided from the list of step runs still holds when it is done.
PlanOK(w) ==
    LET i == worker[w].row IN
    /\ \A e \in worker[w].todo : e.key \in Steps /\ (At(w, "create") => ~Exists(e.key))
    /\ \A e, f \in worker[w].todo : e.key = f.key => e = f
    /\ At(w, "scan") \/ At(w, "create") => rows[i].status \in {"completed", "failed", "canceled"}
    /\ worker[w].at \in {"failed", "retry", "policy"} => rows[i].status \in {"failed", "canceled"}
    /\ At(w, "failed") \/ At(w, "retry") =>
          \A j \in DOMAIN rows : rows[j].key = rows[i].key => j <= i
    /\ At(w, "retry") => rows[i].status = "failed" /\ AttemptsLeft(rows[i].key)

\* Nothing has gone wrong while the session is open.
OpenInv ==
    session = "open" =>
        /\ \A i \in DOMAIN rows : rows[i].status \in Active \cup {"queued", "completed", "skipped"}
        /\ \A w \in Workers : /\ worker[w].at \notin {"failed", "retry", "policy"}
                              /\ At(w, "record") => worker[w].target \notin {"failed", "canceled"}
                              /\ \A e \in worker[w].todo : e.status # "blocked"

PlanInv ==
    /\ TypeInv /\ SoleInv /\ KeyInv /\ KeysBound /\ OpenInv
    /\ \A w \in Workers : PlanOK(w)

\* Nothing happens to the step runs but that a scheduled one becomes due.
Steady ==
    /\ DOMAIN rows' = DOMAIN rows
    /\ \A i \in DOMAIN rows :
          /\ rows'[i].key = rows[i].key
          /\ \/ rows'[i].status = rows[i].status
             \/ rows[i].status = "scheduled" /\ rows'[i].status = "queued"

\* While one worker holds a job, no other worker disturbs the step runs.
LEMMA Bystanders ==
  ASSUME SharedSession, TypeInv, SoleInv, NEW w \in Workers, Kind(w), NEW v \in Workers \ {w}
  PROVE  worker'[v] = worker[v] /\ def' = def /\ (Steady \/ ~Holding(v))
  <1>1. worker \in [Workers -> Doing]
    BY DEF TypeInv, ShapeInv
  <1>2. Engaged(w) => ~Holding(v)
    BY OneEngaged DEF Engaged
  <1>3. CASE Moves(w) \/ Decides(w)
    BY <1>3 DEF Moves, Decides, Others, SameSteps, Steady
  <1>4. CASE Claims(w)
    <2>1. ~Holding(v)
      <3> SUFFICES ASSUME Holding(v) PROVE FALSE
        OBVIOUS
      <3>1. PlaceOK(v) /\ worker[v].row \in DOMAIN rows
        BY HeldIsBusy DEF TypeInv, Engaged
      <3>2. JobRuns(worker[w].row)
        BY <3>1, AllShared DEF PlaceOK
      <3> QED
        BY <1>4, <3>2 DEF Claims, Occupied
    <2> QED
      BY <1>4, <2>1 DEF Claims, Others
  <1>5. CASE Scan(w)
    <2>1. PICK off : Plans(w, ScanPlan(off))
      BY <1>5, ScanPlans
    <2> QED
      BY <1>1, <1>5, <2>1 DEF Scan, Plans, Steady
  <1>6. CASE FailurePolicy(w)
    <2>1. Plans(w, PolicyPlan(rows[worker[w].row].key))
      BY <1>6, PolicyPlans
    <2> QED
      BY <1>1, <1>6, <2>1 DEF FailurePolicy, Plans, Steady
  <1>7. CASE StepFailed(w)
    BY <1>1, <1>7 DEF StepFailed, Go, Steady
  <1>8. CASE Retries(w) \/ \E next \in worker[w].todo : Creates(w, next)
    BY <1>2, <1>8 DEF Retries, Creates, Engaged, Others
  <1>9. CASE update_workflow_run_status_and_record(w)
    BY <1>1, <1>9 DEF update_workflow_run_status_and_record, Go, Steady
  <1>10. ASSUME NEW o \in RowStatus, Records(w, o)
         PROVE  worker'[v] = worker[v] /\ def' = def /\ ~Holding(v)
    <2>1. Engaged(w)
      BY <1>10, AtHand DEF Records, At, PlaceOK, Engaged, Holding
    <2> QED
      BY <1>1, <1>2, <1>10, <2>1 DEF Records
  <1>11. ASSUME NEW i \in DOMAIN rows, ActivateDue(w, i)
         PROVE  worker'[v] = worker[v] /\ def' = def /\ Steady
    <2>1. Steady
      BY <1>11, DueChange DEF ActivateDue, Steady
    <2> QED
      BY <1>1, <1>11, <2>1 DEF ActivateDue
  <1> QED
    BY <1>3, <1>4, <1>5, <1>6, <1>7, <1>8, <1>9, <1>10, <1>11 DEF Kind

LEMMA PlanKept ==
  ASSUME TypeInv, NEW v \in Workers, worker'[v] = worker[v], def' = def, PlanOK(v),
         Steady \/ ~Holding(v)
  PROVE  PlanOK(v)'
  <1>1. PlaceOK(v) /\ Steps' = Steps
    BY DEF TypeInv, Steps
  <1>2. CASE ~Holding(v)
    <2>1. worker[v].at \notin {"create", "scan", "failed", "retry", "policy"}
      BY <1>1, <1>2 DEF PlaceOK, Holding
    <2> QED
      BY <1>1, <2>1 DEF PlanOK, At
  <1>3. CASE Steady /\ Holding(v)
    <2> DEFINE i == worker[v].row
    <2>1. i \in DOMAIN rows /\ rows[i].job = "held" /\ RowOK(i)
      BY <1>1, <1>3, AtHand DEF Holding, PlaceOK, TypeInv
    <2>2. rows'[i].status = rows[i].status /\ rows'[i].key = rows[i].key
      BY <1>3, <2>1 DEF Steady, RowOK
    <2>3. \A k : Of(k)' = Of(k)
      BY <1>3 DEF Of, Steady
    <2>4. \A k : Exists(k)' = Exists(k) /\ AttemptsLeft(k)' = AttemptsLeft(k)
      BY <2>3 DEF Exists, AttemptsLeft
    <2>5. \A j \in DOMAIN rows' : j \in DOMAIN rows /\ rows'[j].key = rows[j].key
      BY <1>3 DEF Steady
    <2> QED
      BY <1>1, <2>2, <2>4, <2>5 DEF PlanOK, At
  <1> QED
    BY <1>2, <1>3

\* The steps that insert no step run.
SameKeys ==
    /\ DOMAIN rows' = DOMAIN rows
    /\ \A i \in DOMAIN rows : /\ rows'[i].key = rows[i].key
                              /\ rows[i].status = "failed" => rows'[i].status = "failed"

LEMMA SameKeysKeep ==
  ASSUME KeyInv, KeysBound, def' = def, SameKeys
  PROVE  KeyInv' /\ KeysBound'
  <1>1. Steps' = Steps /\ \A k : Of(k)' = Of(k)
    BY DEF Steps, Of, SameKeys
  <1>2. KeysBound'
    BY <1>1 DEF KeysBound
  <1>3. KeyInv'
    BY <1>1 DEF KeyInv, SameKeys
  <1> QED
    BY <1>2, <1>3

LEMMA FiniteOf ==
  ASSUME TypeInv \/ LooseInv, NEW k
  PROVE  Of(k) \subseteq 1..Len(rows) /\ IsFiniteSet(Of(k)) /\ Cardinality(Of(k)) \in Nat
  <1>1. Of(k) \subseteq 1..Len(rows) /\ Len(rows) \in Nat
    BY DEF Of, TypeInv, LooseInv, ShapeInv
  <1>2. IsFiniteSet(1..Len(rows))
    BY <1>1, FS_Interval
  <1> QED
    BY <1>1, <1>2, FS_Subset, FS_CardinalityType

LEMMA AttemptsType ==
  ASSUME TypeInv, NEW k \in Keys
  PROVE  def.attempts[k] \in Nat \ {0}
  <1>1. def \in DefinitionType
    BY GraphAssumption DEF TypeInv, ShapeInv
  <1> QED
    BY <1>1 DEF DefinitionType

\* A step run is inserted for a key with attempts left, after failures only.
LEMMA InsertKeeps ==
  ASSUME TypeInv, KeyInv, KeysBound, def' = def, NEW k \in Steps, NEW s,
         rows' = Append(rows, NewRow(k, s)),
         AttemptsLeft(k), \A i \in Of(k) : rows[i].status = "failed"
  PROVE  KeyInv' /\ KeysBound'
  <1> DEFINE n == Len(rows) + 1
  <1>1. /\ DOMAIN rows' = DOMAIN rows \cup {n} /\ n \notin DOMAIN rows
        /\ \A j \in DOMAIN rows : rows'[j] = rows[j] /\ j < n /\ ~(n < j)
        /\ rows'[n].key = k /\ ~(n < n)
    BY Grows
  <1> HIDE DEF n
  <1>2. Steps' = Steps
    BY DEF Steps
  <1>3. KeyInv'
    <2>1. \A i \in DOMAIN rows' : rows'[i].key \in Steps
      BY <1>1 DEF KeyInv
    <2>2. ASSUME NEW i \in DOMAIN rows', NEW j \in DOMAIN rows', i < j, rows'[i].key = rows'[j].key
          PROVE  rows'[i].status = "failed"
      <3>1. i \in DOMAIN rows
        BY <1>1, <2>2
      <3>2. CASE j = n
        BY <1>1, <2>2, <3>1, <3>2 DEF Of
      <3>3. CASE j \in DOMAIN rows
        BY <1>1, <2>2, <3>1, <3>3 DEF KeyInv
      <3> QED
        BY <1>1, <3>2, <3>3
    <2> QED
      BY <1>2, <2>1, <2>2 DEF KeyInv
  <1>4. ASSUME NEW x \in Keys PROVE Cardinality(Of(x)') <= def.attempts[x]
    <2>1. CASE x # k
      <3>1. Of(x)' = Of(x)
        BY <1>1, <2>1 DEF Of
      <3> QED
        BY <3>1 DEF KeysBound
    <2>2. CASE x = k
      <3>1. Of(x)' = Of(k) \cup {n} /\ n \notin Of(k)
        BY <1>1, <2>2 DEF Of
      <3>2. Cardinality(Of(x)') = Cardinality(Of(k)) + 1
        BY <3>1, FiniteOf, FS_AddElement
      <3>3. def.attempts[k] \in Nat
        BY <2>2, AttemptsType
      <3> QED
        BY <2>2, <3>2, <3>3, FiniteOf DEF AttemptsLeft
    <2> QED
      BY <2>1, <2>2
  <1> QED
    BY <1>3, <1>4 DEF KeysBound

\* A key without step runs has all its attempts left.
LEMMA NewKey ==
  ASSUME TypeInv, NEW k \in Keys, ~Exists(k)
  PROVE  AttemptsLeft(k) /\ \A i \in Of(k) : rows[i].status = "failed"
  <1>1. Of(k) = {} /\ Cardinality(Of(k)) = 0
    BY FS_EmptySet DEF Exists
  <1> QED
    BY <1>1, AttemptsType DEF AttemptsLeft

LEMMA ScanKeys ==
  ASSUME NEW off
  PROVE  /\ \A e \in ScanPlan(off) : /\ e.key \in workflow_graph_ready_steps
                                     /\ e.key \in Steps /\ ~Exists(e.key)
                                     /\ e.status # "blocked" /\ e = ScanItem(e.key, off)
         /\ \A e, f \in ScanPlan(off) : e.key = f.key => e = f
  <1>1. \A k : ScanItem(k, off).key = k /\ ScanItem(k, off).status # "blocked"
    BY DEF ScanItem
  <1>2. \A e \in ScanPlan(off) : \E k \in workflow_graph_ready_steps : e = ScanItem(k, off)
    BY DEF ScanPlan
  <1>3. \A k \in workflow_graph_ready_steps : k \in Steps /\ ~Exists(k)
    BY DEF workflow_graph_ready_steps
  <1> QED
    BY <1>1, <1>2, <1>3

LEMMA PolicyKeys ==
  ASSUME NEW failed
  PROVE  /\ \A e \in PolicyPlan(failed) : /\ e.key \in Steps /\ ~Exists(e.key)
                                          /\ e = PolicyItem(e.key, failed)
         /\ \A e, f \in PolicyPlan(failed) : e.key = f.key => e = f
  <1>1. \A k : PolicyItem(k, failed).key = k
    BY DEF PolicyItem
  <1>2. \A e \in PolicyPlan(failed) : \E k \in Steps : ~Exists(k) /\ e = PolicyItem(k, failed)
    BY DEF PolicyPlan, FailurePolicyApplies
  <1> QED
    BY <1>1, <1>2

LEMMA PlanFields ==
  ASSUME TypeInv \/ LooseInv, NEW w \in Workers, NEW todo, Plans(w, todo), def' = def
  PROVE  /\ Others(w) /\ worker'[w].todo = todo /\ worker'[w].row = worker[w].row
         /\ worker'[w].at = IF todo = {} THEN "look" ELSE "create"
  BY DEF Plans, Others, Doing, TypeInv, LooseInv, ShapeInv

LEMMA RecordsFields ==
  ASSUME TypeInv, NEW w \in Workers, NEW o \in RowStatus, Records(w, o)
  PROVE  /\ Others(w) /\ worker'[w].todo = worker[w].todo /\ worker'[w].row = worker[w].row
         /\ worker'[w].at = FirstAdvance(rows[worker[w].row].status, o)
         /\ worker'[w].target \in {"running", "requires_action"}
         /\ worker[w].row \in DOMAIN rows /\ rows[worker[w].row].status \in Active
         /\ Engaged(w) /\ o = worker[w].target /\ o \in Active \cup Ended
  <1>1. worker[w] \in Doing /\ PlaceOK(w) /\ At(w, "record") /\ o = worker[w].target
    BY AtHand DEF Records
  <1>2. worker[w].row # 0
    BY <1>1 DEF PlaceOK, At
  <1>3. worker[w].row \in DOMAIN rows /\ rows[worker[w].row].status \in Active /\ Engaged(w)
           /\ o \in Active \cup Ended
    BY <1>1, <1>2, AtHand DEF PlaceOK, Engaged, Holding, At
  <1>4. /\ Others(w) /\ worker'[w].todo = worker[w].todo /\ worker'[w].row = worker[w].row
        /\ worker'[w].at = FirstAdvance(rows[worker[w].row].status, o)
        /\ worker'[w].target = IF o \in Active THEN o ELSE "running"
    BY <1>1 DEF Records, Others, Doing, TypeInv, ShapeInv
  <1> QED
    BY <1>1, <1>3, <1>4 DEF Active

\* The parts of PlanInv that are about the step runs and the worker itself.
OwnPlan(w) == KeyInv' /\ KeysBound' /\ OpenInv' /\ PlanOK(w)'

LEMMA MovesPlan ==
  ASSUME PlanInv, NEW w \in Workers, Moves(w)
  PROVE  OwnPlan(w)
  <1>1. SameKeys /\ Steps' = Steps
    BY DEF Moves, Others, SameSteps, SameKeys, Steps
  <1>2. KeyInv' /\ KeysBound'
    BY <1>1, SameKeysKeep DEF PlanInv, Moves, Others
  <1>3. OpenInv'
    BY DEF PlanInv, OpenInv, Moves, SameSteps, Others, At
  <1>4. PlanOK(w)
    BY DEF PlanInv
  <1>5. PlanOK(w)'
    BY <1>1, <1>4 DEF PlanOK, Moves, SameSteps, At
  <1> QED
    BY <1>2, <1>3, <1>5 DEF OwnPlan

LEMMA ClaimsPlan ==
  ASSUME PlanInv, NEW w \in Workers, Claims(w)
  PROVE  OwnPlan(w)
  <1>1. TypeInv /\ PlanOK(w) /\ Steps' = Steps
    BY DEF PlanInv, Claims, Others, Steps
  <1>2. SameKeys
    BY <1>1, ClaimsChange DEF Claims, SameKeys
  <1>3. KeyInv' /\ KeysBound'
    BY <1>2, SameKeysKeep DEF PlanInv, Claims, Others
  <1>4. OpenInv'
    <2>1. \A j \in DOMAIN rows' : j \in DOMAIN rows /\ rows'[j].status \in {rows[j].status, "running"}
      BY <1>1, ClaimsChange DEF Claims
    <2>2. /\ Others(w) /\ session' = session
          /\ worker'[w].at = "claimed" /\ worker'[w].todo = worker[w].todo
      BY DEF Claims
    <2> QED
      BY <2>1, <2>2 DEF PlanInv, OpenInv, Others, Active, At
  <1>5. PlanOK(w)'
    BY <1>1 DEF PlanOK, Claims, At
  <1> QED
    BY <1>3, <1>4, <1>5 DEF OwnPlan

LEMMA PlansPlan ==
  ASSUME PlanInv, NEW w \in Workers, NEW todo, Plans(w, todo),
         UNCHANGED <<def, run, rows, session>>,
         At(w, "scan") \/ At(w, "policy"),
         \A e \in todo : e.key \in Steps /\ ~Exists(e.key),
         \A e, f \in todo : e.key = f.key => e = f,
         session = "open" => \A e \in todo : e.status # "blocked"
  PROVE  OwnPlan(w)
  <1>1. TypeInv /\ PlanOK(w) /\ Steps' = Steps /\ \A k : Exists(k)' = Exists(k)
    BY DEF PlanInv, Steps, Exists, Of
  <1>2. /\ Others(w) /\ worker'[w].todo = todo /\ worker'[w].row = worker[w].row
        /\ worker'[w].at \in {"look", "create"}
    BY <1>1, PlanFields
  <1>3. SameKeys
    BY DEF SameKeys
  <1>4. KeyInv' /\ KeysBound'
    BY <1>3, SameKeysKeep DEF PlanInv
  <1>5. OpenInv'
    BY <1>2 DEF PlanInv, OpenInv, Others, At
  <1>6. PlanOK(w)'
    BY <1>1, <1>2 DEF PlanOK, At
  <1> QED
    BY <1>4, <1>5, <1>6 DEF OwnPlan

LEMMA ScanPlanOK ==
  ASSUME PlanInv, NEW w \in Workers, Scan(w)
  PROVE  OwnPlan(w)
  <1>1. PICK off : Plans(w, ScanPlan(off))
    BY ScanPlans
  <1> QED
    BY <1>1, ScanKeys, PlansPlan DEF Scan

LEMMA PolicyPlanOK ==
  ASSUME PlanInv, NEW w \in Workers, FailurePolicy(w)
  PROVE  OwnPlan(w)
  <1>1. session # "open"
    BY DEF PlanInv, OpenInv, FailurePolicy, At
  <1> QED
    BY <1>1, PolicyPlans, PolicyKeys, PlansPlan DEF FailurePolicy

LEMMA StepFailedPlan ==
  ASSUME PlanInv, NEW w \in Workers, StepFailed(w)
  PROVE  OwnPlan(w)
  <1>1. TypeInv /\ PlanOK(w) /\ session # "open"
           /\ UNCHANGED <<def, run, rows, session>> /\ At(w, "failed")
    BY DEF PlanInv, OpenInv, StepFailed, At
  <1>2. /\ Others(w) /\ worker'[w].todo = worker[w].todo /\ worker'[w].row = worker[w].row
        /\ worker'[w].at \in {"retry", "policy"}
        /\ worker'[w].at = "retry" => /\ rows[worker[w].row].status = "failed"
                                      /\ AttemptsLeft(rows[worker[w].row].key)
    BY <1>1, GoFields DEF StepFailed
  <1>3. SameKeys /\ Steps' = Steps /\ \A k : AttemptsLeft(k)' = AttemptsLeft(k)
    BY <1>1 DEF SameKeys, Steps, AttemptsLeft, Of
  <1>4. KeyInv' /\ KeysBound'
    BY <1>1, <1>3, SameKeysKeep DEF PlanInv
  <1>5. OpenInv'
    BY <1>1 DEF OpenInv
  <1>6. PlanOK(w)'
    BY <1>1, <1>2, <1>3 DEF PlanOK, At
  <1> QED
    BY <1>4, <1>5, <1>6 DEF OwnPlan

\* The step runs stay and the worker goes on to write or acknowledge.
LEMMA WritesPlan ==
  ASSUME PlanInv, NEW w \in Workers, Others(w), UNCHANGED <<rows, session>>,
         worker'[w].todo = worker[w].todo, worker'[w].at \in {"write", "finish", "ack"}
  PROVE  OwnPlan(w)
  <1>1. PlanOK(w) /\ SameKeys /\ Steps' = Steps
    BY DEF PlanInv, SameKeys, Steps, Others
  <1>2. KeyInv' /\ KeysBound'
    BY <1>1, SameKeysKeep DEF PlanInv, Others
  <1>3. OpenInv'
    BY DEF PlanInv, OpenInv, Others, At
  <1>4. PlanOK(w)'
    BY <1>1 DEF PlanOK, At
  <1> QED
    BY <1>2, <1>3, <1>4 DEF OwnPlan

LEMMA RetriesPlan ==
  ASSUME PlanInv, NEW w \in Workers, Retries(w)
  PROVE  OwnPlan(w)
  <1> DEFINE i == worker[w].row
             k == rows[i].key
  <1>1. TypeInv /\ KeyInv /\ KeysBound /\ PlanOK(w) /\ Steps' = Steps
           /\ Others(w) /\ session' = session /\ At(w, "retry") /\ session # "open"
    BY DEF PlanInv, OpenInv, Retries, Others, Steps, At
  <1>2. i \in DOMAIN rows /\ rows \in Seq(Row) /\ i \in Nat
    BY <1>1, AtHand DEF Retries, Holding, TypeInv, ShapeInv
  <1>3. k \in Steps
    BY <1>1, <1>2 DEF KeyInv
  <1>4. AttemptsLeft(k) /\ rows[i].status = "failed"
           /\ \A j \in DOMAIN rows : rows[j].key = k => j <= i
    BY <1>1 DEF PlanOK, At
  <1>5. ASSUME NEW j \in Of(k) PROVE rows[j].status = "failed"
    <2>1. j \in DOMAIN rows /\ rows[j].key = k /\ j <= i /\ j \in Nat
      BY <1>2, <1>4 DEF Of
    <2>2. j = i \/ j < i
      BY <1>2, <2>1
    <2> QED
      BY <1>1, <1>2, <1>4, <2>1, <2>2 DEF KeyInv
  <1>6. PICK s \in {"queued", "scheduled"} : rows' = Append(rows, NewRow(k, s))
    BY DEF Retries
  <1>7. KeyInv' /\ KeysBound'
    <2> HIDE DEF k
    <2> QED
      BY <1>1, <1>3, <1>4, <1>5, <1>6, InsertKeeps DEF Others
  <1>8. OpenInv'
    BY <1>1 DEF OpenInv
  <1>9. PlanOK(w)'
    BY <1>1 DEF PlanOK, Retries, At
  <1> QED
    BY <1>7, <1>8, <1>9 DEF OwnPlan

LEMMA CreatesPlan ==
  ASSUME PlanInv, NEW w \in Workers, NEW next \in worker[w].todo, Creates(w, next)
  PROVE  OwnPlan(w)
  <1> DEFINE i == worker[w].row
  <1>1. TypeInv /\ KeyInv /\ KeysBound /\ PlanOK(w) /\ Steps' = Steps
           /\ Others(w) /\ session' = session /\ At(w, "create")
    BY DEF PlanInv, Creates, Others, Steps
  <1>2. i \in DOMAIN rows /\ worker[w] \in Doing
    BY <1>1, AtHand DEF Creates, Holding
  <1>3. next.key \in Steps /\ ~Exists(next.key) /\ next.key \in Keys
           /\ next.status \in {"queued", "skipped", "blocked"}
    BY <1>1, <1>2 DEF PlanOK, Doing, Item
  <1>4. rows' = Append(rows, NewRow(next.key, next.status))
    BY DEF Creates
  <1>5. KeyInv' /\ KeysBound'
    BY <1>1, <1>3, <1>4, NewKey, InsertKeeps DEF Others
  <1>6. /\ rows'[i] = rows[i]
        /\ \A j \in DOMAIN rows' : \/ rows'[j].status = next.status
                                   \/ j \in DOMAIN rows /\ rows'[j] = rows[j]
        /\ \A k : k # next.key => Of(k)' = Of(k)
    <2>1. /\ DOMAIN rows' = DOMAIN rows \cup {Len(rows) + 1}
          /\ \A j \in DOMAIN rows : rows'[j] = rows[j]
          /\ rows'[Len(rows) + 1].key = next.key /\ rows'[Len(rows) + 1].status = next.status
      BY <1>1, <1>4, Grows
    <2> QED
      BY <1>2, <2>1 DEF Of
  <1>7. OpenInv'
    <2> SUFFICES ASSUME session = "open"
                 PROVE  /\ \A j \in DOMAIN rows' : rows'[j].status \in Active \cup {"queued", "completed", "skipped"}
                        /\ worker'[w].at \notin {"failed", "retry", "policy"}
                        /\ \A e \in worker'[w].todo : e.status # "blocked"
      BY <1>1 DEF OpenInv, PlanInv, Others, Creates, At
    <2>1. /\ \A j \in DOMAIN rows : rows[j].status \in Active \cup {"queued", "completed", "skipped"}
          /\ \A e \in worker[w].todo : e.status # "blocked"
      BY DEF PlanInv, OpenInv
    <2>2. rows[i].status = "completed"
      BY <1>1, <1>2, <2>1 DEF PlanOK, At, Active
    <2> QED
      BY <1>3, <1>6, <2>1, <2>2 DEF Creates
  <1>8. PlanOK(w)'
    <2>1. \A e \in worker'[w].todo : e \in worker[w].todo /\ e.key # next.key
      BY <1>1 DEF PlanOK, Creates
    <2>2. \A e \in worker'[w].todo : e.key \in Steps /\ ~Exists(e.key)'
      BY <1>1, <1>6, <2>1 DEF PlanOK, At, Exists
    <2>3. worker'[w].row = i /\ worker'[w].at \in {"create", "scan", "policy"}
      BY DEF Creates
    <2>4. rows[i].status \in {"completed", "failed", "canceled"}
      BY <1>1 DEF PlanOK
    <2>5. worker'[w].at = "policy" => rows[i].status \in {"failed", "canceled"}
      BY <2>4 DEF Creates
    <2> QED
      BY <1>1, <1>6, <2>1, <2>2, <2>3, <2>4, <2>5 DEF PlanOK, At
  <1> QED
    BY <1>5, <1>7, <1>8 DEF OwnPlan

LEMMA RecordsPlan ==
  ASSUME PlanInv, NEW w \in Workers, NEW o \in RowStatus, Records(w, o)
  PROVE  OwnPlan(w)
  <1> DEFINE i == worker[w].row
  <1>1. TypeInv /\ KeyInv /\ KeysBound /\ PlanOK(w)
    BY DEF PlanInv
  <1>2. /\ Others(w) /\ worker'[w].todo = worker[w].todo /\ worker'[w].row = i
        /\ worker'[w].at = FirstAdvance(rows[i].status, o)
        /\ i \in DOMAIN rows /\ rows[i].status \in Active /\ session' = session
    BY <1>1, RecordsFields DEF Records
  <1>3. /\ DOMAIN rows' = DOMAIN rows /\ \A j \in DOMAIN rows : rows'[j].key = rows[j].key
        /\ \A j \in DOMAIN rows : j # i => rows'[j] = rows[j]
        /\ rows'[i].status = o
    <2>1. \E v : rows' = [rows EXCEPT ![i] = [@ EXCEPT !.status = o, !.by = v]]
      BY DEF Records
    <2> QED
      BY <1>1, <1>2, <2>1, StatusChange
  <1>4. SameKeys /\ Steps' = Steps
    BY <1>2, <1>3 DEF SameKeys, Steps, Others, Active
  <1>5. KeyInv' /\ KeysBound'
    BY <1>1, <1>2, <1>4, SameKeysKeep DEF Others
  <1>6. /\ o \in Active \cup {"completed", "failed", "canceled"}
        /\ session = "open" => o \in Active \cup {"completed"}
    <2>1. At(w, "record") /\ o = worker[w].target /\ o \in Active \cup Ended
      BY <1>1, RecordsFields DEF Records
    <2> QED
      BY <2>1 DEF PlanInv, OpenInv, Ended
  <1>7. /\ worker'[w].at \in {"ack", "write", "scan", "failed"}
        /\ worker'[w].at = "scan" => o = "completed"
        /\ worker'[w].at = "failed" => o \in {"failed", "canceled"}
    BY <1>2, <1>6 DEF FirstAdvance
  <1>8. OpenInv'
    BY <1>2, <1>3, <1>6, <1>7 DEF OpenInv, PlanInv, Others, Active, At
  <1>9. \A j \in DOMAIN rows : rows[j].key = rows[i].key => j <= i
    <2> SUFFICES ASSUME NEW j \in DOMAIN rows, rows[j].key = rows[i].key, ~(j <= i) PROVE FALSE
      OBVIOUS
    <2>1. i \in Nat /\ j \in Nat
      BY <1>1, <1>2 DEF TypeInv, ShapeInv
    <2>2. i < j
      BY <2>1
    <2>3. rows[i].status = "failed"
      BY <1>1, <1>2, <2>2 DEF KeyInv
    <2> QED
      BY <1>2, <2>3 DEF Active
  <1>10. PlanOK(w)'
    BY <1>1, <1>2, <1>3, <1>4, <1>7, <1>9 DEF PlanOK, At
  <1> QED
    BY <1>5, <1>8, <1>10 DEF OwnPlan

LEMMA ActivatePlan ==
  ASSUME PlanInv, NEW w \in Workers, NEW i \in DOMAIN rows, ActivateDue(w, i)
  PROVE  OwnPlan(w)
  <1>1. TypeInv /\ rows[i].status = "scheduled" /\ session' = session /\ def' = def
    BY DEF PlanInv, ActivateDue
  <1>2. session # "open"
    BY <1>1 DEF PlanInv, OpenInv, Active
  <1>3. SameKeys /\ Steps' = Steps
    BY <1>1, DueChange DEF SameKeys, Steps
  <1>4. KeyInv' /\ KeysBound'
    BY <1>1, <1>3, SameKeysKeep DEF PlanInv
  <1>5. worker'[w].at = "write" /\ worker'[w].todo = {}
    BY <1>1 DEF ActivateDue, TypeInv, ShapeInv, Idle
  <1>6. PlanOK(w)'
    BY <1>5 DEF PlanOK, At
  <1> QED
    BY <1>1, <1>2, <1>4, <1>6 DEF OwnPlan, OpenInv

LEMMA PlanNext ==
  ASSUME SharedSession, PlanInv, PunctualNext
  PROVE  PlanInv'
  <1>1. TypeInv /\ SoleInv /\ TypeInv' /\ SoleInv'
    BY TypeNext, SoleNext DEF PlanInv
  <1>2. CASE Pauses
    <2>1. SameKeys /\ Steps' = Steps /\ \A k : Of(k)' = Of(k)
      BY <1>2 DEF Pauses, SameKeys, Steps, Of
    <2>2. KeyInv' /\ KeysBound'
      BY <1>2, <2>1, SameKeysKeep DEF PlanInv, Pauses
    <2>3. \A w \in Workers : PlanOK(w)'
      BY <1>2, <2>1 DEF PlanInv, PlanOK, At, Pauses, Exists, AttemptsLeft
    <2>4. OpenInv'
      BY <1>2 DEF PlanInv, OpenInv, Pauses, At
    <2> QED
      BY <1>1, <2>2, <2>3, <2>4 DEF PlanInv
  <1>3. ASSUME NEW w \in Workers, Kind(w) PROVE PlanInv'
    <2>1. OwnPlan(w)
      <3>1. CASE Decides(w)
        BY <3>1, WritesPlan DEF Decides
      <3>2. CASE update_workflow_run_status_and_record(w)
        <4>1. PICK at \in {"finish", "ack"} : Go(w, at)
          BY <3>2 DEF update_workflow_run_status_and_record
        <4> QED
          BY <1>1, <3>2, <4>1, GoFields, WritesPlan DEF update_workflow_run_status_and_record
      <3> QED
        BY <1>3, <3>1, <3>2, MovesPlan, ClaimsPlan, ScanPlanOK, PolicyPlanOK, StepFailedPlan,
           RetriesPlan, CreatesPlan, RecordsPlan, ActivatePlan DEF Kind
    <2>2. \A v \in Workers \ {w} : PlanOK(v)'
      BY <1>1, <1>3, Bystanders, PlanKept DEF PlanInv
    <2> QED
      BY <1>1, <2>1, <2>2 DEF PlanInv, OwnPlan
  <1> QED
    BY <1>1, <1>2, <1>3, StepKinds

LEMMA PlanInit == GraphInit => PlanInv
  <1> SUFFICES ASSUME GraphInit PROVE PlanInv
    OBVIOUS
  <1>1. PICK start \in [1..Cardinality(def.starts) -> def.starts] :
           /\ \A i, j \in DOMAIN start : i < j => Position(start[i]) < Position(start[j])
           /\ rows = [i \in DOMAIN start |-> NewRow(start[i], "queued")]
    BY DEF GraphInit
  <1>2. TypeInv /\ SoleInv
    BY InitTyped, SoleInit
  <1>3. def \in DefinitionType /\ \A k \in def.starts : k \in Steps
    BY GraphAssumption DEF GraphInit, Steps
  <1>4. \A k \in def.starts : Position(k) \in Nat
    <2>1. \A k \in Steps : Position(k) \in DOMAIN def.graph
      BY DEF Steps, Position
    <2> QED
      BY <1>3, <2>1 DEF DefinitionType
  <1>5. \A i \in DOMAIN rows : /\ i \in DOMAIN start /\ rows[i].key = start[i]
                               /\ rows[i].key \in def.starts /\ rows[i].status = "queued"
    BY <1>1 DEF NewRow
  <1>6. \A i, j \in DOMAIN rows : i < j => rows[i].key # rows[j].key
    BY <1>1, <1>4, <1>5
  <1>7. KeyInv
    BY <1>3, <1>5, <1>6 DEF KeyInv
  <1>8. ASSUME NEW k \in Keys PROVE Cardinality(Of(k)) <= def.attempts[k]
    <2>1. def.attempts[k] \in Nat \ {0}
      BY <1>2, AttemptsType
    <2>2. CASE Of(k) = {}
      BY <2>1, <2>2, FS_EmptySet
    <2>3. CASE Of(k) # {}
      <3>1. PICK i : i \in Of(k)
        BY <2>3
      <3>2. ASSUME NEW j \in Of(k) PROVE j = i
        <4>1. i \in DOMAIN rows /\ j \in DOMAIN rows /\ rows[i].key = rows[j].key
          BY <3>1 DEF Of
        <4>2. i \in Nat /\ j \in Nat
          BY <1>2, <4>1 DEF TypeInv, ShapeInv
        <4>3. ~(i < j) /\ ~(j < i)
          BY <1>6, <4>1
        <4> QED
          BY <4>2, <4>3
      <3>3. Of(k) = {i}
        BY <3>1, <3>2
      <3>4. Cardinality({i}) = 1
        BY FS_Singleton
      <3> QED
        BY <2>1, <3>3, <3>4
    <2> QED
      BY <2>2, <2>3
  <1>9. \A w \in Workers : worker[w] = Idle
    BY DEF GraphInit
  <1>10. \A w \in Workers : PlanOK(w)
    BY <1>9 DEF PlanOK, At, Idle
  <1>11. OpenInv
    BY <1>5, <1>9 DEF OpenInv, Idle
  <1> QED
    BY <1>2, <1>7, <1>8, <1>10, <1>11 DEF PlanInv, KeysBound

\* Step keys are reserved in every graph of a shared session, as long as no
\* living worker outlasts a lease: however often workers die between listing the
\* step runs and inserting new ones, and others take their jobs over, no key gets
\* more step runs than its retry policy allows.
THEOREM KeysAreReservedHolds ==
  ASSUME SharedSession
  PROVE  GraphSpec => [](Punctual => KeysAreReserved)
  <1> DEFINE Inv == LooseInv /\ (Punctual => PlanInv)
  <1>1. GraphInit => Inv
    BY LooseInit, PlanInit
  <1>2. Inv /\ [GraphNext]_vars => Inv'
    BY LooseNext, PunctualStep, PlanNext DEF Punctual
  <1>3. Inv => (Punctual => KeysAreReserved)
    <2> SUFFICES ASSUME Inv, Punctual, NEW k \in Keys
                 PROVE  Cardinality(Of(k)) <= def.attempts[k] + stalls
      BY DEF KeysAreReserved
    <2>1. Cardinality(Of(k)) <= def.attempts[k] /\ TypeInv
      BY DEF PlanInv, KeysBound
    <2>2. def.attempts[k] \in Nat /\ stalls = 0
      BY <2>1, AttemptsType DEF Punctual
    <2> QED
      BY <2>1, <2>2
  <1> QED
    BY <1>1, <1>2, <1>3, PTL DEF GraphSpec
-----------------------------------------------------------------------------
(* The end of the run *)

\* A step that waits in a closed session waits forever.
Stuck(i) ==
    /\ session # "open" /\ rows[i].status \in {"queued", "scheduled"}
    /\ \A w \in Workers : At(w, "claim") => worker[w].row # i

Settled(status) ==
    /\ \A i \in DOMAIN rows : rows[i].status \in Terminal
    /\ status = "completed" => \A i \in DOMAIN def.graph : Succeeded(def.graph[i])
    /\ status # "completed" => Some(status)

\* A worker that activated a due step leaves a step that waits, and one that
\* is going to end the run has seen that it is settled.
WriteOK(w) ==
    /\ At(w, "write") /\ worker[w].row = 0 => \E i \in DOMAIN rows : Stuck(i)
    /\ At(w, "write") /\ worker[w].target \in Ended => Settled(worker[w].target)

EndInv ==
    run \in Ended => /\ Settled(run)
                     /\ \A w \in Workers : worker[w].at \in {"idle", "claim", "finish", "ack"}

RunInv == PlanInv /\ EndInv /\ \A w \in Workers : WriteOK(w)

\* The last of a set of numbers.
LEMMA LastOf ==
  ASSUME NEW S \in SUBSET Nat, S # {}, NEW N \in Nat, \A x \in S : x <= N
  PROVE  \E m \in S : \A x \in S : x <= m
  <1> DEFINE T == {N - x : x \in S}
  <1>1. T \in SUBSET Nat /\ T # {}
    <2>1. \A x \in S : N - x \in Nat
      OBVIOUS
    <2> QED
      BY <2>1
  <1>2. PICK m \in T : \A y \in T : ~(<<y, m>> \in OpToRel(<, Nat))
    BY <1>1, NatLessThanWellFounded, WFMin
  <1>3. PICK x \in S : m = N - x
    BY <1>2
  <1>4. ASSUME NEW y \in S, x < y PROVE FALSE
    <2>3. x \in Nat /\ y \in Nat /\ x <= N /\ y <= N
      OBVIOUS
    <2>4. N - y \in T
      OBVIOUS
    <2> HIDE DEF T
    <2>1. N - y \in T /\ N - y < m /\ N - y \in Nat /\ m \in Nat
      BY <1>3, <1>4, <2>3, <2>4
    <2>2. <<N - y, m>> \in Nat \X Nat /\ <<N - y, m>>[1] < <<N - y, m>>[2]
      BY <2>1
    <2> QED
      BY <1>2, <2>1, <2>2 DEF OpToRel
  <1> QED
    BY <1>3, <1>4

LastRun(k) == CHOOSE i \in Of(k) : \A j \in Of(k) : j <= i

LEMMA LatestRun ==
  ASSUME TypeInv \/ LooseInv, NEW k, Exists(k)
  PROVE  /\ LastRun(k) \in Of(k) /\ \A j \in Of(k) : j <= LastRun(k)
         /\ Latest(k) = rows[LastRun(k)]
  <1>1. Of(k) \in SUBSET Nat /\ Len(rows) \in Nat /\ \A j \in Of(k) : j <= Len(rows)
    BY FiniteOf DEF TypeInv, LooseInv, ShapeInv
  <1>2. \E i \in Of(k) : \A j \in Of(k) : j <= i
    BY <1>1, LastOf DEF Exists
  <1> QED
    BY <1>2 DEF LastRun, Latest

LEMMA SameSuccess ==
  ASSUME TypeInv, SameSteps, NEW k
  PROVE  Succeeded(k)' = Succeeded(k)
  <1>1. Of(k)' = Of(k)
    BY DEF Of, SameSteps
  <1>2. Exists(k)' = Exists(k) /\ LastRun(k)' = LastRun(k)
    BY <1>1 DEF Exists, LastRun
  <1>3. ASSUME Exists(k) PROVE Latest(k)'.status = Latest(k).status
    <2>1. LastRun(k) \in DOMAIN rows
      BY <1>3, LatestRun DEF Of
    <2>2. Latest(k) = rows[LastRun(k)] /\ Latest(k)' = rows'[LastRun(k)]
      BY <1>2 DEF Latest, LastRun
    <2> QED
      BY <2>1, <2>2 DEF SameSteps
  <1> QED
    BY <1>2, <1>3 DEF Succeeded

LEMMA SettledStays ==
  ASSUME TypeInv, NEW status, Settled(status), def' = def, SameSteps
  PROVE  Settled(status)'
  <1>1. \A i \in DOMAIN rows' : rows'[i].status \in Terminal
    BY DEF Settled, SameSteps
  <1>2. Some(status) => Some(status)'
    BY DEF Some, SameSteps
  <1>3. \A i \in DOMAIN def.graph : Succeeded(def.graph[i]) => Succeeded(def.graph[i])'
    BY SameSuccess
  <1> QED
    BY <1>1, <1>2, <1>3 DEF Settled

LEMMA SettledIsSteady ==
  ASSUME NEW status, Settled(status), Steady
  PROVE  SameSteps
  BY DEF Settled, Steady, SameSteps, Terminal, Successful

\* A completed graph has no open step: the earlier runs of a key have failed.
LEMMA CompletedIsSettled ==
  ASSUME TypeInv, KeyInv, workflow_graph_run_completed
  PROVE  Settled("completed")
  <1> SUFFICES ASSUME NEW i \in DOMAIN rows PROVE rows[i].status \in Terminal
    BY DEF Settled, workflow_graph_run_completed
  <1> DEFINE k == rows[i].key
             m == LastRun(k)
  <1>1. Succeeded(k)
    BY DEF KeyInv, Steps, workflow_graph_run_completed
  <1>2. /\ i \in Of(k) /\ m \in Of(k) /\ i <= m /\ Latest(k) = rows[m]
    BY <1>1, LatestRun DEF Succeeded, Of
  <1>3. m \in DOMAIN rows /\ rows[m].key = k /\ i \in Nat /\ m \in Nat
    BY <1>2 DEF Of, TypeInv, ShapeInv
  <1>4. CASE i = m
    BY <1>1, <1>2, <1>4 DEF Succeeded, Terminal
  <1>5. CASE i < m
    BY <1>3, <1>5 DEF KeyInv, Terminal
  <1> QED
    BY <1>2, <1>3, <1>4, <1>5

\* The ways in which a step run that exists may change.
RowMoves(w, i) ==
    /\ i \in DOMAIN rows' /\ rows'[i].key = rows[i].key
    /\ \/ rows'[i].status = rows[i].status
       \/ rows[i].status = "scheduled" /\ rows'[i].status = "queued"
       \/ rows[i].status = "queued" /\ At(w, "claim") /\ worker[w].row = i
       \/ rows[i].status \in Active

\* The steps a worker may be about to insert.
PlanMoves(w) == worker'[w].todo \subseteq worker[w].todo \/ Scan(w) \/ FailurePolicy(w)

Effects(w) ==
    /\ Others(w) /\ (session' = session \/ session' # "open")
    /\ worker'[w].at = "claim" => session = "open" /\ worker'[w].row \in DOMAIN rows
    /\ \A i \in DOMAIN rows : RowMoves(w, i)
    /\ PlanMoves(w)

LEMMA KindEffects ==
  ASSUME TypeInv, NEW w \in Workers, Kind(w)
  PROVE  Effects(w)
  <1>1. CASE Moves(w)
    BY <1>1 DEF Moves, SameSteps, RowMoves, PlanMoves, Effects
  <1>2. CASE Claims(w)
    <2>1. \A i \in DOMAIN rows : RowMoves(w, i)
      BY <1>2, ClaimsChange DEF Claims, RowMoves, Active
    <2> QED
      BY <1>2, <2>1 DEF Claims, PlanMoves, Effects
  <1>3. ASSUME rows' = rows, session' = session, Others(w), worker'[w].at # "claim",
               PlanMoves(w)
        PROVE  Effects(w)
    BY <1>3 DEF RowMoves, Effects
  <1>4. CASE Scan(w)
    <2>1. PICK off : Plans(w, ScanPlan(off))
      BY <1>4, ScanPlans
    <2>2. UNCHANGED <<def, rows, session>> /\ PlanMoves(w)
      BY <1>4 DEF Scan, PlanMoves
    <2>3. Others(w) /\ worker'[w].at # "claim"
      BY <2>1, <2>2, PlanFields
    <2> QED
      BY <1>3, <2>2, <2>3
  <1>5. CASE FailurePolicy(w)
    <2>1. Plans(w, PolicyPlan(rows[worker[w].row].key))
      BY <1>5, PolicyPlans
    <2>2. UNCHANGED <<def, rows, session>> /\ PlanMoves(w)
      BY <1>5 DEF FailurePolicy, PlanMoves
    <2>3. Others(w) /\ worker'[w].at # "claim"
      BY <2>1, <2>2, PlanFields
    <2> QED
      BY <1>3, <2>2, <2>3
  <1>6. CASE StepFailed(w)
    <2>1. PICK at \in {"retry", "policy"} : Go(w, at)
      BY <1>6 DEF StepFailed
    <2> QED
      BY <1>3, <1>6, <2>1, GoFields DEF StepFailed, PlanMoves
  <1>7. CASE Decides(w)
    BY <1>3, <1>7 DEF Decides, PlanMoves
  <1>8. ASSUME NEW k, NEW s, rows' = Append(rows, NewRow(k, s))
        PROVE  \A i \in DOMAIN rows : RowMoves(w, i)
    BY <1>8, Grows DEF RowMoves
  <1>9. CASE Retries(w)
    BY <1>8, <1>9 DEF Retries, PlanMoves, Effects
  <1>10. ASSUME NEW next \in worker[w].todo, Creates(w, next)
         PROVE  Effects(w)
    BY <1>8, <1>10 DEF Creates, PlanMoves, Effects
  <1>11. CASE update_workflow_run_status_and_record(w)
    <2>1. PICK at \in {"finish", "ack"} : Go(w, at)
      BY <1>11 DEF update_workflow_run_status_and_record
    <2> QED
      BY <1>3, <1>11, <2>1, GoFields DEF update_workflow_run_status_and_record, PlanMoves
  <1>12. ASSUME NEW o \in RowStatus, Records(w, o)
         PROVE  Effects(w)
    <2>1. /\ Others(w) /\ worker'[w].at = FirstAdvance(rows[worker[w].row].status, o)
          /\ worker[w].row \in DOMAIN rows /\ rows[worker[w].row].status \in Active
          /\ worker'[w].todo = worker[w].todo
      BY <1>12, RecordsFields
    <2>2. worker'[w].at # "claim"
      BY <2>1 DEF FirstAdvance
    <2>3. /\ \E v : rows' = [rows EXCEPT ![worker[w].row] = [@ EXCEPT !.status = o, !.by = v]]
          /\ session' = session
      BY <1>12 DEF Records
    <2>4. \A i \in DOMAIN rows : RowMoves(w, i)
      <3>1. /\ DOMAIN rows' = DOMAIN rows
            /\ \A i \in DOMAIN rows : i # worker[w].row => rows'[i] = rows[i]
            /\ rows'[worker[w].row].key = rows[worker[w].row].key
        BY <2>1, <2>3, StatusChange
      <3> QED
        BY <2>1, <3>1 DEF RowMoves
    <2> QED
      BY <2>1, <2>2, <2>3, <2>4 DEF PlanMoves, Effects
  <1>13. ASSUME NEW i \in DOMAIN rows, ActivateDue(w, i)
         PROVE  Effects(w)
    <2>1. Others(w) /\ worker'[w].at # "claim" /\ worker'[w].todo = {}
      BY <1>13 DEF ActivateDue, Others, Idle, TypeInv, ShapeInv
    <2>2. \A j \in DOMAIN rows : RowMoves(w, j)
      BY <1>13, DueChange DEF ActivateDue, RowMoves
    <2> QED
      BY <1>13, <2>1, <2>2 DEF ActivateDue, PlanMoves, Effects
  <1> QED
    BY <1>1, <1>2, <1>4, <1>5, <1>6, <1>7, <1>9, <1>10, <1>11, <1>12, <1>13 DEF Kind

LEMMA StuckStays ==
  ASSUME SharedSession, TypeInv, NEW w \in Workers, Kind(w), NEW i \in DOMAIN rows, Stuck(i)
  PROVE  i \in DOMAIN rows' /\ Stuck(i)'
  <1>1. Effects(w)
    BY KindEffects
  <1>2. i \in DOMAIN rows' /\ rows'[i].status \in {"queued", "scheduled"}
    BY <1>1 DEF Effects, RowMoves, Stuck, Active
  <1>3. session' # "open" /\ worker'[w].at # "claim"
    BY <1>1 DEF Effects, Stuck
  <1>4. \A v \in Workers : worker'[v].at = "claim" => worker'[v].row # i
    BY <1>1, <1>3 DEF Effects, Others, Stuck, At
  <1> QED
    BY <1>2, <1>3, <1>4 DEF Stuck, At

\* Nothing happens to an ended run but that jobs are taken and acknowledged.
LEMMA EndedMoves ==
  ASSUME SharedSession, PlanInv, EndInv, run \in Ended, NEW w \in Workers, Kind(w)
  PROVE  Moves(w) /\ worker'[w].at \in {"idle", "finish", "ack"}
  <1>1. /\ Settled(run) /\ worker[w].at \in {"idle", "claim", "finish", "ack"}
        /\ run \notin Executable
    BY DEF EndInv, Ended, Executable
  <1>2. \A i \in DOMAIN rows : rows[i].status \notin Active \cup {"queued", "scheduled", "running"}
    BY <1>1 DEF Settled, Terminal, Successful, Active
  <1>3. ~Claims(w) /\ ~Scan(w) /\ ~FailurePolicy(w) /\ ~StepFailed(w) /\ ~Decides(w)
           /\ ~update_workflow_run_status_and_record(w)
    BY <1>1, <1>2 DEF Claims, Scan, FailurePolicy, StepFailed, Decides, At,
                      update_workflow_run_status_and_record
  <1>4. ~Retries(w) /\ \A next \in worker[w].todo : ~Creates(w, next)
    BY <1>1 DEF Retries, Creates
  <1>5. \A o \in RowStatus : ~Records(w, o)
    BY <1>1 DEF Records, At
  <1>6. \A i \in DOMAIN rows : ~ActivateDue(w, i)
    BY DEF ActivateDue
  <1>7. Moves(w)
    BY <1>3, <1>4, <1>5, <1>6 DEF Kind
  <1> QED
    BY <1>1, <1>2, <1>7 DEF Moves

\* A worker that has decided to end the run holds a job.
LEMMA EnderHolds ==
  ASSUME TypeInv, NEW w \in Workers, At(w, "write"), worker[w].target \in Ended
  PROVE  Holding(w)
  <1>1. PlaceOK(w)
    BY DEF TypeInv
  <1> QED
    BY <1>1 DEF PlaceOK, Holding, At, Ended

LEMMA OthersWrite ==
  ASSUME SharedSession, RunInv, NEW w \in Workers, Kind(w), NEW v \in Workers \ {w}
  PROVE  WriteOK(v)'
  <1>1. TypeInv /\ SoleInv /\ WriteOK(v)
    BY DEF RunInv, PlanInv
  <1>2. worker'[v] = worker[v] /\ def' = def /\ (Steady \/ ~Holding(v))
    BY <1>1, Bystanders
  <1>3. ASSUME At(v, "write"), worker[v].row = 0 PROVE \E i \in DOMAIN rows' : Stuck(i)'
    <2>1. PICK i \in DOMAIN rows : Stuck(i)
      BY <1>1, <1>3 DEF WriteOK
    <2> QED
      BY <1>1, <2>1, StuckStays
  <1>4. ASSUME At(v, "write"), worker[v].target \in Ended PROVE Settled(worker[v].target)'
    <2>1. Settled(worker[v].target) /\ Steady
      BY <1>1, <1>2, <1>4, EnderHolds DEF WriteOK
    <2>2. SameSteps
      BY <2>1, SettledIsSteady
    <2>3. ASSUME NEW t, Settled(t), t = worker'[v].target PROVE Settled(worker[v].target)'
      BY <1>1, <1>2, <2>2, <2>3, SettledStays DEF Settled
    <2> QED
      BY <1>2, <2>1, <2>3
  <1> QED
    BY <1>2, <1>3, <1>4 DEF WriteOK, At

LEMMA OwnWrite ==
  ASSUME SharedSession, RunInv, NEW w \in Workers, Kind(w)
  PROVE  WriteOK(w)'
  <1>1. TypeInv /\ SoleInv /\ KeyInv /\ OpenInv /\ PlaceOK(w)
    BY DEF RunInv, PlanInv, TypeInv
  <1>2. CASE worker'[w].at # "write"
    BY <1>2 DEF WriteOK, At
  <1>3. CASE Decides(w)
    <2>1. worker'[w].row # 0
      BY <1>1, <1>3 DEF Decides, PlaceOK
    <2>2. ASSUME worker'[w].target \in Ended PROVE Settled(worker[w].target)'
      <3>1. Settled(worker'[w].target)
        BY <1>1, <1>3, <2>2, CompletedIsSettled DEF Decides, Finds, Settled
      <3>2. SameSteps /\ def' = def
        BY <1>3 DEF Decides, SameSteps, Others
      <3>3. ASSUME NEW t, Settled(t), t = worker'[w].target PROVE Settled(worker[w].target)'
        BY <1>1, <3>2, <3>3, SettledStays DEF Settled
      <3> QED
        BY <3>1, <3>3
    <2> QED
      BY <2>1, <2>2 DEF WriteOK, At
  <1>4. CASE Retries(w)
    BY <1>4 DEF Retries, Holding, WriteOK, Ended
  <1>5. ASSUME NEW o \in RowStatus, Records(w, o) PROVE WriteOK(w)'
    <2>1. /\ worker'[w].target \notin Ended /\ worker'[w].row = worker[w].row
          /\ worker[w].row \in DOMAIN rows
      BY <1>1, <1>5, RecordsFields DEF Ended
    <2>2. worker[w].row # 0
      BY <1>1, <2>1 DEF TypeInv, ShapeInv
    <2> QED
      BY <2>1, <2>2 DEF WriteOK
  <1>6. ASSUME NEW i \in DOMAIN rows, ActivateDue(w, i) PROVE WriteOK(w)'
    <2>1. /\ Others(w) /\ worker'[w].at = "write" /\ worker'[w].target = "running"
      BY <1>1, <1>6 DEF ActivateDue, Others, Idle, TypeInv, ShapeInv
    <2>2. rows[i].status = "scheduled" /\ session' = session /\ session # "open"
      BY <1>1, <1>6 DEF ActivateDue, OpenInv, Active
    <2>3. i \in DOMAIN rows' /\ rows'[i].status = "queued"
      BY <1>1, <1>6, DueChange
    <2>4. \A v \in Workers : At(v, "claim") => worker[v].row # i
      BY <1>1, <2>2 DEF TypeInv, PlaceOK
    <2>5. Stuck(i)'
      BY <2>1, <2>2, <2>3, <2>4 DEF Stuck, Others, At
    <2> QED
      BY <2>1, <2>3, <2>5 DEF WriteOK, Ended
  <1>7. CASE Scan(w)
    <2>1. PICK off : Plans(w, ScanPlan(off))
      BY <1>7, ScanPlans
    <2> QED
      BY <1>1, <1>2, <1>7, <2>1, PlanFields DEF Scan
  <1>8. CASE FailurePolicy(w)
    <2>1. Plans(w, PolicyPlan(rows[worker[w].row].key))
      BY <1>8, PolicyPlans
    <2>2. def' = def
      BY <1>8 DEF FailurePolicy
    <2> QED
      BY <1>1, <1>2, <2>1, <2>2, PlanFields
  <1>9. CASE StepFailed(w)
    <2>1. PICK at \in {"retry", "policy"} : Go(w, at)
      BY <1>9 DEF StepFailed
    <2> QED
      BY <1>1, <1>2, <1>9, <2>1, GoFields DEF StepFailed
  <1>10. CASE update_workflow_run_status_and_record(w)
    <2>1. PICK at \in {"finish", "ack"} : Go(w, at)
      BY <1>10 DEF update_workflow_run_status_and_record
    <2> QED
      BY <1>1, <1>2, <1>10, <2>1, GoFields DEF update_workflow_run_status_and_record
  <1>11. CASE Moves(w) \/ Claims(w) \/ \E next \in worker[w].todo : Creates(w, next)
    BY <1>2, <1>11 DEF Moves, Claims, Creates
  <1> QED
    BY <1>3, <1>4, <1>5, <1>6, <1>7, <1>8, <1>9, <1>10, <1>11 DEF Kind

\* Only the write of a worker changes the status of the run.
LEMMA OnlyWrites ==
  ASSUME NEW w \in Workers, Kind(w), run' # run
  PROVE  update_workflow_run_status_and_record(w)
  BY DEF Kind, Moves, Claims, Scan, FailurePolicy, StepFailed, Decides, Retries, Creates,
         Records, ActivateDue

LEMMA EndNext ==
  ASSUME SharedSession, RunInv, NEW w \in Workers, Kind(w)
  PROVE  EndInv'
  <1>1. TypeInv /\ SoleInv /\ PlanInv /\ EndInv
    BY DEF RunInv, PlanInv
  <1> SUFFICES ASSUME run' \in Ended
               PROVE  /\ Settled(run)'
                      /\ \A v \in Workers : worker'[v].at \in {"idle", "claim", "finish", "ack"}
    BY DEF EndInv
  <1>2. CASE run' = run
    <2>1. Moves(w) /\ worker'[w].at \in {"idle", "finish", "ack"} /\ Settled(run)
      BY <1>1, <1>2, EndedMoves DEF EndInv
    <2>2. Settled(run)'
      <3>1. ASSUME NEW t, Settled(t), t = run' PROVE Settled(run)'
        BY <1>1, <2>1, <3>1, SettledStays DEF Settled, Moves, Others
      <3> QED
        BY <1>2, <2>1, <3>1
    <2> QED
      BY <1>1, <1>2, <2>1, <2>2 DEF EndInv, Moves, Others
  <1>3. CASE run' # run
    <2>1. update_workflow_run_status_and_record(w)
      BY <1>3, OnlyWrites
    <2>2. At(w, "write") /\ run' = worker[w].target /\ rows' = rows /\ def' = def
      BY <1>3, <2>1 DEF update_workflow_run_status_and_record
    <2>3. Settled(worker[w].target) /\ Holding(w)
      BY <1>1, <2>2, EnderHolds DEF RunInv, WriteOK
    <2>4. Settled(run)'
      <3>1. ASSUME NEW t, Settled(t), t = run' PROVE Settled(run)'
        <4>1. SameSteps
          BY <2>2 DEF SameSteps
        <4> QED
          BY <1>1, <2>2, <3>1, <4>1, SettledStays DEF Settled
      <3> QED
        BY <2>2, <2>3, <3>1
    <2>5. PICK at \in {"finish", "ack"} : Go(w, at)
      BY <2>1 DEF update_workflow_run_status_and_record
    <2>6. Others(w) /\ worker'[w].at \in {"finish", "ack"}
      BY <1>1, <2>2, <2>5, GoFields
    <2>7. ASSUME NEW v \in Workers \ {w} PROVE worker[v].at \in {"idle", "claim", "finish", "ack"}
      <3>1. ~Engaged(v) /\ PlaceOK(v) /\ WriteOK(v)
        BY <1>1, <2>3, OneEngaged DEF Engaged, TypeInv, RunInv
      <3>2. CASE worker[v].row # 0
        BY <3>1, <3>2 DEF Engaged, Holding, PlaceOK, At
      <3>3. CASE worker[v].row = 0
        <4>1. worker[v].at # "write"
          BY <2>3, <3>1, <3>3 DEF WriteOK, At, Settled, Stuck, Terminal, Successful
        <4> QED
          BY <3>1, <3>3, <4>1 DEF PlaceOK
      <3> QED
        BY <3>2, <3>3
    <2> QED
      BY <2>4, <2>6, <2>7 DEF Others
  <1> QED
    BY <1>2, <1>3

LEMMA RunNext ==
  ASSUME SharedSession, RunInv, PunctualNext
  PROVE  RunInv' /\ (run' # run => run \notin Ended)
  <1>1. PlanInv' /\ PlanInv /\ TypeInv /\ EndInv
    BY PlanNext DEF RunInv, PlanInv
  <1>2. CASE Pauses
    <2>1. SameSteps /\ def' = def /\ run' = run /\ worker' = worker
      BY <1>2 DEF Pauses, SameSteps
    <2>2. ASSUME NEW t, Settled(t) PROVE Settled(t)'
      BY <1>1, <2>1, <2>2, SettledStays
    <2>3. EndInv'
      <3>1. ASSUME NEW t, t = run, t = run', Settled(t) PROVE Settled(run)'
        BY <2>2, <3>1 DEF Settled
      <3> QED
        BY <1>1, <2>1, <3>1 DEF EndInv
    <2>4. ASSUME NEW w \in Workers PROVE WriteOK(w)'
      <3>1. ASSUME NEW t, t = worker[w].target, t = worker'[w].target, Settled(t)
            PROVE  Settled(worker[w].target)'
        BY <2>2, <3>1 DEF Settled
      <3>2. \A i \in DOMAIN rows : Stuck(i) => i \in DOMAIN rows' /\ Stuck(i)'
        BY <1>2 DEF Pauses, Stuck, At
      <3> QED
        BY <2>1, <3>1, <3>2 DEF WriteOK, At, RunInv
    <2> QED
      BY <1>1, <2>1, <2>3, <2>4 DEF RunInv
  <1>3. ASSUME NEW w \in Workers, Kind(w) PROVE RunInv' /\ (run' # run => run \notin Ended)
    <2>1. \A v \in Workers : WriteOK(v)'
      BY <1>3, OwnWrite, OthersWrite
    <2>2. EndInv'
      BY <1>3, EndNext
    <2>3. run \in Ended => run' = run
      BY <1>1, <1>3, EndedMoves DEF Moves
    <2> QED
      BY <1>1, <2>1, <2>2, <2>3 DEF RunInv
  <1> QED
    BY <1>1, <1>2, <1>3, StepKinds

LEMMA RunInit == GraphInit => RunInv
  <1> SUFFICES ASSUME GraphInit PROVE RunInv
    OBVIOUS
  <1>1. run \notin Ended /\ \A w \in Workers : worker[w].at # "write"
    BY DEF GraphInit, Ended, Idle
  <1> QED
    BY <1>1, PlanInit DEF RunInv, EndInv, WriteOK, At

LEMMA RunInvariant ==
  ASSUME SharedSession
  PROVE  /\ GraphInit => LooseInv /\ (Punctual => RunInv)
         /\ LooseInv /\ (Punctual => RunInv) /\ [GraphNext]_vars
               => (LooseInv /\ (Punctual => RunInv))'
  BY LooseInit, RunInit, LooseNext, PunctualStep, RunNext DEF Punctual

\* In every graph of a shared session an ended run is settled, as long as no
\* living worker outlasts a lease: however the reads that precede the write of
\* its status are spread over other steps, no step is open, a completed run has
\* every step and a failed one a failed step.
THEOREM EndedRunIsSettledHolds ==
  ASSUME SharedSession
  PROVE  GraphSpec => []EndedRunIsSettled
  <1> DEFINE Inv == LooseInv /\ (Punctual => RunInv)
  <1>1. Inv => EndedRunIsSettled
    BY DEF RunInv, EndInv, Settled, EndedRunIsSettled
  <1> QED
    BY <1>1, RunInvariant, PTL DEF GraphSpec

\* A worker that outlasts a lease leaves the run alone in that step.
LEMMA StallKeepsRun ==
  ASSUME [GraphNext]_vars, stalls' # stalls
  PROVE  run' = run
  <1>1. ASSUME NEW w \in Workers, OwnStep(w) PROVE stalls' = stalls
    <2>1. CASE CreateNext(w)
      BY <2>1 DEF CreateNext
    <2> QED
      BY <1>1, <2>1
         DEF OwnStep, claim_workflow_step_run_if_available, StartJob, Settle, Record, Ack, Scan,
             StepFailed, FailurePolicy, Retry, Look, CheckCompleted, CheckFailed, CheckAction,
             update_workflow_run_status_and_record, finish_completed_workflow_session
  <1>2. ASSUME NEW w \in Workers, Starts(w) PROVE stalls' = stalls
    BY <1>2 DEF Starts, Pick, Resume, TakeOver, ActivateDue
  <1>3. ASSUME NEW w \in Workers, FailSession(w) \/ Crash(w) PROVE stalls' = stalls
    BY <1>3 DEF FailSession, Crash
  <1>4. ASSUME NEW w \in Workers, NEW o \in RowStatus, Conclude(w, o) \/ Reconcile(w, o)
        PROVE  stalls' = stalls
    BY <1>4 DEF Conclude, Reconcile
  <1>5. ASSUME NEW w \in Workers, Stall(w) PROVE run' = run
    BY <1>5 DEF Stall
  <1> QED
    BY <1>1, <1>2, <1>3, <1>4, <1>5 DEF GraphNext, vars, TerminateSession

\* In every graph of a shared session no worker reopens an ended run, as long as
\* no living worker outlasts a lease, although the write compares with an older
\* copy of the run and then overwrites it.
THEOREM RunEndIsFinalHolds ==
  ASSUME SharedSession
  PROVE  GraphSpec => RunEndIsFinal
  <1> DEFINE Inv == LooseInv /\ (Punctual => RunInv)
  <1>1. Inv /\ [GraphNext]_vars => [Punctual /\ run' # run => run \notin Ended]_vars
    <2> SUFFICES ASSUME Inv, [GraphNext]_vars, Punctual, run' # run PROVE run \notin Ended
      OBVIOUS
    <2>1. stalls' = stalls
      BY StallKeepsRun
    <2>2. RunInv /\ PunctualNext
      BY <2>1, PunctualStep DEF Punctual
    <2> QED
      BY <2>2, RunNext
  <1> QED
    BY <1>1, RunInvariant, PTL DEF GraphSpec, RunEndIsFinal
-----------------------------------------------------------------------------
(* Dependencies, whatever leases run out *)

Met(k) == {d \in def.deps[k] : \E j \in Of(d) : rows[j].status \in {"completed", "skipped"}}

\* Nothing stands in the way of step k.
Due(k) == k \in def.starts \/ def.sources[k] # {} \/ Cardinality(Met(k)) >= def.min[k]

\* While the session is open nothing has gone wrong, for late workers neither: a
\* worker that advances the graph follows a completion.
SmoothInv ==
    session = "open" =>
        /\ \A i \in DOMAIN rows : rows[i].status \in Active \cup {"queued", "completed", "skipped"}
        /\ \A w \in Workers :
              /\ worker[w].at \notin {"failed", "retry", "policy"}
              /\ At(w, "record") => worker[w].target \in Active \cup {"completed"}
              /\ worker[w].at \in {"scan", "create"} => rows[worker[w].row].status = "completed"
              /\ \A e \in worker[w].todo : e.status # "blocked"

\* While the session is open every step run and every plan is due.  In a closed
\* session a skipped dependent may satisfy a join, but nobody claims new steps.
DependencyInv ==
    /\ LooseInv /\ SmoothInv
    /\ \A i \in DOMAIN rows :
          session = "open" \/ rows[i].status \in Active \cup {"completed"} => Due(rows[i].key)
    /\ \A w \in Workers :
          /\ At(w, "claim") => Due(rows[worker[w].row].key)
          /\ session = "open" => \A e \in worker[w].todo : Due(e.key)

\* The step runs that a step of a worker inserts.
Inserts(w, i) ==
    \/ At(w, "retry") /\ rows'[i].status \in {"queued", "scheduled"}
    \/ \E e \in worker[w].todo :
          At(w, "create") /\ rows'[i].key = e.key /\ rows'[i].status = e.status

\* The status that a step run may get.
StatusMoves(w, i) ==
    \/ rows'[i].status \in {rows[i].status, "running", "queued"}
    \/ At(w, "record") /\ rows'[i].status = worker[w].target

\* Where a worker may go.
PlaceMoves(w) ==
    /\ worker'[w].at \in {"failed", "retry", "policy"} =>
          \/ worker[w].at \in {"failed", "retry", "policy"}
          \/ At(w, "create") /\ rows[worker[w].row].status # "completed"
          \/ At(w, "record") /\ worker[w].target \notin Active \cup {"completed"}
    /\ worker'[w].at = "record" /\ session = "open" =>
          worker'[w] = worker[w] \/ worker'[w].target \in Active \cup {"completed"}
    /\ worker'[w].at \in {"scan", "create"} =>
          \/ At(w, "policy")
          \/ worker[w].at \in {"scan", "create"} /\ worker'[w].row = worker[w].row
          \/ worker'[w].row \in DOMAIN rows' /\ rows'[worker'[w].row].status = "completed"

\* A step of a worker that may have outlasted its lease.
Freely(w) ==
    /\ Effects(w) /\ PlaceMoves(w)
    /\ \A i \in DOMAIN rows : StatusMoves(w, i)
    /\ \A i \in DOMAIN rows' : i \notin DOMAIN rows => Inserts(w, i)

\* Jobs and claims pass from one worker to another.
LEMMA JobsOnly ==
  ASSUME LooseInv, NEW i \in DOMAIN rows, NEW v,
         \/ \E job : rows' = [rows EXCEPT ![i].job = job]
         \/ rows' = Start(i, v)
         \/ rows' = [rows EXCEPT ![i].by = v]
  PROVE  SameSteps
  <1>1. CASE rows' = [rows EXCEPT ![i].by = v]
    BY <1>1, ClaimChange DEF SameSteps
  <1>2. ASSUME NEW job, rows' = [rows EXCEPT ![i].job = job] \/ (job = "held" /\ rows' = Start(i, v))
        PROVE  SameSteps
    BY <1>2, JobChange DEF SameSteps
  <1> QED
    BY <1>1, <1>2

LEMMA LapseOnly ==
  ASSUME LooseInv, NEW w \in Workers, rows' = Lapse(w)
  PROVE  SameSteps
  <1>1. CASE HasJob(w)
    <2>1. worker[w].row \in DOMAIN rows
      BY <1>1, LooseHand DEF HasJob, Working
    <2> QED
      BY <1>1, <2>1, JobsOnly DEF Lapse
  <1>2. CASE ~HasJob(w)
    BY <1>2 DEF Lapse, SameSteps
  <1> QED
    BY <1>1, <1>2

\* The worker goes where nothing is decided about the step runs.
LEMMA Quietly ==
  ASSUME NEW w \in Workers, Others(w), SameSteps, session' = session \/ session' # "open",
         worker'[w].todo \in {{}, worker[w].todo},
         worker'[w].at \notin {"claim", "failed", "retry", "policy", "record", "scan", "create"}
  PROVE  Freely(w)
  BY DEF Freely, Effects, RowMoves, PlanMoves, PlaceMoves, StatusMoves, SameSteps

LEMMA AbortsFreely ==
  ASSUME LooseInv, NEW w \in Workers, Abort(w), def' = def, session' = session
  PROVE  Freely(w)
  <1>1. SameSteps /\ worker' = [worker EXCEPT ![w] = Idle]
    BY LapseOnly DEF Abort
  <1> QED
    BY <1>1, IdleFields, Quietly

LEMMA DepsType ==
  ASSUME TypeInv \/ LooseInv, NEW k \in Keys
  PROVE  def.min[k] \in Nat /\ def.deps[k] \subseteq Keys /\ IsFiniteSet(def.deps[k])
  <1>1. def \in DefinitionType
    BY GraphAssumption DEF TypeInv, LooseInv, ShapeInv
  <1>2. def.min[k] \in Nat /\ def.deps[k] \subseteq Keys
    BY <1>1 DEF DefinitionType
  <1> QED
    BY <1>2, GraphAssumption, FS_Subset

\* What is completed or skipped stays so, so a step that is due stays due.
Keeps ==
    \A i \in DOMAIN rows :
       /\ i \in DOMAIN rows' /\ rows'[i].key = rows[i].key
       /\ rows[i].status \in {"completed", "skipped"} => rows'[i].status = rows[i].status

LEMMA DueStays ==
  ASSUME LooseInv, def' = def, Keeps, NEW k \in Keys, Due(k)
  PROVE  Due(k)'
  <1>1. Met(k) \subseteq Met(k)' /\ Met(k)' \subseteq def.deps[k]
    BY DEF Met, Of, Keeps
  <1>2. IsFiniteSet(Met(k)') /\ def.min[k] \in Nat
    BY <1>1, DepsType, FS_Subset
  <1>3. /\ Cardinality(Met(k)) <= Cardinality(Met(k)')
        /\ Cardinality(Met(k)) \in Nat /\ Cardinality(Met(k)') \in Nat
    BY <1>1, <1>2, FS_Subset, FS_CardinalityType
  <1> QED
    BY <1>2, <1>3 DEF Due

\* While the session is open a join counts completed and skipped steps only.
LEMMA ReadyIsDue ==
  ASSUME LooseInv, SmoothInv, session = "open", NEW k \in workflow_graph_ready_steps, k \in Keys
  PROVE  Due(k)
  <1> DEFINE S == {d \in def.deps[k] : Succeeded(d)}
  <1>1. Cardinality(S) >= def.min[k]
    BY DEF workflow_graph_ready_steps, workflow_graph_fan_in_ready
  <1>2. ASSUME NEW d \in S PROVE d \in Met(k)
    <2>1. Exists(d) /\ Latest(d).status \in Successful
      BY DEF Succeeded
    <2>2. LastRun(d) \in Of(d) /\ Latest(d) = rows[LastRun(d)]
      BY <2>1, LatestRun
    <2>3. rows[LastRun(d)].status \in Active \cup {"queued", "completed", "skipped"}
      BY <2>2 DEF SmoothInv, Of
    <2>4. rows[LastRun(d)].status \in {"completed", "skipped"}
      BY <2>1, <2>2, <2>3 DEF Successful, Active
    <2> QED
      BY <2>2, <2>4 DEF Met
  <1>3. S \subseteq Met(k) /\ Met(k) \subseteq def.deps[k]
    BY <1>2 DEF Met
  <1> HIDE DEF S
  <1>4. IsFiniteSet(Met(k)) /\ def.min[k] \in Nat
    BY <1>3, DepsType, FS_Subset
  <1>5. Cardinality(S) <= Cardinality(Met(k)) /\ Cardinality(S) \in Nat /\ Cardinality(Met(k)) \in Nat
    BY <1>3, <1>4, FS_Subset, FS_CardinalityType
  <1> QED
    BY <1>1, <1>4, <1>5 DEF Due

\* A step run is claimed, or its outcome recorded.
LEMMA StatusFreely ==
  ASSUME LooseInv, NEW w \in Workers, Others(w), session' = session, NEW i, NEW s,
         i = worker[w].row, i \in DOMAIN rows,
         \E v : rows' = [rows EXCEPT ![i] = [@ EXCEPT !.status = s, !.by = v]],
         worker'[w].todo = worker[w].todo, worker'[w].at # "claim", PlaceMoves(w),
         \/ s = "running" /\ At(w, "claim") /\ rows[i].status \in {"queued", "running"}
         \/ s = worker[w].target /\ At(w, "record") /\ rows[i].status \in Active
  PROVE  Freely(w)
  <1>1. /\ DOMAIN rows' = DOMAIN rows /\ rows'[i].status = s /\ rows'[i].key = rows[i].key
        /\ \A j \in DOMAIN rows : j # i => rows'[j] = rows[j]
    BY StatusChange
  <1>2. ASSUME NEW j \in DOMAIN rows PROVE RowMoves(w, j) /\ StatusMoves(w, j)
    <2>1. CASE j # i
      BY <1>1, <2>1, Zenon DEF RowMoves, StatusMoves
    <2>2. CASE j = i
      <3>1. RowMoves(w, i)
        <4>1. \/ rows[i].status \in Active
              \/ rows[i].status = "queued" /\ At(w, "claim")
          BY DEF Active
        <4> QED
          BY <1>1, <4>1, Zenon DEF RowMoves
      <3>2. StatusMoves(w, i)
        BY <1>1 DEF StatusMoves
      <3> QED
        BY <2>2, <3>1, <3>2, Zenon
    <2> QED
      BY <2>1, <2>2
  <1> QED
    BY <1>1, <1>2 DEF Freely, Effects, PlanMoves

\* A step run is inserted.
LEMMA InsertsFreely ==
  ASSUME LooseInv, NEW w \in Workers, Others(w), session' = session, NEW k, NEW s,
         rows' = Append(rows, NewRow(k, s)), worker'[w].todo \subseteq worker[w].todo,
         worker'[w].at # "claim", PlaceMoves(w),
         \/ At(w, "retry") /\ s \in {"queued", "scheduled"}
         \/ At(w, "create") /\ \E e \in worker[w].todo : e.key = k /\ e.status = s
  PROVE  Freely(w)
  <1>1. /\ DOMAIN rows' = DOMAIN rows \cup {Len(rows) + 1}
        /\ \A j \in DOMAIN rows : rows'[j] = rows[j]
        /\ rows'[Len(rows) + 1].key = k /\ rows'[Len(rows) + 1].status = s
    BY Grows
  <1>2. \A j \in DOMAIN rows : RowMoves(w, j) /\ StatusMoves(w, j)
    BY <1>1 DEF RowMoves, StatusMoves
  <1>3. \A j \in DOMAIN rows' : j \notin DOMAIN rows => Inserts(w, j)
    BY <1>1 DEF Inserts
  <1> QED
    BY <1>1, <1>2, <1>3 DEF Freely, Effects, PlanMoves

\* The step runs stay.
LEMMA SameFreely ==
  ASSUME NEW w \in Workers, Others(w), SameSteps, session' = session, PlanMoves(w), PlaceMoves(w),
         worker'[w].at = "claim" => session = "open" /\ worker'[w].row \in DOMAIN rows
  PROVE  Freely(w)
  BY DEF Freely, Effects, RowMoves, StatusMoves, SameSteps

LEMMA FreeOwnStep ==
  ASSUME LooseInv, NEW w \in Workers, OwnStep(w)
  PROVE  Freely(w)
  <1>1. /\ worker[w] \in Doing /\ worker \in [Workers -> Doing]
        /\ worker[w].at \notin {"idle", "write", "ack"} => worker[w].row \in DOMAIN rows
    BY LooseHand
  <1>2. ASSUME NEW at, Go(w, at), def' = def, SameSteps, session' = session \/ session' # "open",
               at \notin {"claim", "failed", "retry", "policy", "record", "scan", "create"}
        PROVE  Freely(w)
    BY <1>2, GoFields, Quietly
  <1>3. CASE claim_workflow_step_run_if_available(w)
    <2>1. worker[w].row \in DOMAIN rows /\ At(w, "claim") /\ def' = def /\ session' = session
      BY <1>1, <1>3 DEF claim_workflow_step_run_if_available, At
    <2>2. CASE rows' = rows /\ worker' = [worker EXCEPT ![w] = Idle]
      BY <2>1, <2>2, IdleFields, Quietly DEF SameSteps
    <2>3. CASE ~(rows' = rows /\ worker' = [worker EXCEPT ![w] = Idle])
      <3>1. /\ \E v : rows' = [rows EXCEPT ![worker[w].row] = [@ EXCEPT !.status = "running", !.by = v]]
            /\ Go(w, "claimed") /\ rows[worker[w].row].status \in {"queued", "running"}
        BY <1>3, <2>3 DEF claim_workflow_step_run_if_available, Abandoned
      <3>2. Others(w) /\ worker'[w].at = "claimed" /\ worker'[w].todo = worker[w].todo
        BY <2>1, <3>1, GoFields
      <3>3. PlaceMoves(w)
        BY <3>2 DEF PlaceMoves
      <3> QED
        BY <2>1, <3>1, <3>2, <3>3, StatusFreely
    <2> QED
      BY <2>2, <2>3
  <1>4. CASE StartJob(w)
    <2>1. worker[w].row \in DOMAIN rows /\ def' = def /\ session' = session
      BY <1>1, <1>4 DEF StartJob, At
    <2>2. CASE rows' = rows /\ worker' = [worker EXCEPT ![w] = Idle]
      BY <2>1, <2>2, IdleFields, Quietly DEF SameSteps
    <2>3. CASE /\ rows' = Start(worker[w].row, w)
               /\ worker' = [worker EXCEPT ![w].at = "turn", ![w].was = "running"]
      <3>1. Others(w) /\ worker'[w].at = "turn" /\ worker'[w].todo = worker[w].todo
        BY <1>1, <2>1, <2>3 DEF Others, Doing
      <3>2. SameSteps
        BY <2>1, <2>3, JobsOnly
      <3> QED
        BY <2>1, <3>1, <3>2, Quietly
    <2> QED
      BY <1>4, <2>2, <2>3 DEF StartJob
  <1>5. CASE Settle(w)
    <2>1. worker[w].row \in DOMAIN rows /\ def' = def /\ session' = session
      BY <1>1, <1>5 DEF Settle, At
    <2>2. CASE rows' = rows /\ worker' = [worker EXCEPT ![w] = Idle]
      BY <2>1, <2>2, IdleFields, Quietly DEF SameSteps
    <2>3. CASE rows' = [rows EXCEPT ![worker[w].row].job = "held"] /\ Go(w, "settle")
      <3>1. SameSteps
        BY <2>1, <2>3, JobsOnly
      <3> QED
        BY <1>2, <2>1, <2>3, <3>1
    <2> QED
      BY <1>5, <2>2, <2>3 DEF Settle
  <1>6. CASE Record(w)
    <2> DEFINE i == worker[w].row
               o == worker[w].target
    <2>1. /\ i \in DOMAIN rows /\ def' = def /\ session' = session /\ At(w, "record")
          /\ i \in Nat
      BY <1>1, <1>6 DEF Record, At, Doing
    <2>2. CASE Abort(w)
      BY <2>1, <2>2, AbortsFreely
    <2>3. CASE ~Abort(w)
      <3>1. /\ \E v : rows' = [rows EXCEPT ![i] = [@ EXCEPT !.status = o, !.by = v]]
            /\ rows[i].status \in Active
            /\ worker' = [worker EXCEPT ![w].at = FirstAdvance(worker[w].was, o),
                                        ![w].target = IF o \in Active THEN o ELSE "running"]
        BY <1>6, <2>3 DEF Record, Active
      <3>2. /\ Others(w) /\ worker'[w].todo = worker[w].todo /\ worker'[w].row = i
            /\ worker'[w].at = FirstAdvance(worker[w].was, o)
        BY <1>1, <2>1, <3>1 DEF Others, Doing
      <3>3. /\ worker'[w].at \in {"ack", "write", "scan", "failed"}
            /\ worker'[w].at = "scan" => o = "completed"
            /\ worker'[w].at = "failed" => o \notin Active \cup {"completed"}
        BY <3>2 DEF FirstAdvance
      <3>4. DOMAIN rows' = DOMAIN rows /\ rows'[i].status = o
        BY <2>1, <3>1, StatusChange
      <3> HIDE DEF i, o
      <3>5. PlaceMoves(w)
        BY <2>1, <3>2, <3>3, <3>4 DEF PlaceMoves, i, o
      <3> QED
        BY <2>1, <3>1, <3>2, <3>3, <3>5, StatusFreely DEF i, o
    <2> QED
      BY <2>2, <2>3
  <1>7. CASE Ack(w)
    <2>1. SameSteps
      <3>1. CASE HasJob(w)
        <4>1. worker[w].row \in DOMAIN rows
          BY <3>1, LooseHand DEF HasJob, Working
        <4> QED
          BY <1>7, <3>1, <4>1, JobsOnly DEF Ack
      <3>2. CASE ~HasJob(w)
        BY <1>7, <3>2 DEF Ack, SameSteps
      <3> QED
        BY <3>1, <3>2
    <2> QED
      BY <1>7, <2>1, IdleFields, Quietly DEF Ack
  <1>8. ASSUME NEW todo, Plans(w, todo), UNCHANGED <<def, rows, session>>,
               Scan(w) \/ FailurePolicy(w)
        PROVE  Freely(w)
    <2>1. /\ Others(w) /\ worker'[w].row = worker[w].row
          /\ worker'[w].at \in {"look", "create"} /\ (At(w, "scan") \/ At(w, "policy"))
      BY <1>8, PlanFields DEF Scan, FailurePolicy
    <2>2. PlaceMoves(w) /\ PlanMoves(w) /\ SameSteps
      BY <1>8, <2>1 DEF PlaceMoves, PlanMoves, SameSteps, At
    <2> QED
      BY <1>8, <2>1, <2>2, SameFreely
  <1>9. CASE Scan(w)
    <2>1. PICK off : Plans(w, ScanPlan(off))
      BY <1>9, ScanPlans
    <2> QED
      BY <1>8, <1>9, <2>1 DEF Scan
  <1>10. CASE FailurePolicy(w)
    <2>1. UNCHANGED <<def, rows, session>>
      BY <1>10 DEF FailurePolicy
    <2> QED
      BY <1>8, <1>10, <2>1, PolicyPlans
  <1>11. CASE StepFailed(w)
    <2>1. PICK at \in {"retry", "policy"} : Go(w, at)
      BY <1>11 DEF StepFailed
    <2>2. UNCHANGED <<def, rows, session>> /\ At(w, "failed")
      BY <1>11 DEF StepFailed
    <2>3. Others(w) /\ worker'[w].at = at /\ worker'[w].todo = worker[w].todo
      BY <2>1, <2>2, GoFields
    <2>4. PlaceMoves(w) /\ PlanMoves(w) /\ SameSteps
      BY <2>2, <2>3 DEF PlaceMoves, PlanMoves, SameSteps, At
    <2> QED
      BY <2>2, <2>3, <2>4, SameFreely
  <1>12. CASE Retry(w)
    <2>1. At(w, "retry") /\ def' = def /\ session' = session
      BY <1>12 DEF Retry
    <2>2. CASE run \notin Executable
      BY <1>12, <2>1, <2>2, AbortsFreely DEF Retry
    <2>3. CASE run \in Executable
      <3>1. \E s \in {"queued", "scheduled"} :
               rows' = Append(rows, NewRow(rows[worker[w].row].key, s))
        BY <1>12, <2>3 DEF Retry
      <3>2. Others(w) /\ worker'[w].at = "write" /\ worker'[w].todo = worker[w].todo
        BY <1>1, <1>12, <2>1, <2>3 DEF Retry, Others, Doing
      <3>3. PlaceMoves(w)
        BY <3>2 DEF PlaceMoves
      <3> QED
        BY <2>1, <3>1, <3>2, <3>3, InsertsFreely
    <2> QED
      BY <2>2, <2>3
  <1>13. CASE CreateNext(w)
    <2>1. CASE run \notin Executable
      <3>1. Abort(w) /\ UNCHANGED <<def, run, session, crashes, stalls>>
        BY <1>13, <2>1 DEF CreateNext
      <3> QED
        BY <3>1, AbortsFreely
    <2>2. CASE run \in Executable
      <3>1. PICK next \in worker[w].todo, at \in {"create", "scan", "policy"} :
               /\ rows' = Append(rows, NewRow(next.key, next.status)) /\ At(w, "create")
               /\ worker' = [worker EXCEPT ![w].todo = worker[w].todo \ {next}, ![w].at = at]
               /\ at = "policy" => rows[worker[w].row].status # "completed"
               /\ UNCHANGED <<def, run, session, crashes, stalls>>
        BY <1>13, <2>2 DEF CreateNext
      <3>2. /\ Others(w) /\ worker'[w].at = at /\ worker'[w].row = worker[w].row
            /\ worker'[w].todo \subseteq worker[w].todo
        BY <1>1, <3>1 DEF Others, Doing
      <3>3. PlaceMoves(w)
        BY <3>1, <3>2 DEF PlaceMoves, At
      <3> QED
        BY <3>1, <3>2, <3>3, InsertsFreely
    <2> QED
      BY <2>1, <2>2
  <1>14. CASE Look(w)
    <2>1. Others(w) /\ worker'[w].at = "completed?" /\ worker'[w].todo = worker[w].todo
      BY <1>1, <1>14 DEF Look, Others, Doing
    <2> QED
      BY <1>14, <2>1, Quietly DEF Look, SameSteps
  <1>15. CASE CheckCompleted(w) \/ CheckFailed(w) \/ CheckAction(w)
    <2>1. UNCHANGED <<def, rows, session>>
      BY <1>15 DEF CheckCompleted, CheckFailed, CheckAction
    <2>2. \/ \E at \in {"failed?", "action?"} : Go(w, at)
          \/ \E target : Decide(w, target)
      BY <1>15 DEF CheckCompleted, CheckFailed, CheckAction
    <2> QED
      BY <1>2, <2>1, <2>2, DecideFields, Quietly DEF SameSteps
  <1>16. CASE update_workflow_run_status_and_record(w)
    <2>1. PICK at \in {"finish", "ack"} : Go(w, at)
      BY <1>16 DEF update_workflow_run_status_and_record
    <2> QED
      BY <1>2, <1>16, <2>1 DEF update_workflow_run_status_and_record, SameSteps
  <1>17. CASE finish_completed_workflow_session(w)
    BY <1>2, <1>17 DEF finish_completed_workflow_session, SameSteps
  <1> QED
    BY <1>3, <1>4, <1>5, <1>6, <1>7, <1>9, <1>10, <1>11, <1>12, <1>13, <1>14, <1>15, <1>16, <1>17
       DEF OwnStep

LEMMA FreeSteps ==
  ASSUME SharedSession, LooseInv, [GraphNext]_vars
  PROVE  Pauses \/ \E w \in Workers : Freely(w)
  <1>1. \A i : Shared(i)
    BY AllShared
  <1>2. ASSUME NEW w \in Workers, NEW i \in DOMAIN rows,
               Pick(w, i) \/ Resume(w, i) \/ TakeOver(w, i) \/ ActivateDue(w, i)
        PROVE  Freely(w)
    <2>1. CASE Pick(w, i)
      <3>1. session = "open" /\ UNCHANGED <<def, rows, session>>
        BY <1>1, <2>1 DEF Pick
      <3>2. Others(w) /\ worker'[w].at = "claim" /\ worker'[w].todo = {} /\ worker'[w].row = i
        BY <2>1, StartFields DEF Pick
      <3>3. PlaceMoves(w) /\ PlanMoves(w) /\ SameSteps
        BY <3>1, <3>2 DEF PlaceMoves, PlanMoves, SameSteps
      <3> QED
        BY <3>1, <3>2, <3>3, SameFreely
    <2>2. CASE Resume(w, i)
      <3>1. def' = def /\ session' = session /\ SameSteps
        BY <2>2, JobsOnly DEF Resume
      <3>2. Others(w) /\ worker'[w].at = "turn" /\ worker'[w].todo = {}
        BY <2>2, StartFields DEF Resume
      <3> QED
        BY <3>1, <3>2, Quietly
    <2>3. CASE TakeOver(w, i)
      <3> DEFINE at == resume_recorded_workflow_completion(i)
      <3>1. at \in {"turn", "ack", "finish", "scan"} /\ (at = "scan" => rows[i].status = "completed")
        BY DEF resume_recorded_workflow_completion
      <3> HIDE DEF at
      <3>2. Others(w) /\ worker'[w].at = at /\ worker'[w].todo = {} /\ worker'[w].row = i
        BY <2>3, StartFields DEF TakeOver, at
      <3>3. def' = def /\ session' = session /\ SameSteps
        BY <2>3, JobsOnly DEF TakeOver
      <3>4. PlaceMoves(w) /\ PlanMoves(w)
        BY <3>1, <3>2, <3>3 DEF PlaceMoves, PlanMoves, SameSteps
      <3> QED
        BY <3>1, <3>2, <3>3, <3>4, SameFreely
    <2>4. CASE ActivateDue(w, i)
      <3>1. Others(w) /\ worker'[w].at = "write" /\ worker'[w].todo = {} /\ session' = session
        BY <2>4 DEF ActivateDue, Others, Idle, LooseInv, ShapeInv
      <3>2. \A j \in DOMAIN rows : RowMoves(w, j) /\ StatusMoves(w, j)
        BY <2>4, DueChange DEF RowMoves, StatusMoves, ActivateDue
      <3>3. DOMAIN rows' = DOMAIN rows
        BY <2>4, DueChange
      <3> QED
        BY <3>1, <3>2, <3>3 DEF Freely, Effects, PlaceMoves, PlanMoves
    <2> QED
      BY <1>2, <2>1, <2>2, <2>3, <2>4
  <1>3. ASSUME NEW w \in Workers, Crash(w) PROVE Freely(w)
    BY <1>3, AbortsFreely DEF Crash
  <1>4. ASSUME NEW w \in Workers, Stall(w) PROVE Freely(w)
    <2>1. CASE At(w, "claimed") /\ Go(w, "late") /\ rows' = rows
      BY <1>4, <2>1, GoFields, Quietly DEF Stall, SameSteps
    <2>2. CASE rows' = Lapse(w) /\ worker' = worker /\ HasJob(w)
      <3>1. SameSteps /\ session' = session /\ Others(w)
        BY <1>4, <2>2, LapseOnly DEF Stall, Others
      <3>2. PlaceMoves(w) /\ PlanMoves(w) /\ worker'[w].at # "claim"
        BY <2>2 DEF PlaceMoves, PlanMoves, HasJob, Working, At
      <3> QED
        BY <3>1, <3>2, SameFreely
    <2> QED
      BY <1>4, <2>1, <2>2 DEF Stall
  <1>5. ASSUME NEW w \in Workers, NEW o \in RowStatus, Conclude(w, o) \/ Reconcile(w, o)
        PROVE  Freely(w)
    <2>1. /\ session = "open" => o \in Active \cup {"completed"}
          /\ def' = def /\ session' = session /\ worker[w].row \in DOMAIN rows
      BY <1>1, <1>5, LooseHand DEF Conclude, Reconcile, Outcomes, At
    <2>2. ASSUME Others(w), SameSteps, worker'[w].at = "record", worker'[w].target = o,
                 worker'[w].todo \in {{}, worker[w].todo}
          PROVE  Freely(w)
      <3>1. PlaceMoves(w) /\ PlanMoves(w)
        BY <2>1, <2>2 DEF PlaceMoves, PlanMoves
      <3> QED
        BY <2>1, <2>2, <3>1, SameFreely
    <2>3. CASE Conclude(w, o)
      <3>1. /\ Others(w) /\ worker'[w].at = "record" /\ worker'[w].target = o
            /\ worker'[w].todo = worker[w].todo
        BY <2>3, LooseHand DEF Conclude, Others, Doing
      <3> QED
        BY <2>2, <2>3, <3>1 DEF Conclude, SameSteps
    <2>4. CASE Reconcile(w, o)
      <3> DEFINE i == worker[w].row
                 rec == [Idle EXCEPT !.at = "record", !.row = i, !.run = run,
                                     !.target = o, !.was = rows[i].status]
      <3>1. CASE Go(w, "ack") /\ rows' = rows
        BY <2>1, <3>1, GoFields, Quietly DEF SameSteps
      <3>2. CASE /\ rows' = rows \/ rows' = [rows EXCEPT ![i].by = w]
                 /\ worker' = [worker EXCEPT ![w] = rec]
        <4>1. SameSteps
          BY <2>1, <3>2, JobsOnly DEF SameSteps
        <4>2. rec.at = "record" /\ rec.target = o /\ rec.todo = {}
          BY DEF Idle
        <4> HIDE DEF rec
        <4>3. Others(w) /\ worker'[w] = rec
          BY <2>1, <3>2, LooseHand DEF Others
        <4> QED
          BY <2>2, <4>1, <4>2, <4>3
      <3>3. CASE Abort(w)
        BY <2>1, <3>3, AbortsFreely
      <3> QED
        BY <2>4, <3>1, <3>2, <3>3 DEF Reconcile
    <2> QED
      BY <1>5, <2>3, <2>4
  <1>6. ASSUME NEW w \in Workers, FailSession(w) PROVE Pauses
    BY <1>6 DEF FailSession, Pauses
  <1>7. CASE TerminateSession \/ UNCHANGED vars
    BY <1>7 DEF TerminateSession, Pauses, vars
  <1> QED
    BY <1>2, <1>3, <1>4, <1>5, <1>6, <1>7, FreeOwnStep DEF GraphNext, Starts

LEMMA SmoothNext ==
  ASSUME LooseInv, SmoothInv, NEW w \in Workers, Freely(w)
  PROVE  SmoothInv'
  <1> SUFFICES ASSUME session' = "open" PROVE SmoothInv'
    BY DEF SmoothInv
  <1>1. session = "open" /\ Effects(w) /\ PlaceMoves(w) /\ Others(w)
    BY DEF Freely, Effects
  <1>2. /\ \A i \in DOMAIN rows : rows[i].status \in Active \cup {"queued", "completed", "skipped"}
        /\ worker[w].at \notin {"failed", "retry", "policy"}
        /\ At(w, "record") => worker[w].target \in Active \cup {"completed"}
        /\ \A v \in Workers :
              /\ worker[v].at \notin {"failed", "retry", "policy"}
              /\ At(v, "record") => worker[v].target \in Active \cup {"completed"}
              /\ worker[v].at \in {"scan", "create"} => rows[worker[v].row].status = "completed"
              /\ \A e \in worker[v].todo : e.status # "blocked"
    BY <1>1 DEF SmoothInv
  <1>3. ASSUME NEW i \in DOMAIN rows'
        PROVE  rows'[i].status \in Active \cup {"queued", "completed", "skipped"}
    <2>1. CASE i \in DOMAIN rows
      BY <1>2, <2>1 DEF Freely, StatusMoves, Active
    <2>2. CASE i \notin DOMAIN rows
      <3>1. PICK e \in worker[w].todo : rows'[i].status = e.status
        BY <1>2, <2>2 DEF Freely, Inserts, At
      <3>2. e.status \in {"queued", "skipped", "blocked"}
        BY LooseHand DEF Doing, Item
      <3> QED
        BY <1>2, <3>1, <3>2
    <2> QED
      BY <2>1, <2>2
  <1>4. \A i \in DOMAIN rows : rows[i].status = "completed" =>
                                   i \in DOMAIN rows' /\ rows'[i].status = "completed"
    BY <1>1 DEF Effects, RowMoves, Active
  <1>5. \A v \in Workers : worker[v].at \in {"scan", "create"} => worker[v].row \in DOMAIN rows
    BY LooseHand
  <1>6. /\ worker'[w].at \notin {"failed", "retry", "policy"}
        /\ worker'[w].at = "record" => worker'[w].target \in Active \cup {"completed"}
        /\ worker'[w].at \in {"scan", "create"} => rows'[worker'[w].row].status = "completed"
    BY <1>1, <1>2, <1>4, <1>5 DEF PlaceMoves, At
  <1>7. \A e \in worker'[w].todo : e.status # "blocked"
    <2>1. CASE worker'[w].todo \subseteq worker[w].todo
      BY <1>2, <2>1
    <2>2. CASE Scan(w)
      <3>1. PICK off : Plans(w, ScanPlan(off))
        BY <2>2, ScanPlans
      <3>2. def' = def
        BY <2>2 DEF Scan
      <3>3. worker'[w].todo = ScanPlan(off)
        BY <3>1, <3>2, PlanFields
      <3> QED
        BY <3>3, ScanKeys
    <2>3. ~FailurePolicy(w)
      BY <1>2 DEF FailurePolicy, At
    <2> QED
      BY <1>1, <2>1, <2>2, <2>3 DEF Effects, PlanMoves
  <1>8. ASSUME NEW v \in Workers, v # w
        PROVE  /\ worker'[v].at \notin {"failed", "retry", "policy"}
               /\ worker'[v].at = "record" => worker'[v].target \in Active \cup {"completed"}
               /\ worker'[v].at \in {"scan", "create"} => rows'[worker'[v].row].status = "completed"
               /\ \A e \in worker'[v].todo : e.status # "blocked"
    <2>1. worker'[v] = worker[v]
      BY <1>1, <1>8 DEF Others
    <2> QED
      BY <1>2, <1>4, <1>5, <2>1 DEF At
  <1> QED
    BY <1>3, <1>6, <1>7, <1>8 DEF SmoothInv, At

LEMMA DependencyNext ==
  ASSUME SharedSession, DependencyInv, [GraphNext]_vars
  PROVE  DependencyInv'
  <1>1. LooseInv /\ SmoothInv /\ LooseInv'
    BY LooseNext DEF DependencyInv
  <1>2. /\ \A i \in DOMAIN rows : rows[i].key \in Keys
        /\ \A w \in Workers : \A e \in worker[w].todo : e.key \in Keys
    <2>1. \A w \in Workers : worker[w] \in Doing
      BY <1>1 DEF LooseInv, ShapeInv
    <2>2. \A i \in DOMAIN rows : rows[i] \in Row
      BY <1>1 DEF LooseInv, ShapeInv
    <2> QED
      BY <2>1, <2>2 DEF Row, Doing, Item
  <1>3. \A w \in Workers : At(w, "claim") => worker[w].row \in DOMAIN rows
    BY <1>1, LooseHand DEF At
  <1>4. CASE Pauses
    <2>1. Keeps /\ def' = def /\ rows' = rows /\ worker' = worker
             /\ (session' = "open" => session = "open")
      BY <1>4 DEF Pauses, Keeps
    <2>3. SmoothInv'
      BY <1>1, <1>4 DEF Pauses, SmoothInv, At
    <2>2. \A k \in Keys : Due(k) => Due(k)'
      BY <1>1, <2>1, DueStays
    <2> QED
      BY <1>1, <1>2, <1>3, <2>1, <2>2, <2>3 DEF DependencyInv, At
  <1>5. ASSUME NEW w \in Workers, Freely(w) PROVE DependencyInv'
    <2>1. Effects(w)
      BY <1>5 DEF Freely
    <2>2. Keeps /\ Others(w) /\ (session' = "open" => session = "open")
      BY <2>1 DEF Effects, RowMoves, Keeps, Active
    <2>3. \A k \in Keys : Due(k) => Due(k)'
      BY <1>1, <2>2, DueStays DEF Others
    <2>4. ASSUME NEW i \in DOMAIN rows',
                 session' = "open" \/ rows'[i].status \in Active \cup {"completed"}
          PROVE  Due(rows[i].key)'
      <3>1. CASE i \in DOMAIN rows
        <4>1. RowMoves(w, i) /\ rows'[i].key = rows[i].key
          BY <2>1, <3>1 DEF Effects, RowMoves
        <4>2. Due(rows[i].key)
          BY <2>2, <2>4, <3>1, <4>1 DEF DependencyInv, RowMoves, Active
        <4>3. Due(rows[i].key) => Due(rows[i].key)'
          <5>1. ASSUME NEW k \in Keys, k = rows[i].key, k = rows'[i].key, Due(k)
                PROVE  Due(rows[i].key)'
            BY <2>3, <5>1 DEF Due
          <5> QED
            BY <1>2, <3>1, <4>1, <5>1
        <4> QED
          BY <4>2, <4>3
      <3>2. CASE i \notin DOMAIN rows
        <4>1. \/ At(w, "retry") /\ rows'[i].status \in {"queued", "scheduled"}
              \/ \E e \in worker[w].todo :
                    At(w, "create") /\ rows'[i].key = e.key /\ rows'[i].status = e.status
          BY <1>5, <3>2 DEF Freely, Inserts
        <4>2. \A e \in worker[w].todo : e.status \notin Active \cup {"completed"}
          BY <1>1, LooseHand DEF Doing, Item, Active
        <4>3. session = "open"
          BY <2>2, <2>4, <4>1, <4>2 DEF Active
        <4>4. PICK e \in worker[w].todo : rows'[i].key = e.key
          BY <1>1, <4>1, <4>3 DEF SmoothInv, At
        <4>5. Due(e.key) /\ e.key \in Keys
          BY <1>2, <4>3 DEF DependencyInv
        <4>6. ASSUME NEW k \in Keys, k = rows'[i].key, Due(k) PROVE Due(rows[i].key)'
          BY <2>3, <4>6 DEF Due
        <4> QED
          BY <4>4, <4>5, <4>6
      <3> QED
        BY <3>1, <3>2
    <2>5. ASSUME NEW v \in Workers, worker'[v].at = "claim"
          PROVE  Due(rows[worker[v].row].key)'
      <3> DEFINE i == worker'[v].row
      <3>1. i \in DOMAIN rows /\ Due(rows[i].key)
        <4>1. CASE v = w
          BY <2>1, <2>5, <4>1 DEF Effects, DependencyInv
        <4>2. CASE v # w
          BY <1>3, <2>2, <2>5, <4>2 DEF Others, DependencyInv, At
        <4> QED
          BY <4>1, <4>2
      <3>2. rows'[i].key = rows[i].key /\ rows[i].key \in Keys
        BY <1>2, <2>1, <3>1 DEF Effects, RowMoves
      <3>3. ASSUME NEW k \in Keys, k = rows'[i].key, Due(k) PROVE Due(rows[worker[v].row].key)'
        BY <2>3, <3>3 DEF Due
      <3> QED
        BY <3>1, <3>2, <3>3
    <2>6. ASSUME NEW v \in Workers, session' = "open", NEW e \in worker'[v].todo
          PROVE  Due(e.key)'
      <3>1. session = "open"
        BY <2>2, <2>6
      <3>2. ASSUME e \in worker[v].todo PROVE Due(e.key)'
        BY <1>2, <2>3, <3>1, <3>2 DEF DependencyInv
      <3>3. CASE v # w \/ worker'[w].todo \subseteq worker[w].todo
        BY <2>2, <2>6, <3>2, <3>3 DEF Others
      <3>4. CASE v = w /\ Scan(w)
        <4>1. PICK off : Plans(w, ScanPlan(off))
          BY <3>4, ScanPlans
        <4>2. e \in ScanPlan(off)
          BY <1>1, <2>2, <2>6, <3>4, <4>1, PlanFields DEF Others
        <4>3. e.key \in workflow_graph_ready_steps /\ e.key \in Keys
          BY <1>1, <4>2, ScanKeys, PlansAreItems DEF LooseInv
        <4> QED
          BY <1>1, <2>3, <3>1, <4>3, ReadyIsDue
      <3>5. ~FailurePolicy(w)
        BY <1>1, <3>1 DEF SmoothInv, FailurePolicy, At
      <3> QED
        BY <2>1, <3>3, <3>4, <3>5 DEF Effects, PlanMoves
    <2> QED
      BY <1>1, <1>5, <2>4, <2>5, <2>6, SmoothNext DEF DependencyInv, At
  <1> QED
    BY <1>1, <1>4, <1>5, FreeSteps

LEMMA DependencyInit == GraphInit => DependencyInv
  <1> SUFFICES ASSUME GraphInit PROVE DependencyInv
    OBVIOUS
  <1>1. \A w \in Workers : worker[w].at = "idle" /\ worker[w].todo = {}
    BY DEF GraphInit, Idle
  <1>2. \A i \in DOMAIN rows : rows[i].key \in def.starts /\ rows[i].status = "queued"
    BY DEF GraphInit, NewRow
  <1>3. LooseInv /\ SmoothInv
    BY <1>1, <1>2, LooseInit DEF SmoothInv, At
  <1> QED
    BY <1>1, <1>2, <1>3 DEF DependencyInv, Due, At

\* In every graph of a shared session a step that runs or has run had the
\* dependencies its join asks for, and a dependent that was skipped because
\* something failed, which workflow_graph_fan_in_ready counts, is none of them.
\* This survives the inserts of workers that outlast their leases: what was due
\* when they looked stays due.
THEOREM DependenciesHoldHolds ==
  ASSUME SharedSession
  PROVE  GraphSpec => []DependenciesHold
  <1>1. DependencyInv /\ [GraphNext]_vars => DependencyInv'
    BY DependencyNext
  <1>2. DependencyInv => DependenciesHold
    BY DEF DependencyInv, Due, Met, DependenciesHold
  <1> QED
    BY <1>1, <1>2, DependencyInit, PTL DEF GraphSpec
-----------------------------------------------------------------------------
(* The cap on parallel steps *)

\* The graphs that have room for their start steps and queue no compensation
\* steps: the code inserts both without a look at the cap.
CapFits ==
    \A d \in Definitions : d.cap # 0 =>
        Cardinality(d.starts) <= d.cap /\ \A k \in Keys : d.sources[k] = {}

Open == {i \in DOMAIN rows : rows[i].status \notin Terminal}
Queued(w) == {e \in worker[w].todo : e.status = "queued"}

\* The places that a worker is going to take.
Promised(w) ==
    IF At(w, "create") THEN Cardinality(Queued(w))
    ELSE IF At(w, "failed") \/ At(w, "retry") THEN 1 ELSE 0

Within(n) == Cardinality(Open) + n <= def.cap

\* The open steps and those a worker has decided to insert fit together.
CapInv == def.cap # 0 => Within(0) /\ \A w \in Workers : Within(Promised(w))

LEMMA OpenType ==
  ASSUME TypeInv
  PROVE  IsFiniteSet(Open) /\ Cardinality(Open) \in Nat /\ def.cap \in Nat
  <1>1. Open \subseteq 1..Len(rows) /\ Len(rows) \in Nat
    BY DEF Open, TypeInv, ShapeInv
  <1>2. IsFiniteSet(1..Len(rows))
    BY <1>1, FS_Interval
  <1>3. def \in DefinitionType
    BY GraphAssumption DEF TypeInv, ShapeInv
  <1>4. def.cap \in Nat
    BY <1>3 DEF DefinitionType
  <1> QED
    BY <1>1, <1>2, <1>4, FS_Subset, FS_CardinalityType

\* A set of planned steps with distinct keys is finite.
LEMMA PlanFinite ==
  ASSUME NEW T, \A e \in T : e.key \in Keys, \A e, f \in T : e.key = f.key => e = f
  PROVE  IsFiniteSet(T) /\ Cardinality(T) \in Nat
  <1> DEFINE keyOf == [e \in T |-> e.key]
  <1>1. keyOf \in Injection(T, Keys)
    BY DEF Injection, IsInjective
  <1> QED
    BY <1>1, GraphAssumption, FS_Injection, FS_CardinalityType

LEMMA PromisedType ==
  ASSUME PlanInv, NEW w \in Workers
  PROVE  /\ Promised(w) \in Nat
         /\ IsFiniteSet(Queued(w)) /\ Cardinality(Queued(w)) \in Nat
  <1>1. worker[w] \in Doing /\ PlanOK(w)
    BY DEF PlanInv, TypeInv, ShapeInv
  <1>2. /\ \A e \in Queued(w) : e.key \in Keys
        /\ \A e, f \in Queued(w) : e.key = f.key => e = f
    BY <1>1 DEF Queued, PlanOK, Doing, Item
  <1>3. IsFiniteSet(Queued(w)) /\ Cardinality(Queued(w)) \in Nat
    BY <1>2, PlanFinite
  <1> QED
    BY <1>3 DEF Promised

\* Only a worker that holds a job is going to insert steps.
LEMMA PromiserHolds ==
  ASSUME TypeInv, NEW w \in Workers, Promised(w) # 0
  PROVE  Holding(w)
  <1>1. PlaceOK(w)
    BY DEF TypeInv
  <1> QED
    BY <1>1 DEF Promised, PlaceOK, Holding, At

\* Position numbers the steps of the graph.
LEMMA Positions ==
  ASSUME TypeInv
  PROVE  /\ \E n \in Nat : \A k \in Steps : Position(k) \in Nat /\ Position(k) <= n
         /\ \A k, l \in Steps : Position(k) = Position(l) => k = l
  <1>1. def \in DefinitionType
    BY GraphAssumption DEF TypeInv, ShapeInv
  <1>2. def.graph \in Seq(Keys)
    BY <1>1 DEF DefinitionType
  <1>3. \A k \in Steps : Position(k) \in DOMAIN def.graph /\ def.graph[Position(k)] = k
    BY DEF Steps, Position
  <1>4. Len(def.graph) \in Nat /\ DOMAIN def.graph = 1..Len(def.graph)
    BY <1>2
  <1>5. \A k \in Steps : Position(k) \in Nat /\ Position(k) <= Len(def.graph)
    BY <1>3, <1>4
  <1> QED
    BY <1>3, <1>4, <1>5

\* The ready steps of one pass that are queued fit under the cap: the last of
\* them has room after all that come before it.
LEMMA ScanFits ==
  ASSUME TypeInv, def.cap # 0, Within(0), NEW off
  PROVE  LET Q == {e \in ScanPlan(off) : e.status = "queued"}
         IN  Cardinality(Q) \in Nat /\ Within(Cardinality(Q))
  <1> DEFINE Q == {e \in ScanPlan(off) : e.status = "queued"}
             ready == workflow_graph_ready_steps
             Before(k) == {r \in ready \ off : Position(r) < Position(k)}
  <1>1. /\ Steps \subseteq Keys /\ ready \subseteq Steps
        /\ ScanPlan(off) \subseteq Item
    BY PlansAreItems DEF workflow_graph_ready_steps, TypeInv
  <1>2. ASSUME NEW e \in Q
        PROVE  e.key \in ready \ off /\ HasRoom(e.key, ready, off)
    <2>1. PICK k \in ready : HasRoom(k, ready, off) /\ e = ScanItem(k, off)
      BY DEF ScanPlan
    <2>2. e.key = k /\ e.status = IF k \in off THEN "skipped" ELSE "queued"
      BY <2>1 DEF ScanItem
    <2> QED
      BY <2>1, <2>2
  <1>3. \A e, f \in Q : e.key = f.key => e = f
    BY ScanKeys
  <1>4. /\ Cardinality(Open) \in Nat /\ def.cap \in Nat
        /\ workflow_graph_active_parallel_count = Cardinality(Open)
    BY OpenType DEF workflow_graph_active_parallel_count, Open
  <1> HIDE DEF Q
  <1>5. Cardinality(Q) \in Nat
    BY <1>1, <1>2, <1>3, PlanFinite
  <1>6. ASSUME Q = {} PROVE Within(Cardinality(Q))
    BY <1>6, FS_EmptySet
  <1>7. ASSUME Q # {} PROVE Within(Cardinality(Q))
    <2> DEFINE P == {Position(e.key) : e \in Q}
    <2>1. PICK n \in Nat : \A k \in Steps : Position(k) \in Nat /\ Position(k) <= n
      BY Positions
    <2>2. P \in SUBSET Nat /\ P # {} /\ \A p \in P : p <= n
      BY <1>1, <1>2, <1>7, <2>1
    <2>3. PICK last \in P : \A p \in P : p <= last
      <3> HIDE DEF P
      <3> QED
        BY <2>2, LastOf
    <2>4. PICK m \in Q : last = Position(m.key)
      BY <2>3
    <2> DEFINE B == Before(m.key)
               keyOf == [e \in Q |-> e.key]
    <2>5. IsFiniteSet(B) /\ m.key \notin B
      <3>1. B \subseteq Keys
        BY <1>1
      <3>2. IsFiniteSet(B)
        BY <3>1, GraphAssumption, FS_Subset
      <3>3. Position(m.key) \in Nat
        BY <1>1, <1>2, <2>1
      <3> QED
        BY <3>2, <3>3
    <2>6. ASSUME NEW e \in Q PROVE e.key \in B \cup {m.key}
      <3>1. e.key \in ready \ off /\ e.key \in Steps /\ m.key \in Steps
        BY <1>1, <1>2
      <3>2. Position(e.key) <= Position(m.key) /\ Position(e.key) \in Nat /\ Position(m.key) \in Nat
        BY <2>1, <2>3, <2>4, <3>1
      <3>3. CASE Position(e.key) < Position(m.key)
        BY <3>1, <3>3
      <3>4. CASE Position(e.key) = Position(m.key)
        BY <3>1, <3>4, Positions
      <3> QED
        BY <3>2, <3>3, <3>4
    <2> HIDE DEF B
    <2>7. keyOf \in Injection(Q, B \cup {m.key})
      BY <1>3, <2>6 DEF Injection, IsInjective
    <2>8. /\ IsFiniteSet(B \cup {m.key}) /\ Cardinality(B \cup {m.key}) = Cardinality(B) + 1
          /\ Cardinality(B) \in Nat
      BY <2>5, FS_AddElement, FS_CardinalityType
    <2>9. Cardinality(Q) <= Cardinality(B) + 1
      <3> HIDE DEF keyOf
      <3> QED
        BY <2>7, <2>8, FS_Injection
    <2>10. Cardinality(Open) + Cardinality(B) < def.cap
      <3>1. HasRoom(m.key, ready, off)
        BY <1>2
      <3> QED
        BY <1>4, <3>1 DEF HasRoom, B
    <2> QED
      BY <1>4, <1>5, <2>8, <2>9, <2>10 DEF Within
  <1>8. Within(Cardinality(Q))
    BY <1>6, <1>7
  <1> QED
    BY <1>5, <1>8 DEF Q

LEMMA SteadyOpen ==
  ASSUME Steady
  PROVE  Open' = Open
  BY DEF Steady, Open, Terminal, Successful

\* What a step of worker w does to the open steps and to what w may insert.
Fits(w) ==
    /\ def' = def /\ Cardinality(Open') \in Nat /\ Promised(w)' \in Nat
    /\ Cardinality(Open') + Promised(w)' <= def.cap
    /\ Cardinality(Open') <= Cardinality(Open) \/ Holding(w)

LEMMA QuietFits ==
  ASSUME TypeInv, def.cap # 0, Within(0), NEW w \in Workers, Others(w), Steady,
         worker'[w].at \notin {"create", "failed", "retry"}
  PROVE  Fits(w)
  <1>1. Promised(w)' = 0
    BY DEF Promised, At
  <1> QED
    BY <1>1, SteadyOpen, OpenType DEF Fits, Within, Others

LEMMA PlansFit ==
  ASSUME TypeInv, def.cap # 0, Within(0), NEW w \in Workers, NEW todo, Plans(w, todo),
         def' = def, rows' = rows,
         Cardinality({e \in todo : e.status = "queued"}) \in Nat,
         Within(Cardinality({e \in todo : e.status = "queued"}))
  PROVE  Fits(w)
  <1>1. worker'[w].todo = todo /\ worker'[w].at \in {"look", "create"}
    BY PlanFields
  <1>2. Promised(w)' \in {0, Cardinality({e \in todo : e.status = "queued"})}
    BY <1>1 DEF Promised, Queued, At
  <1>3. Open' = Open
    BY DEF Open
  <1> QED
    BY <1>2, <1>3, OpenType DEF Fits, Within

LEMMA CreateFits ==
  ASSUME PlanInv, def.cap # 0, NEW w \in Workers, Within(Promised(w)),
         NEW next \in worker[w].todo, Creates(w, next)
  PROVE  Fits(w)
  <1>1. TypeInv /\ Others(w) /\ At(w, "create") /\ Holding(w) /\ worker[w] \in Doing
    BY DEF PlanInv, TypeInv, ShapeInv, Creates
  <1>2. /\ IsFiniteSet(Queued(w)) /\ Cardinality(Queued(w)) \in Nat
        /\ Promised(w) = Cardinality(Queued(w))
    BY <1>1, PromisedType DEF Promised
  <1>3. IsFiniteSet(Open) /\ Cardinality(Open) \in Nat /\ def.cap \in Nat
    BY <1>1, OpenType
  <1>4. next.status \in {"queued", "skipped", "blocked"}
    BY <1>1 DEF Doing, Item
  <1>5. Queued(w)' = Queued(w) \ {next}
    BY DEF Queued, Creates
  <1>6. /\ Cardinality(Queued(w)') \in Nat
        /\ Cardinality(Queued(w)') = IF next \in Queued(w) THEN Cardinality(Queued(w)) - 1
                                                           ELSE Cardinality(Queued(w))
    BY <1>2, <1>5, FS_RemoveElement, FS_CardinalityType
  <1>7. Promised(w)' \in {0, Cardinality(Queued(w)')}
    BY DEF Promised, Creates, At
  <1>8. CASE next.status = "queued"
    <2>1. next \in Queued(w) /\ Open' = Open \cup {Len(rows) + 1} /\ Len(rows) + 1 \notin Open
      BY <1>1, <1>8, Grows DEF Creates, Queued, Open, Terminal, Successful
    <2>2. Cardinality(Open') = Cardinality(Open) + 1
      BY <1>3, <2>1, FS_AddElement
    <2>3. /\ Cardinality(Open') \in Nat /\ Promised(w)' \in Nat
          /\ Cardinality(Open') + Promised(w)' <= def.cap
      BY <1>2, <1>3, <1>6, <1>7, <2>1, <2>2 DEF Within
    <2> QED
      BY <1>1, <2>3 DEF Fits, Others
  <1>9. CASE next.status \in {"skipped", "blocked"}
    <2>1. next \notin Queued(w) /\ Open' = Open
      BY <1>1, <1>9, Grows DEF Creates, Queued, Open, Terminal, Successful
    <2>2. /\ Cardinality(Open') \in Nat /\ Promised(w)' \in Nat
          /\ Cardinality(Open') + Promised(w)' <= def.cap
      BY <1>2, <1>3, <1>6, <1>7, <2>1 DEF Within
    <2> QED
      BY <1>1, <2>2 DEF Fits, Others
  <1> QED
    BY <1>4, <1>8, <1>9

LEMMA RetryFits ==
  ASSUME TypeInv, def.cap # 0, NEW w \in Workers, Within(Promised(w)), Retries(w)
  PROVE  Fits(w)
  <1>1. Promised(w) = 1 /\ Promised(w)' = 0
    BY DEF Retries, Promised, At
  <1>2. Open' = Open \cup {Len(rows) + 1} /\ Len(rows) + 1 \notin Open
    BY Grows DEF Retries, Open, Terminal, Successful
  <1>3. /\ Cardinality(Open) \in Nat /\ def.cap \in Nat
        /\ Cardinality(Open') = Cardinality(Open) + 1
    BY <1>2, OpenType, FS_AddElement
  <1> QED
    BY <1>1, <1>3 DEF Fits, Within, Retries, Others

LEMMA RecordsFits ==
  ASSUME TypeInv, def.cap # 0, Within(0), NEW w \in Workers,
         NEW o \in RowStatus, Records(w, o)
  PROVE  Fits(w)
  <1> DEFINE i == worker[w].row
  <1>1. /\ Others(w) /\ worker'[w].at = FirstAdvance(rows[i].status, o)
        /\ i \in DOMAIN rows /\ rows[i].status \in Active
    BY RecordsFields
  <1>2. /\ DOMAIN rows' = DOMAIN rows /\ rows'[i].status = o
        /\ \A j \in DOMAIN rows : j # i => rows'[j] = rows[j]
    <2>1. \E v : rows' = [rows EXCEPT ![i] = [@ EXCEPT !.status = o, !.by = v]]
      BY DEF Records
    <2> QED
      BY <1>1, <2>1, StatusChange
  <1>3. i \in Open /\ Open' = IF o \in Terminal THEN Open \ {i} ELSE Open
    BY <1>1, <1>2 DEF Open, Active, Terminal, Successful
  <1>4. /\ IsFiniteSet(Open) /\ Cardinality(Open) \in Nat /\ def.cap \in Nat
        /\ Cardinality(Open') = IF o \in Terminal THEN Cardinality(Open) - 1 ELSE Cardinality(Open)
        /\ Cardinality(Open') \in Nat
    BY <1>3, OpenType, FS_RemoveElement, FS_CardinalityType
  <1>5. Promised(w)' \in {0, 1} /\ (o \notin Terminal => Promised(w)' = 0)
    <2>1. o \in Active \cup {"completed", "failed", "canceled"}
      BY RecordsFields DEF Ended
    <2>2. /\ worker'[w].at \in {"ack", "write", "scan", "failed"}
          /\ worker'[w].at = "failed" => o \in Terminal
      BY <1>1, <2>1 DEF FirstAdvance, Terminal
    <2> QED
      BY <2>2 DEF Promised, At
  <1> QED
    BY <1>1, <1>4, <1>5 DEF Fits, Within, Others

LEMMA OwnFits ==
  ASSUME SharedSession, CapFits, PlanInv, CapInv, def.cap # 0, NEW w \in Workers, Kind(w)
  PROVE  Fits(w)
  <1>1. TypeInv /\ Within(0) /\ Within(Promised(w))
    BY DEF PlanInv, CapInv
  <1>2. CASE Moves(w)
    <2>1. Steady /\ Others(w) /\ worker'[w].at \notin {"create", "failed", "retry"}
      BY <1>2 DEF Moves, SameSteps, Steady
    <2> QED
      BY <1>1, <2>1, QuietFits
  <1>3. CASE Claims(w)
    <2>1. Open' = Open
      BY <1>1, <1>3, ClaimsChange DEF Claims, Open, Terminal, Successful
    <2>2. Promised(w)' = 0
      BY <1>3 DEF Claims, Promised, At
    <2> QED
      BY <1>1, <1>3, <2>1, <2>2, OpenType DEF Fits, Within, Claims, Others
  <1>4. CASE Scan(w)
    <2>1. PICK off : Plans(w, ScanPlan(off))
      BY <1>4, ScanPlans
    <2>2. def' = def /\ rows' = rows
      BY <1>4 DEF Scan
    <2>3. /\ Cardinality({e \in ScanPlan(off) : e.status = "queued"}) \in Nat
          /\ Within(Cardinality({e \in ScanPlan(off) : e.status = "queued"}))
      BY <1>1, ScanFits
    <2> QED
      BY <1>1, <2>1, <2>2, <2>3, PlansFit
  <1>5. CASE FailurePolicy(w)
    <2> DEFINE failed == rows[worker[w].row].key
    <2>1. Plans(w, PolicyPlan(failed))
      BY <1>5, PolicyPlans
    <2>2. def' = def /\ rows' = rows
      BY <1>5 DEF FailurePolicy
    <2>3. \A k \in Keys : def.sources[k] = {}
      BY <1>1 DEF CapFits, TypeInv, ShapeInv
    <2> HIDE DEF failed
    <2>4. \A e \in PolicyPlan(failed) : e.status # "queued"
      BY <1>1, <2>3, PolicyKeys, PlansAreItems DEF PolicyItem, TypeInv
    <2>5. {e \in PolicyPlan(failed) : e.status = "queued"} = {}
      BY <2>4
    <2>6. /\ Cardinality({e \in PolicyPlan(failed) : e.status = "queued"}) \in Nat
          /\ Within(Cardinality({e \in PolicyPlan(failed) : e.status = "queued"}))
      BY <1>1, <2>5, FS_EmptySet
    <2> QED
      BY <1>1, <2>1, <2>2, <2>6, PlansFit
  <1>6. CASE StepFailed(w)
    <2>1. PICK at \in {"retry", "policy"} : Go(w, at)
      BY <1>6 DEF StepFailed
    <2>2. worker'[w].at = at /\ def' = def /\ Open' = Open /\ Promised(w) = 1
      BY <1>1, <1>6, <2>1, GoFields DEF StepFailed, Open, Promised, At
    <2>3. Promised(w)' \in {0, 1}
      BY <2>2 DEF Promised, At
    <2> QED
      BY <1>1, <2>2, <2>3, OpenType DEF Fits, Within
  <1>7. CASE Decides(w)
    <2>1. Steady
      BY <1>7 DEF Decides, Steady
    <2> QED
      BY <1>1, <1>7, <2>1, QuietFits DEF Decides
  <1>8. CASE update_workflow_run_status_and_record(w)
    <2>1. PICK at \in {"finish", "ack"} : Go(w, at)
      BY <1>8 DEF update_workflow_run_status_and_record
    <2>2. Steady /\ def' = def
      BY <1>8 DEF update_workflow_run_status_and_record, Steady
    <2> QED
      BY <1>1, <2>1, <2>2, GoFields, QuietFits
  <1>9. ASSUME NEW i \in DOMAIN rows, ActivateDue(w, i) PROVE Fits(w)
    <2>1. Steady
      BY <1>1, <1>9, DueChange DEF ActivateDue, Steady
    <2>2. Others(w) /\ worker'[w].at = "write"
      BY <1>1, <1>9 DEF ActivateDue, Others, Idle, TypeInv, ShapeInv
    <2> QED
      BY <1>1, <2>1, <2>2, QuietFits
  <1> QED
    BY <1>1, <1>2, <1>3, <1>4, <1>5, <1>6, <1>7, <1>8, <1>9, RetryFits, CreateFits, RecordsFits
       DEF Kind

LEMMA CapNext ==
  ASSUME SharedSession, CapFits, PlanInv, CapInv, PunctualNext
  PROVE  CapInv'
  <1>1. TypeInv /\ SoleInv
    BY DEF PlanInv
  <1>2. CASE Pauses
    BY <1>2 DEF Pauses, CapInv, Within, Promised, Queued, At, Open
  <1>3. ASSUME NEW w \in Workers, Kind(w), def'.cap # 0 PROVE CapInv'
    <2>1. Effects(w) /\ def' = def /\ def.cap # 0
      BY <1>1, <1>3, KindEffects DEF Effects, Others
    <2>2. Fits(w)
      BY <1>3, <2>1, OwnFits
    <2>3. /\ Promised(w)' \in Nat /\ Cardinality(Open') \in Nat /\ Cardinality(Open) \in Nat
          /\ def.cap \in Nat
      BY <1>1, <2>2, OpenType DEF Fits
    <2>4. Within(0)'
      BY <2>1, <2>2, <2>3 DEF Fits, Within
    <2>5. ASSUME NEW v \in Workers \ {w} PROVE Within(Promised(v))'
      <3>1. Promised(v)' = Promised(v)
        BY <2>1 DEF Effects, Others, Promised, Queued, At
      <3>2. Promised(v) \in Nat /\ Within(Promised(v))
        BY <2>1, PromisedType DEF CapInv
      <3>3. CASE Promised(v) = 0
        BY <2>1, <2>4, <3>1, <3>3 DEF Within
      <3>4. CASE Promised(v) # 0
        <4>1. Holding(v) /\ ~Holding(w)
          BY <1>1, <3>4, PromiserHolds, OneEngaged DEF Engaged
        <4>2. Cardinality(Open') <= Cardinality(Open)
          BY <2>2, <4>1 DEF Fits
        <4> QED
          BY <2>1, <2>3, <3>1, <3>2, <4>2 DEF Within
      <3> QED
        BY <3>3, <3>4
    <2>6. Within(Promised(w))'
      BY <2>1, <2>2 DEF Fits, Within
    <2> QED
      BY <2>4, <2>5, <2>6 DEF CapInv
  <1> QED
    BY <1>1, <1>2, <1>3, StepKinds DEF CapInv

LEMMA CapInit == CapFits /\ GraphInit => CapInv
  <1> SUFFICES ASSUME CapFits, GraphInit, def.cap # 0
               PROVE  Within(0) /\ \A w \in Workers : Within(Promised(w))
    BY DEF CapInv
  <1>1. \A w \in Workers : Promised(w) = 0
    BY DEF GraphInit, Idle, Promised, At
  <1>2. TypeInv /\ Cardinality(def.starts) <= def.cap
    BY InitTyped DEF CapFits, GraphInit
  <1>3. Cardinality(def.starts) \in Nat
    <2>1. def.starts \subseteq Keys
      <3>1. def \in DefinitionType
        BY GraphAssumption DEF GraphInit
      <3> QED
        BY <3>1 DEF DefinitionType
    <2> QED
      BY <2>1, GraphAssumption, FS_Subset, FS_CardinalityType
  <1>4. DOMAIN rows = 1..Cardinality(def.starts)
    BY DEF GraphInit
  <1>5. /\ Open \subseteq 1..Cardinality(def.starts)
        /\ IsFiniteSet(1..Cardinality(def.starts))
        /\ Cardinality(1..Cardinality(def.starts)) <= Cardinality(def.starts)
    <2>1. Open \subseteq 1..Cardinality(def.starts)
      BY <1>4 DEF Open
    <2>2. /\ IsFiniteSet(1..Cardinality(def.starts))
          /\ Cardinality(1..Cardinality(def.starts)) =
                IF 1 > Cardinality(def.starts) THEN 0 ELSE Cardinality(def.starts) - 1 + 1
      BY <1>3, FS_Interval
    <2> QED
      BY <1>3, <2>1, <2>2
  <1>6. Cardinality(Open) <= Cardinality(1..Cardinality(def.starts))
    BY <1>5, FS_Subset
  <1>7. Cardinality(1..Cardinality(def.starts)) \in Nat
    BY <1>5, FS_CardinalityType
  <1>8. Within(0)
    BY <1>2, <1>3, <1>5, <1>6, <1>7, OpenType DEF Within
  <1> QED
    BY <1>1, <1>8

\* In every graph of a shared session whose start steps fit and that queues no
\* compensation, the open steps never exceed fan_out.max_parallel as long as no
\* living worker outlasts a lease, although the count is taken once for a pass
\* and the step runs are inserted one by one.
THEOREM FanOutIsCappedHolds ==
  ASSUME SharedSession, CapFits
  PROVE  GraphSpec => [](Punctual => FanOutIsCapped)
  <1> DEFINE Inv == LooseInv /\ (Punctual => PlanInv /\ CapInv)
  <1>1. GraphInit => Inv
    BY LooseInit, PlanInit, CapInit
  <1>2. Inv /\ [GraphNext]_vars => Inv'
    BY LooseNext, PunctualStep, PlanNext, CapNext DEF Punctual
  <1>3. Inv => (Punctual => FanOutIsCapped)
    <2> SUFFICES ASSUME Inv, Punctual, def.cap # 0
                 PROVE  workflow_graph_active_parallel_count <= def.cap * (1 + stalls)
      BY DEF FanOutIsCapped
    <2>1. Within(0) /\ TypeInv /\ stalls = 0
      BY DEF CapInv, PlanInv, Punctual
    <2>2. Cardinality(Open) <= def.cap /\ def.cap \in Nat
      BY <2>1, OpenType DEF Within
    <2>3. def.cap * (1 + stalls) = def.cap
      BY <2>1, <2>2
    <2> QED
      BY <2>2, <2>3 DEF Open, workflow_graph_active_parallel_count
  <1> QED
    BY <1>1, <1>2, <1>3, PTL DEF GraphSpec
=============================================================================
