---------------------------- MODULE Replay_proofs ----------------------------
(***************************************************************************)
(* The replay, for every exchange, every bound, and any number of request  *)
(* threads and jobs: the bucketed position it keeps, as the lemmas on      *)
(* single operations lifted to every reachable position, the jobs of the   *)
(* control center that run it, the table of live processes beside them,    *)
(* the matching of an order against any recording, and the ticks, streamed *)
(* or loaded, of any files.                                                *)
(***************************************************************************)
EXTENDS Position, PositionBuckets_proofs, ReplayMatching, ReplayStream, ReplayJobs,
        LiveRuntimes, SequenceTheorems, FiniteSetTheorems


-----------------------------------------------------------------------------
(* Every reachable position has two legs of non-negative buckets.          *)
THEOREM TypeCorrect == Spec => []TypeOK
<1>1. Init => TypeOK
  BY DEF Init, TypeOK, EmptyPosition, PositionState, Leg, LegName
<1>2. TypeOK /\ [Next]_vars => TypeOK'
  <2> SUFFICES ASSUME TypeOK, [Next]_vars PROVE TypeOK'
    OBVIOUS
  <2>1. CASE Fill
    <3>1. PICK r \in Request, q \in 1..MaxFill :
             /\ position' = ApplyFill(position, r, q)
             /\ dealt' = IF r.offset = "Open" THEN [dealt EXCEPT ![OpenedLeg(r)] = @ + q]
                                              ELSE [dealt EXCEPT ![ClosedLeg(r)] = @ - q]
      BY <2>1 DEF Fill
    <3>2. q \in Int
      BY MaxFillAssumption
    <3>3. position' \in PositionState
      BY <3>1, <3>2, ApplyFillType DEF TypeOK
    <3>4. dealt' \in [LegName -> Int]
      <4>1. \A l \in LegName : dealt[l] + q \in Int /\ dealt[l] - q \in Int
        BY <3>2 DEF TypeOK
      <4>2. OpenedLeg(r) \in LegName /\ ClosedLeg(r) \in LegName
        BY DEF OpenedLeg, ClosedLeg, LegName
      <4>3. QED
        BY <3>1, <4>1, <4>2 DEF TypeOK
    <3>5. QED
      BY <3>3, <3>4 DEF TypeOK
  <2>2. CASE Roll
    BY <2>2, RollKeepsTotals DEF Roll, TypeOK
  <2>3. CASE UNCHANGED vars
    BY <2>3 DEF TypeOK, vars
  <2>4. QED
    BY <2>1, <2>2, <2>3 DEF Next
<1>3. QED
  BY <1>1, <1>2, PTL DEF Spec

(* What an accepted fill does to the totals and to what was dealt.          *)
LEMMA FillMovesBoth ==
    ASSUME TypeOK, Fill
    PROVE  \E l \in LegName, q \in 1..MaxFill :
               /\ \A k \in LegName \ {l} :
                     TotalQuantity(position'[k]) = TotalQuantity(position[k]) /\ dealt'[k] = dealt[k]
               /\ \/ /\ TotalQuantity(position[l]) + q <= MaxLots
                     /\ TotalQuantity(position'[l]) = TotalQuantity(position[l]) + q
                     /\ dealt'[l] = dealt[l] + q
                  \/ /\ q <= TotalQuantity(position[l])
                     /\ TotalQuantity(position'[l]) = TotalQuantity(position[l]) - q
                     /\ dealt'[l] = dealt[l] - q
<1>0. position \in PositionState /\ dealt \in [LegName -> Int]
  BY DEF TypeOK
<1>1. PICK r \in Request, q \in 1..MaxFill :
         /\ CloseRequestIsValid(position, r, q)
         /\ r.offset = "Open" => TotalQuantity(position[OpenedLeg(r)]) + q <= MaxLots
         /\ position' = ApplyFill(position, r, q)
         /\ dealt' = IF r.offset = "Open" THEN [dealt EXCEPT ![OpenedLeg(r)] = @ + q]
                                          ELSE [dealt EXCEPT ![ClosedLeg(r)] = @ - q]
  BY DEF Fill
<1>2. q \in Nat \ {0} /\ OpenedLeg(r) \in LegName /\ ClosedLeg(r) \in LegName
  BY MaxFillAssumption DEF OpenedLeg, ClosedLeg, LegName
<1>3. CASE r.offset = "Open"
  <2>1. /\ TotalQuantity(position'[OpenedLeg(r)]) = TotalQuantity(position[OpenedLeg(r)]) + q
        /\ \A l \in LegName \ {OpenedLeg(r)} : position'[l] = position[l]
    BY <1>0, <1>1, <1>2, <1>3, OpenIsExact
  <2>2. /\ dealt'[OpenedLeg(r)] = dealt[OpenedLeg(r)] + q
        /\ \A l \in LegName \ {OpenedLeg(r)} : dealt'[l] = dealt[l]
    BY <1>0, <1>1, <1>2, <1>3
  <2>3. QED
    BY <1>1, <1>2, <1>3, <2>1, <2>2
<1>4. CASE r.offset # "Open"
  <2>1. /\ TotalQuantity(position'[ClosedLeg(r)]) = TotalQuantity(position[ClosedLeg(r)]) - q
        /\ q <= TotalQuantity(position[ClosedLeg(r)])
        /\ \A l \in LegName \ {ClosedLeg(r)} : position'[l] = position[l]
    BY <1>0, <1>1, <1>2, <1>4, AcceptedCloseIsExact
  <2>2. /\ dealt'[ClosedLeg(r)] = dealt[ClosedLeg(r)] - q
        /\ \A l \in LegName \ {ClosedLeg(r)} : dealt'[l] = dealt[l]
    BY <1>0, <1>1, <1>2, <1>4
  <2>3. QED
    BY <1>1, <1>2, <1>4, <2>1, <2>2
<1>5. QED
  BY <1>3, <1>4

(* The book holds exactly what the exchange dealt, however fills and day    *)
(* rolls follow each other: no accepted close is cut short by a clamp.      *)
THEOREM BookIsExact == Spec => []BookMatchesFills
<1>1. Init => BookMatchesFills
  BY DEF Init, BookMatchesFills, EmptyPosition, TotalQuantity
<1>2. TypeOK /\ BookMatchesFills /\ [Next]_vars => BookMatchesFills'
  <2> SUFFICES ASSUME TypeOK, BookMatchesFills, [Next]_vars PROVE BookMatchesFills'
    OBVIOUS
  <2>1. CASE Fill
    BY <2>1, FillMovesBoth DEF BookMatchesFills
  <2>2. CASE Roll
    BY <2>2, RollKeepsTotals DEF Roll, TypeOK, BookMatchesFills
  <2>3. CASE UNCHANGED vars
    BY <2>3 DEF BookMatchesFills, vars
  <2>4. QED
    BY <2>1, <2>2, <2>3 DEF Next
<1>3. QED
  BY <1>1, <1>2, TypeCorrect, PTL DEF Spec

(* The bucketed book implements the book of totals: an opening fill maps to *)
(* Totals!Open, an accepted close to Totals!Close, the day roll to a stutter.*)
THEOREM BookImplementsTotals == Spec => ImplementsTotals
<1> DEFINE tvars == <<TotalQuantity(position["long"]), TotalQuantity(position["short"])>>
<1>1. Init => Totals!Init
  BY DEF Init, Totals!Init, EmptyPosition, LegName, TotalQuantity
<1>2. TypeOK /\ [Next]_vars => [Totals!Next]_tvars
  <2> SUFFICES ASSUME TypeOK, [Next]_vars PROVE [Totals!Next]_tvars
    OBVIOUS
  <2>0. position \in PositionState
    BY DEF TypeOK
  <2>1. CASE Fill
    <3>1. PICK l \in LegName, q \in 1..MaxFill :
             /\ \A k \in LegName \ {l} : TotalQuantity(position'[k]) = TotalQuantity(position[k])
             /\ \/ /\ TotalQuantity(position[l]) + q <= MaxLots
                   /\ TotalQuantity(position'[l]) = TotalQuantity(position[l]) + q
                \/ /\ q <= TotalQuantity(position[l])
                   /\ TotalQuantity(position'[l]) = TotalQuantity(position[l]) - q
      BY <2>1, FillMovesBoth
    <3>2. TotalQuantity(position["long"]) \in Int /\ TotalQuantity(position["short"]) \in Int /\ q \in Int
      BY <2>0, MaxFillAssumption DEF PositionState, Leg, LegName, TotalQuantity
    <3> HIDE DEF tvars
    <3>3. Totals!Open \/ Totals!Close
      BY <3>1, <3>2 DEF Totals!Open, Totals!Close, LegName
    <3>4. QED
      BY <3>3 DEF Totals!Next
  <2>2. CASE Roll
    <3>1. \A l \in LegName : TotalQuantity(position'[l]) = TotalQuantity(position[l])
      BY <2>0, <2>2, RollKeepsTotals DEF Roll
    <3>2. QED
      BY <3>1 DEF LegName
  <2>3. CASE UNCHANGED vars
    BY <2>3 DEF vars
  <2>4. QED
    BY <2>1, <2>2, <2>3 DEF Next
<1>3. QED
  BY <1>1, <1>2, TypeCorrect, PTL DEF Spec, Totals!Spec, ImplementsTotals

\* A close of any size takes no carried lot back, and reaches today's lots only
\* past the carried ones, or without them.
LEMMA CloseKeepsAge ==
    ASSUME NEW leg \in Leg, NEW r \in Request, NEW q \in Nat
    PROVE  LegKeepsAge(leg, CloseLeg(leg, r, q))
<1>1. PICK d \in Nat, y \in Nat : leg = [today |-> d, yesterday |-> y]
  BY DEF Leg
<1>2. CASE r.offset = "CloseToday"
  <2>1. CloseLeg(leg, r, q) = [today |-> CloseBucket(d, q), yesterday |-> y]
    BY <1>1, <1>2 DEF CloseLeg
  <2> QED
    BY <1>1, <2>1 DEF LegKeepsAge
<1>3. CASE r.offset # "CloseToday" /\ (r.offset = "CloseYesterday" \/ ExchangeUsesCloseAsCloseYesterday(r.exchange))
  <2>1. CloseLeg(leg, r, q) = [today |-> d, yesterday |-> CloseBucket(y, q)]
    BY <1>1, <1>3 DEF CloseLeg
  <2>2. CloseBucket(y, q) <= y
    BY DEF CloseBucket, MinOf
  <2> QED
    BY <1>1, <2>1, <2>2 DEF LegKeepsAge, CloseBucket, MinOf
<1>4. CASE r.offset # "CloseToday" /\ r.offset # "CloseYesterday" /\ ~ExchangeUsesCloseAsCloseYesterday(r.exchange)
  <2>1. CloseLeg(leg, r, q) =
            [today |-> CloseBucket(d, q - MinOf(y, q)), yesterday |-> CloseBucket(y, MinOf(y, q))]
    BY <1>1, <1>4 DEF CloseLeg
  <2>2. CloseBucket(y, MinOf(y, q)) <= y
        /\ (CloseBucket(d, q - MinOf(y, q)) < d => CloseBucket(y, MinOf(y, q)) = 0)
    BY DEF CloseBucket, MinOf
  <2> QED
    BY <1>1, <2>1, <2>2 DEF LegKeepsAge, CloseBucket, MinOf
<1> QED
  BY <1>2, <1>3, <1>4

(* Carried lots only grow by the day roll, which carries everything, and no  *)
(* close reaches today's lots past carried ones it may spend (apply_fill,    *)
(* roll_position_to_next_trading_day).                                       *)
THEOREM LotsNeverChangeAge == Spec => LotsKeepTheirAge
<1>1. TypeOK /\ [Next]_vars => [\A l \in LegName : LegKeepsAge(position[l], position'[l])]_vars
  <2> SUFFICES ASSUME TypeOK, Next, NEW l \in LegName
               PROVE  LegKeepsAge(position[l], position'[l])
    OBVIOUS
  <2>1. position \in PositionState /\ position[l] \in Leg
    BY DEF TypeOK, PositionState
  <2>2. PICK d \in Nat, y \in Nat : position[l] = [today |-> d, yesterday |-> y]
    BY <2>1 DEF Leg
  <2>3. CASE Fill
    <3>1. PICK r \in Request, q \in 1 .. MaxFill : position' = ApplyFill(position, r, q)
      BY <2>3 DEF Fill
    <3>2. q \in Nat /\ q > 0
      BY MaxFillAssumption
    <3>3. CASE r.offset = "Open"
      <4>1. position' = [position EXCEPT ![OpenedLeg(r)].today = @ + q]
        BY <3>1, <3>2, <3>3 DEF ApplyFill
      <4>2. position'[l] = position[l] \/ position'[l] = [today |-> d + q, yesterday |-> y]
        BY <2>1, <2>2, <4>1 DEF PositionState
      <4> QED
        BY <2>2, <3>2, <4>2 DEF LegKeepsAge
    <3>4. CASE r.offset # "Open"
      <4>1. position' = [position EXCEPT ![ClosedLeg(r)] = CloseLeg(@, r, q)]
        BY <3>1, <3>2, <3>4 DEF ApplyFill
      <4>2. position'[l] = position[l] \/ position'[l] = CloseLeg(position[l], r, q)
        BY <2>1, <4>1 DEF PositionState
      <4>3. LegKeepsAge(position[l], position[l])
        BY <2>2 DEF LegKeepsAge
      <4> QED
        BY <2>1, <3>2, <4>2, <4>3, CloseKeepsAge
    <3> QED
      BY <3>3, <3>4
  <2>4. CASE Roll
    <3>1. position'[l] = [today |-> 0, yesterday |-> TotalQuantity(position[l])]
      BY <2>4 DEF Roll, RollPositionToNextTradingDay
    <3> QED
      BY <2>2, <3>1 DEF LegKeepsAge, TotalQuantity
  <2> QED
    BY <2>3, <2>4 DEF Next
<1> QED
  BY <1>1, TypeCorrect, PTL DEF LotsKeepTheirAge, Spec

-----------------------------------------------------------------------------
(* Replay jobs.                                                            *)

Job == [status : Ended \union {"queued", "running", "cancelling"}, cancel : BOOLEAN,
        worker : {"starting", "replaying", "over"}]

JobsTypeOK ==
    /\ jobs \in Seq(Job)
    /\ current = Len(jobs)
    /\ cancelling \in [Cancellers -> [pc : {"idle", "found", "requested"}, job : Nat]]

\* A cancel request holds the number of a job, and has flagged it before it
\* touches the status.
RequestsHoldAJob ==
    \A c \in Cancellers : cancelling[c].pc # "idle" =>
        /\ cancelling[c].job \in 1..Len(jobs)
        /\ cancelling[c].pc = "requested" => jobs[cancelling[c].job].cancel

\* What keeps a second start away from a replay nobody asked to stop: its
\* status is one of the two that hand the job back.
UncancelledSaySo ==
    \A j \in 1..Len(jobs) :
        jobs[j].worker # "over" /\ ~jobs[j].cancel => jobs[j].status \in {"queued", "running"}

JobsInv == JobsTypeOK /\ RequestsHoldAJob /\ UncancelledSaySo /\ NoJobIsLost

\* A start finds the newest job over or flagged, so that the job it replaces
\* is not one that must stay reachable.
LEMMA StartKeepsJobs == JobsInv /\ start_backtest_replay_job => JobsInv'
<1> SUFFICES ASSUME JobsInv, start_backtest_replay_job PROVE JobsInv'
  OBVIOUS
<1> USE DEF JobsInv, JobsTypeOK
<1>1. NewJob \in Job
  BY DEF NewJob, Job
<1>2. /\ jobs' \in Seq(Job) /\ Len(jobs') = Len(jobs) + 1 /\ Len(jobs) \in Nat
      /\ jobs'[Len(jobs) + 1] = NewJob
      /\ \A j \in 1..Len(jobs) : jobs'[j] = jobs[j]
  BY <1>1, AppendProperties DEF start_backtest_replay_job
<1>3. JobsTypeOK'
  BY <1>2 DEF start_backtest_replay_job
<1>4. RequestsHoldAJob'
  BY <1>2 DEF start_backtest_replay_job, RequestsHoldAJob
<1>5. UncancelledSaySo'
  BY <1>2 DEF UncancelledSaySo, NewJob
<1>6. \A j \in 1..Len(jobs) : jobs[j].worker # "over" => jobs[j].cancel
  BY <1>2 DEF UncancelledSaySo, NoJobIsLost, RunningIsReachable, start_backtest_replay_job, ReturnsExisting
<1>7. NoJobIsLost'
  BY <1>2, <1>6 DEF NoJobIsLost, RunningIsReachable, EndedJobsSaySo, NewJob, start_backtest_replay_job
<1> QED
  BY <1>3, <1>4, <1>5, <1>7

\* The worker's own steps keep a job that nobody flagged in the two statuses,
\* and its last one says how the job ended.
LEMMA WorkerKeepsJobs ==
    ASSUME JobsInv, NEW j \in 1..Len(jobs), Worker(j)
    PROVE  JobsInv'
<1> USE DEF JobsInv, JobsTypeOK
<1>1. jobs[j] \in Job
  BY ElementOfSeq
<1>2. PICK job \in Job :
        /\ jobs' = [jobs EXCEPT ![j] = job]
        /\ job.cancel = jobs[j].cancel
        /\ jobs[j].worker # "over"
        /\ job.worker # "over" /\ ~job.cancel => job.status \in {"queued", "running"}
        /\ job.worker = "over" => job.status \in Ended
  <2>1. CASE WorkerBegins(j)
    <3> DEFINE new == [jobs[j] EXCEPT !.worker = "replaying", !.status = "running"]
    <3>1. new \in Job
      BY <1>1 DEF Job
    <3>2. jobs' = [jobs EXCEPT ![j] = new] /\ jobs[j].worker # "over"
      BY <2>1 DEF WorkerBegins
    <3>3. new.cancel = jobs[j].cancel /\ new.worker # "over" /\ new.status = "running"
      BY <1>1 DEF Job
    <3> QED BY <3>1, <3>2, <3>3
  <2>2. CASE on_progress(j)
    <3> DEFINE new == [jobs[j] EXCEPT !.status = IF jobs[j].cancel THEN "cancelling" ELSE "running"]
    <3>1. new \in Job
      BY <1>1 DEF Job
    <3>2. jobs' = [jobs EXCEPT ![j] = new] /\ jobs[j].worker = "replaying"
      BY <2>2 DEF on_progress
    <3>3. /\ new.cancel = jobs[j].cancel /\ new.worker = jobs[j].worker
          /\ ~new.cancel => new.status = "running"
      BY <1>1 DEF Job
    <3> QED BY <3>1, <3>2, <3>3
  <2>3. CASE WorkerEnds(j)
    <3>1. PICK outcome \in {"completed", "failed"} :
            jobs' = [jobs EXCEPT ![j].worker = "over",
                                 ![j].status = IF jobs[j].cancel THEN "cancelled" ELSE outcome]
      BY <2>3 DEF WorkerEnds
    <3> DEFINE new == [jobs[j] EXCEPT !.worker = "over",
                                      !.status = IF jobs[j].cancel THEN "cancelled" ELSE outcome]
    <3>2. new \in Job
      BY <1>1 DEF Job, Ended
    <3>3. jobs' = [jobs EXCEPT ![j] = new] /\ jobs[j].worker # "over"
      BY <2>3, <3>1 DEF WorkerEnds
    <3>4. new.cancel = jobs[j].cancel /\ new.worker = "over" /\ new.status \in Ended
      BY <1>1 DEF Job, Ended
    <3> QED BY <3>2, <3>3, <3>4
  <2> QED
    BY <2>1, <2>2, <2>3 DEF Worker
<1>3. /\ jobs' \in Seq(Job) /\ Len(jobs') = Len(jobs) /\ jobs'[j] = job
      /\ \A i \in 1..Len(jobs) : i # j => jobs'[i] = jobs[i]
  BY <1>2, ExceptSeq
<1>4. UNCHANGED <<current, cancelling>>
  BY DEF Worker, WorkerBegins, on_progress, WorkerEnds
<1>5. RequestsHoldAJob'
  BY <1>2, <1>3, <1>4 DEF RequestsHoldAJob
<1>6. UncancelledSaySo'
  BY <1>2, <1>3 DEF UncancelledSaySo
<1>7. NoJobIsLost'
  BY <1>2, <1>3, <1>4 DEF NoJobIsLost, RunningIsReachable, EndedJobsSaySo
<1> QED
  BY <1>3, <1>4, <1>5, <1>6, <1>7

\* A cancel moves the status only of a job that it has flagged, and leaves
\* alone one that is over.
LEMMA CancelKeepsJobs ==
    ASSUME JobsInv, NEW c \in Cancellers,
           find_backtest_job(c) \/ request_cancel(c) \/ cancel_backtest_replay_job(c)
    PROVE  JobsInv'
<1> USE DEF JobsInv, JobsTypeOK
<1>1. CASE find_backtest_job(c)
  <2>1. /\ jobs' = jobs /\ current' = current /\ current \in 1..Len(jobs)
        /\ cancelling' = [cancelling EXCEPT ![c] = [pc |-> "found", job |-> current]]
    BY <1>1, LenProperties DEF find_backtest_job
  <2>2. /\ cancelling' \in [Cancellers -> [pc : {"idle", "found", "requested"}, job : Nat]]
        /\ cancelling'[c].job \in 1..Len(jobs) /\ cancelling'[c].pc = "found"
        /\ \A d \in Cancellers : d # c => cancelling'[d] = cancelling[d]
    BY <2>1
  <2>3. RequestsHoldAJob'
    BY <2>1, <2>2 DEF RequestsHoldAJob
  <2>4. UncancelledSaySo' /\ NoJobIsLost'
    BY <2>1 DEF UncancelledSaySo, NoJobIsLost, RunningIsReachable, EndedJobsSaySo
  <2> QED
    BY <2>1, <2>2, <2>3, <2>4
<1> DEFINE j == cancelling[c].job
<1>2. CASE request_cancel(c)
  <2>1. j \in 1..Len(jobs) /\ jobs[j] \in Job
    BY <1>2, ElementOfSeq DEF RequestsHoldAJob, request_cancel
  <2> DEFINE new == [jobs[j] EXCEPT !.cancel = TRUE]
  <2>2. /\ jobs' = [jobs EXCEPT ![j] = new] /\ new \in Job
        /\ new.cancel /\ new.worker = jobs[j].worker /\ new.status = jobs[j].status
    BY <1>2, <2>1 DEF request_cancel, Job
  <2> HIDE DEF new
  <2>3. /\ jobs' \in Seq(Job) /\ Len(jobs') = Len(jobs) /\ jobs'[j] = new
        /\ \A i \in 1..Len(jobs) : i # j => jobs'[i] = jobs[i]
    BY <2>1, <2>2, ExceptSeq
  <2>4. /\ current' = current /\ \A d \in Cancellers : cancelling'[d].job = cancelling[d].job
        /\ \A d \in Cancellers : d # c => cancelling'[d].pc = cancelling[d].pc
        /\ cancelling' \in [Cancellers -> [pc : {"idle", "found", "requested"}, job : Nat]]
    BY <1>2 DEF request_cancel
  <2>5. /\ cancelling'[c].job = j
        /\ jobs'[j].cancel /\ jobs'[j].worker = jobs[j].worker /\ jobs'[j].status = jobs[j].status
    BY <2>2, <2>3, <2>4
  <2>6. RequestsHoldAJob'
    <3>1. \A i \in 1..Len(jobs) : jobs[i].cancel => jobs'[i].cancel
      BY <2>3, <2>5
    <3> QED BY <2>1, <2>3, <2>4, <2>5, <3>1 DEF RequestsHoldAJob
  <2>7. UncancelledSaySo' /\ NoJobIsLost'
    <3> HIDE DEF j
    <3>1. /\ Len(jobs') = Len(jobs) /\ current' = current
          /\ \A i \in 1..Len(jobs) : /\ jobs'[i].worker = jobs[i].worker
                                     /\ jobs'[i].status = jobs[i].status
                                     /\ ~jobs'[i].cancel => ~jobs[i].cancel
      BY <2>1, <2>3, <2>4, <2>5
    <3> QED BY <3>1 DEF UncancelledSaySo, NoJobIsLost, RunningIsReachable, EndedJobsSaySo
  <2> QED
    BY <2>3, <2>4, <2>6, <2>7
<1>3. CASE cancel_backtest_replay_job(c)
  <2>1. j \in 1..Len(jobs) /\ jobs[j] \in Job /\ jobs[j].cancel
    BY <1>3, ElementOfSeq DEF RequestsHoldAJob, cancel_backtest_replay_job
  <2>2. /\ Cancelled(jobs[j]) \in Job /\ Cancelled(jobs[j]).cancel
        /\ Cancelled(jobs[j]).worker = jobs[j].worker
        /\ jobs[j].status \in Ended => Cancelled(jobs[j]).status = jobs[j].status
    BY <2>1 DEF Cancelled, Job, Ended
  <2>3. /\ jobs' \in Seq(Job) /\ Len(jobs') = Len(jobs)
        /\ jobs'[j] = Cancelled(jobs[j])
        /\ \A i \in 1..Len(jobs) : i # j => jobs'[i] = jobs[i]
    BY <1>3, <2>1, <2>2, ExceptSeq DEF cancel_backtest_replay_job
  <2>4. /\ current' = current
        /\ cancelling' = [cancelling EXCEPT ![c] = [pc |-> "idle", job |-> 0]]
    BY <1>3 DEF cancel_backtest_replay_job, NoRequest
  <2>5. RequestsHoldAJob'
    BY <2>1, <2>2, <2>3, <2>4 DEF RequestsHoldAJob
  <2>6. UncancelledSaySo' /\ NoJobIsLost'
    BY <2>1, <2>2, <2>3, <2>4, ZenonT(60)
       DEF UncancelledSaySo, NoJobIsLost, RunningIsReachable, EndedJobsSaySo
  <2> QED
    BY <2>3, <2>4, <2>5, <2>6
<1> QED
  BY <1>1, <1>2, <1>3

(* However starts, cancels and the workers' reports interleave, a replay     *)
(* nobody asked to stop is the job the server hands out, and a job whose     *)
(* worker is gone says how it ended (backtest jobs of ui_api_server.cpp).    *)
THEOREM NoJobIsEverLost == JobsSpec => []NoJobIsLost
<1>1. JobsInit => JobsInv
  BY DEF JobsInit, JobsInv, JobsTypeOK, RequestsHoldAJob, UncancelledSaySo, NoJobIsLost,
         RunningIsReachable, EndedJobsSaySo, NoRequest
<1>2. JobsInv /\ [JobsNext]_jobVars => JobsInv'
  <2> SUFFICES ASSUME JobsInv, [JobsNext]_jobVars PROVE JobsInv'
    OBVIOUS
  <2>1. CASE UNCHANGED jobVars
    BY <2>1 DEF jobVars, JobsInv, JobsTypeOK, RequestsHoldAJob, UncancelledSaySo, NoJobIsLost,
                RunningIsReachable, EndedJobsSaySo
  <2>2. CASE JobsNext
    BY <2>2, StartKeepsJobs, WorkerKeepsJobs, CancelKeepsJobs DEF JobsNext
  <2> QED
    BY <2>1, <2>2
<1>3. JobsInv => NoJobIsLost
  BY DEF JobsInv
<1> QED
  BY <1>1, <1>2, <1>3, PTL DEF JobsSpec

-----------------------------------------------------------------------------
(* The table of live processes.                                            *)

LastOf(S) == Max(S)
Item(a, i) == a[i]
Adopt(e, found, table) == adopt_live_runtime_process(table, found)

Adopting == INSTANCE FoldFacts WITH Op <- Adopt, Pick <- LastOf, At <- Item

RuntimesSpec == RuntimesInit /\ [][RuntimesNext]_runtimeVars

Configs == {run[1] : run \in Runs}

Slot == [pid : TraderPids \union {NoPid}, running : BOOLEAN, config : Configs, ids : SUBSET Strategies]

Keys == Configs \X (SUBSET Strategies) \X (TraderPids \union {NoPid})

Process == [alive : BOOLEAN, run : Runs \union {<<>>}, by : {"none", "dashboard", "hand"},
            blind : BOOLEAN]

\* A slot whose key names a process is that process's.
IsTable(table) ==
    /\ table = [k \in DOMAIN table |-> table[k]]
    /\ \A k \in DOMAIN table : table[k] \in Slot /\ (k[3] \in TraderPids => table[k].pid = k[3])

Tables == {table \in UNION {[D -> Slot] : D \in SUBSET Keys} :
              IsTable(table)}

RuntimesTyped ==
    /\ os \in [TraderPids -> Process]
    /\ \A p \in TradersAlive : os[p].run \in Runs
    /\ files \in [Runs -> SUBSET Strategies]
    /\ slots \in Tables
    /\ starts \in [Starters -> [pc : {"idle", "writing", "launch"}, run : Runs \union {<<>>}]]
    /\ \A c \in Starters : starts[c].pc # "idle" => starts[c].run \in Runs

Sees(table, found) == \E k \in DOMAIN table : table[k] = found

LEMMA KeyTyped ==
    ASSUME NEW run \in Runs
    PROVE  /\ run[1] \in Configs /\ run[2] \in SUBSET Strategies
           /\ live_runtime_key(run) = <<run[1], run[2], NoPid>>
BY RuntimesAssumption DEF Configs, live_runtime_key

\* Putting a slot under a key.
LEMMA PutKeeps ==
    ASSUME NEW table \in Tables, NEW slot \in Slot, NEW new,
           NEW key \in Keys,
           key[3] \in TraderPids => slot.pid = key[3],
           new = Put(table, key, slot)
    PROVE  /\ new \in Tables
           /\ Sees(new, slot)
           /\ \A other : Sees(table, other) /\ (key \in DOMAIN table => table[key] # other)
                  => Sees(new, other)
<1>1. PICK D \in SUBSET Keys : table \in [D -> Slot] /\ DOMAIN table = D
  BY DEF Tables
<1>2. /\ DOMAIN new = D \union {key}
      /\ \A k \in D \union {key} : new[k] = IF k = key THEN slot ELSE table[k]
      /\ new = [k \in D \union {key} |-> new[k]]
  BY <1>1 DEF Put
<1>3. D \union {key} \in SUBSET Keys
  OBVIOUS
<1>4. new \in [D \union {key} -> Slot]
  BY <1>1, <1>2
<1>5. IsTable(new)
  <2>1. \A k \in D : k[3] \in TraderPids => table[k].pid = k[3]
    BY <1>1 DEF Tables, IsTable
  <2>2. \A k \in DOMAIN new : new[k] \in Slot
    BY <1>2, <1>4
  <2>3. \A k \in DOMAIN new : k[3] \in TraderPids => new[k].pid = k[3]
    BY <1>2, <2>1
  <2>4. new = [k \in DOMAIN new |-> new[k]]
    BY <1>2
  <2> QED
    BY <2>2, <2>3, <2>4 DEF IsTable
<1>6. new \in Tables
  BY <1>3, <1>4, <1>5 DEF Tables
<1>7. Sees(new, slot)
  BY <1>2 DEF Sees
<1>8. ASSUME NEW other, Sees(table, other), key \in DOMAIN table => table[key] # other
      PROVE  Sees(new, other)
  BY <1>1, <1>2, <1>8 DEF Sees
<1> QED
  BY <1>6, <1>7, <1>8

Adopted(table, found, new) ==
    /\ new \in Tables
    /\ Sees(new, found)
    /\ \A other \in Slot : other.pid # found.pid /\ other.running /\ Sees(table, other) => Sees(new, other)

\* A process that is adopted takes no slot from another one that runs.
LEMMA AdoptionSees ==
    ASSUME NEW table \in Tables, NEW found \in Slot, found.pid \in TraderPids, found.running,
           NEW new, new = adopt_live_runtime_process(table, found)
    PROVE  Adopted(table, found, new)
<1> DEFINE known == {k \in DOMAIN table : table[k].pid = found.pid}
           key == live_runtime_key(<<found.config, found.ids>>)
           taken == key \in DOMAIN table /\ table[key].running /\ table[key].pid # found.pid
           own == <<found.config, found.ids, found.pid>>
<1>1. key = <<found.config, found.ids, NoPid>> /\ key \in Keys /\ own \in Keys /\ own[3] = found.pid
      /\ key[3] = NoPid
  <2>1. found.config \in Configs /\ found.ids \in SUBSET Strategies
    BY DEF Slot
  <2>2. key = <<found.config, found.ids, NoPid>>
    BY DEF live_runtime_key
  <2> QED
    BY <2>1, <2>2 DEF Keys
<1>2. DOMAIN table \in SUBSET Keys /\ \A k \in DOMAIN table : table[k] \in Slot
      /\ (k[3] \in TraderPids => table[k].pid = k[3])
  BY DEF Tables, IsTable
<1>3. new = Put(table, IF known # {} THEN CHOOSE k \in known : TRUE ELSE IF taken THEN own ELSE key, found)
  BY DEF adopt_live_runtime_process
<1>4. CASE known # {}
  <2>1. PICK k : k = (CHOOSE kk \in known : TRUE)
    OBVIOUS
  <2>2. k \in known
    BY <1>4, <2>1
  <2>3. k \in Keys /\ (k[3] \in TraderPids => found.pid = k[3]) /\ table[k].pid = found.pid
    BY <1>2, <2>2 DEF Keys
  <2>4. new = Put(table, k, found)
    BY <1>3, <1>4, <2>1
  <2> QED
    BY <2>3, <2>4, PutKeeps DEF Adopted
<1>5. CASE known = {} /\ taken
  <2>1. own \notin DOMAIN table
    BY <1>1, <1>2, <1>5
  <2>2. new = Put(table, own, found)
    BY <1>3, <1>5
  <2> QED
    BY <1>1, <2>1, <2>2, PutKeeps DEF Adopted
<1>6. CASE known = {} /\ ~taken
  <2>1. key \in DOMAIN table => ~table[key].running
    BY <1>6
  <2>2. new = Put(table, key, found)
    BY <1>3, <1>6
  <2>3. key[3] \notin TraderPids
    BY <1>1, RuntimesAssumption
  <2> QED
    BY <1>1, <2>1, <2>2, <2>3, PutKeeps DEF Adopted
<1> QED
  BY <1>4, <1>5, <1>6

\* The list of the processes names each once.
LEMMA ListNamesEachOnce ==
    ASSUME NEW S, IsFiniteSet(S), NEW list, list = SetToSeq(S)
    PROVE  /\ Cardinality(S) \in Nat
           /\ list \in [1 .. Cardinality(S) -> S]
           /\ \A i, j \in 1 .. Cardinality(S) : list[i] = list[j] => i = j
           /\ \A x \in S : \E i \in 1 .. Cardinality(S) : list[i] = x
<1>1. PICK n \in Nat : n = Cardinality(S)
  BY FS_CardinalityType
<1>2. ExistsBijection(1 .. n, S)
  BY <1>1, FS_CardinalityType
<1>3. \E f \in [1 .. n -> S] : IsInjective(f)
  BY <1>2 DEF ExistsBijection, Bijection, Injection, IsInjective
<1>4. list \in [1 .. n -> S] /\ IsInjective(list)
  BY <1>1, <1>3 DEF SetToSeq
<1>5. list \in Injection(1 .. n, S)
  BY <1>4 DEF Injection, IsInjective
<1>6. IsFiniteSet(1 .. n) /\ Cardinality(1 .. n) = n
  BY FS_Interval
<1>7. list \in Surjection(1 .. n, S)
  BY <1>1, <1>5, <1>6, FS_Injection
<1> QED
  BY <1>1, <1>4, <1>7 DEF IsInjective, Surjection

\* Slots of different processes, each of which runs.
IsListing(seq, S) ==
    /\ S = 1 .. Len(seq) /\ Len(seq) \in Nat
    /\ \A i \in S : seq[i] \in Slot /\ seq[i].running /\ seq[i].pid \in TraderPids
    /\ \A i, j \in S : seq[i].pid = seq[j].pid => i = j

\* A table that has adopted a listing shows all of it, in whatever order it came.
LEMMA ListingSeen ==
    ASSUME NEW base \in Tables, NEW seq, NEW S, IsListing(seq, S), DOMAIN seq = S,
           NEW new, new = FoldLeft(adopt_live_runtime_process, base, seq)
    PROVE  new \in Tables /\ \A i \in S : Sees(new, seq[i])
<1>1. S \subseteq Int /\ IsFiniteSet(S)
  BY FS_Interval DEF IsListing
<1>2. Adopting!IsFiniteSet(S)
  BY <1>1 DEF Adopting!IsFiniteSet, IsFiniteSet
<1>3. Adopting!Chosen(S)
  <2> SUFFICES ASSUME NEW T \in SUBSET S, T # {}
               PROVE  LastOf(T) \in T
    BY DEF Adopting!Chosen
  <2>1. IsFiniteSet(T) /\ T \subseteq Int
    BY <1>1, FS_Subset
  <2>2. Adopting!IsFiniteSet(T)
    BY <2>1 DEF Adopting!IsFiniteSet, IsFiniteSet
  <2>3. \E m \in T : \A n \in T : m >= n
    BY <2>1, <2>2, Adopting!GreatestExists
  <2> QED
    BY <2>3 DEF LastOf, Max
<1>4. PICK f : f = Adopting!Fold(S, base, seq, 0)
  OBVIOUS
<1>5. ASSUME NEW T \in SUBSET S, T # {}
      PROVE  LastOf(T) \in T /\ f[T] = adopt_live_runtime_process(f[T \ {LastOf(T)}], seq[LastOf(T)])
  <2>1. Adopting!Solves(f, S, base, seq, 0)
    BY <1>1, <1>2, <1>3, <1>4, Adopting!FoldExists
  <2>2. f[T] = Adopt(0, Item(seq, LastOf(T)), f[T \ {LastOf(T)}])
    BY <1>5, <2>1 DEF Adopting!Solves
  <2> QED
    BY <1>3, <1>5, <2>2 DEF Adopting!Chosen, Adopt, Item
<1>9. new = f[S]
  BY <1>4 DEF FoldLeft, MapThenFoldSet, Adopting!Fold, Adopting!Solves, LastOf, Item, Adopt
<1> DEFINE Good == {T \in SUBSET S : f[T] \in Tables /\ \A i \in T : Sees(f[T], seq[i])}
<1>6. ASSUME NEW T \in SUBSET S, \A U \in SUBSET T : U # T => U \in Good
      PROVE  T \in Good
  <2>1. CASE T = {}
    <3>1. f[{}] = base
      BY <1>2, <1>3, <1>4, Adopting!FoldOfNothing
    <3> QED
      BY <2>1, <3>1
  <2>2. CASE T # {}
    <3>1. PICK m : m = LastOf(T)
      OBVIOUS
    <3>2. m \in T /\ f[T] = adopt_live_runtime_process(f[T \ {m}], seq[m])
      <4>1. LastOf(T) \in T /\ f[T] = adopt_live_runtime_process(f[T \ {LastOf(T)}], seq[LastOf(T)])
        BY <1>5, <2>2
      <4> QED
        BY <3>1, <4>1
    <3>3. T \ {m} \in SUBSET T /\ T \ {m} # T
      BY <3>2
    <3>4. T \ {m} \in Good
      BY <1>6, <3>3
    <3>5. PICK table \in Tables : table = f[T \ {m}]
      BY <3>4
    <3>6. PICK after : after = f[T]
      OBVIOUS
    <3>7. after = adopt_live_runtime_process(table, seq[m])
      BY <3>2, <3>5, <3>6
    <3>8. m \in S /\ seq[m] \in Slot /\ seq[m].running /\ seq[m].pid \in TraderPids
      BY <3>2 DEF IsListing
    <3>9. Adopted(table, seq[m], after)
      BY <3>7, <3>8, AdoptionSees
    <3>10. ASSUME NEW i \in T PROVE Sees(after, seq[i])
      <4>1. CASE i = m
        BY <3>9, <4>1 DEF Adopted
      <4>2. CASE i # m
        <5>1. seq[i] \in Slot /\ seq[i].running /\ seq[i].pid # seq[m].pid
          BY <3>8, <4>2 DEF IsListing
        <5>2. Sees(table, seq[i])
          BY <3>4, <3>5, <4>2
        <5> QED
          BY <3>9, <5>1, <5>2 DEF Adopted
      <4> QED
        BY <4>1, <4>2
    <3> QED
      BY <3>6, <3>9, <3>10 DEF Adopted
  <2> QED
    BY <2>1, <2>2
<1>7. SUBSET S \subseteq Good
  <2> HIDE DEF Good
  <2> QED
    BY <1>2, <1>6, Adopting!SubsetInduction
<1>8. S \in Good
  BY <1>7
<1> QED
  BY <1>8, <1>9

\* A poll notices which processes have ended.
LEMMA RefreshKeepsTable ==
    ASSUME RuntimesTyped, NEW table \in Tables, NEW new,
           new = [k \in DOMAIN table |-> refresh_live_runtime_process(table[k])]
    PROVE  /\ new \in Tables
           /\ \A p \in TradersAlive, slot \in Slot :
                  slot.pid = p /\ slot.running /\ Sees(table, slot) => Sees(new, slot)
<1>1. PICK D \in SUBSET Keys : table \in [D -> Slot] /\ DOMAIN table = D
  BY DEF Tables
<1>2. ASSUME NEW slot \in Slot
      PROVE  /\ refresh_live_runtime_process(slot) \in Slot
             /\ refresh_live_runtime_process(slot).pid = slot.pid
             /\ slot.pid \in TradersAlive /\ slot.running => refresh_live_runtime_process(slot) = slot
  <2>1. PICK running \in BOOLEAN : running = (slot.running /\ os[slot.pid].alive)
    OBVIOUS
  <2>2. refresh_live_runtime_process(slot) = [slot EXCEPT !.running = running]
    BY <2>1 DEF refresh_live_runtime_process
  <2>3. slot.pid \in TradersAlive /\ slot.running => running = TRUE
    BY <2>1 DEF TradersAlive
  <2>4. slot.running = TRUE => [slot EXCEPT !.running = TRUE] = slot
    BY DEF Slot
  <2>5. slot.running \in BOOLEAN
    BY DEF Slot
  <2>6. [slot EXCEPT !.running = running] \in Slot /\ [slot EXCEPT !.running = running].pid = slot.pid
    BY DEF Slot
  <2>7. slot.pid \in TradersAlive /\ slot.running => [slot EXCEPT !.running = running] = slot
    BY <2>3, <2>4, <2>5
  <2> QED
    BY <2>2, <2>6, <2>7
<1>3. new \in [D -> Slot] /\ DOMAIN new = D
  BY <1>1, <1>2
<1>4. \A k \in D : new[k].pid = table[k].pid
  BY <1>1, <1>2
<1>5. IsTable(new)
  <2>1. \A k \in D : k[3] \in TraderPids => table[k].pid = k[3]
    BY <1>1 DEF Tables, IsTable
  <2> QED
    BY <1>3, <1>4, <2>1 DEF IsTable
<1>6. new \in Tables
  BY <1>3, <1>5 DEF Tables
<1>7. ASSUME NEW p \in TradersAlive, NEW slot \in Slot, slot.pid = p, slot.running, Sees(table, slot)
      PROVE  Sees(new, slot)
  BY <1>1, <1>2, <1>7 DEF Sees
<1> QED
  BY <1>6, <1>7

Running(p) == [pid |-> p, running |-> TRUE, config |-> os[p].run[1], ids |-> os[p].run[2]]

\* A request that could see finds every process in the table, as it is.
LEMMA TableSees ==
    ASSUME RuntimesTyped, NEW listed \in BOOLEAN, NEW table,
           table = refresh_live_runtime_processes(listed)
    PROVE  /\ table \in Tables
           /\ ~Blind(listed) => \A p \in TradersAlive : Sees(table, Running(p))
<1>1. PICK seq : seq = discover_live_runtime_processes(listed)
  OBVIOUS
<1>2. PICK adopted : adopted = FoldLeft(adopt_live_runtime_process, slots, seq)
  OBVIOUS
<1>3. table = [k \in DOMAIN adopted |-> refresh_live_runtime_process(adopted[k])]
  BY <1>1, <1>2 DEF refresh_live_runtime_processes
<1>4. slots \in Tables
  BY DEF RuntimesTyped
<1>5. CASE ~listed
  <2>1. seq = <<>>
    BY <1>1, <1>5 DEF discover_live_runtime_processes
  <2>2. IsListing(seq, {}) /\ DOMAIN seq = {}
    BY <2>1 DEF IsListing
  <2>3. adopted \in Tables
    BY <1>2, <1>4, <2>2, ListingSeen
  <2> QED
    BY <1>3, <1>5, <2>3, RefreshKeepsTable DEF Blind
<1>6. CASE listed
  <2>1. IsFiniteSet(TradersAlive)
    BY RuntimesAssumption, FS_Subset DEF TradersAlive
  <2>2. PICK list : list = SetToSeq(TradersAlive)
    OBVIOUS
  <2>3. PICK n : n = Cardinality(TradersAlive)
    OBVIOUS
  <2>4. /\ n \in Nat /\ list \in [1 .. n -> TradersAlive]
        /\ \A i, j \in 1 .. n : list[i] = list[j] => i = j
        /\ \A p \in TradersAlive : \E i \in 1 .. n : list[i] = p
    BY <2>1, <2>2, <2>3, ListNamesEachOnce
  <2>5. seq = [i \in 1 .. n |-> Found(list[i])]
    BY <1>1, <1>6, <2>2, <2>3 DEF discover_live_runtime_processes
  <2>6. ASSUME NEW p \in TradersAlive
        PROVE  Found(p) \in Slot /\ Found(p).running /\ Found(p).pid = p /\ p \in TraderPids
    <3>1. os[p].run \in Runs /\ p \in TraderPids
      BY DEF RuntimesTyped, TradersAlive
    <3>2. PICK run \in Runs : run = os[p].run
      BY <3>1
    <3>3. run[1] \in Configs /\ strategy_ids_for_live_process_config(run) \in SUBSET Strategies
      BY DEF RuntimesTyped, Configs, strategy_ids_for_live_process_config
    <3> QED
      BY <3>1, <3>2, <3>3 DEF Found, Slot
  <2>7. DOMAIN seq = 1 .. n /\ Len(seq) = n /\ \A i \in 1 .. n : seq[i] = Found(list[i])
    <3>1. seq \in Seq(Slot)
      <4>1. \A i \in 1 .. n : Found(list[i]) \in Slot
        BY <2>4, <2>6
      <4> QED
        BY <2>4, <2>5, <4>1
    <3> QED
      BY <2>4, <2>5, <3>1
  <2>8. IsListing(seq, 1 .. n)
    <3>1. \A i \in 1 .. n : seq[i] \in Slot /\ seq[i].running /\ seq[i].pid \in TraderPids
                            /\ seq[i].pid = list[i]
      BY <2>4, <2>6, <2>7
    <3> QED
      BY <2>4, <2>7, <3>1 DEF IsListing
  <2>9. adopted \in Tables /\ \A i \in 1 .. n : Sees(adopted, seq[i])
    BY <1>2, <1>4, <2>7, <2>8, ListingSeen
  <2>10. table \in Tables
    BY <1>3, <2>9, RefreshKeepsTable
  <2>11. ASSUME ~Blind(listed), NEW p \in TradersAlive PROVE Sees(table, Running(p))
    <3>1. Found(p) = Running(p)
      BY <2>11 DEF Blind, Found, Running
    <3>2. PICK i \in 1 .. n : seq[i] = Found(p)
      BY <2>4, <2>7
    <3>3. Sees(adopted, Found(p))
      BY <2>9, <3>2
    <3>4. Sees(table, Found(p))
      BY <1>3, <2>6, <2>9, <3>3, RefreshKeepsTable
    <3> QED
      BY <3>1, <3>4
  <2> QED
    BY <2>10, <2>11
<1> QED
  BY <1>5, <1>6

-----------------------------------------------------------------------------
(* Starts, stops and deaths.                                               *)

RuntimesInv == RuntimesTyped /\ NoOverlap /\ StopTells

Shares(left, right) == left[1] = right[1] /\ Traded(left) \cap Traded(right) # {}

LEMMA SharingOverlaps ==
    ASSUME NEW left, NEW right, Shares(left, right)
    PROVE  left[1] = right[1] /\ live_runtime_strategy_ids_overlap(left[2], right[2])
BY DEF Shares, Traded, live_runtime_strategy_ids_overlap

\* Steps that start no process and answer no stop.
LEMMA NobodyStarts ==
    ASSUME RuntimesInv, RuntimesTyped',
           \A p \in TraderPids : os'[p].alive => os'[p] = os[p],
           ~answer'.ok
    PROVE  RuntimesInv'
<1>1. \A p \in TradersAlive' : p \in TradersAlive /\ os'[p] = os[p]
  BY DEF TradersAlive
<1>2. NoOverlap'
  BY <1>1 DEF RuntimesInv, NoOverlap
<1>3. StopTells'
  BY DEF StopTells
<1> QED
  BY <1>2, <1>3 DEF RuntimesInv

LEMMA RequestsTyped ==
    ASSUME RuntimesTyped, NEW c \in Starters, UNCHANGED os, slots' \in Tables,
           files' \in [Runs -> SUBSET Strategies],
           \/ starts' = starts
           \/ \E pc \in {"idle", "writing", "launch"}, run \in Runs \union {<<>>} :
                 /\ starts' = [starts EXCEPT ![c] = [pc |-> pc, run |-> run]]
                 /\ pc # "idle" => run \in Runs
    PROVE  RuntimesTyped'
<1>1. starts' \in [Starters -> [pc : {"idle", "writing", "launch"}, run : Runs \union {<<>>}]]
      /\ \A d \in Starters : starts'[d].pc # "idle" => starts'[d].run \in Runs
  <2>1. CASE starts' = starts
    BY <2>1 DEF RuntimesTyped
  <2>2. ASSUME NEW pc \in {"idle", "writing", "launch"}, NEW run \in Runs \union {<<>>},
               starts' = [starts EXCEPT ![c] = [pc |-> pc, run |-> run]],
               pc # "idle" => run \in Runs
        PROVE  starts' \in [Starters -> [pc : {"idle", "writing", "launch"}, run : Runs \union {<<>>}]]
               /\ \A d \in Starters : starts'[d].pc # "idle" => starts'[d].run \in Runs
    <3>1. PICK new : new = [pc |-> pc, run |-> run]
      OBVIOUS
    <3>2. new \in [pc : {"idle", "writing", "launch"}, run : Runs \union {<<>>}]
          /\ (new.pc # "idle" => new.run \in Runs)
      BY <2>2, <3>1
    <3>3. starts' = [starts EXCEPT ![c] = new]
      BY <2>2, <3>1
    <3>4. \A d \in Starters : starts'[d] = IF d = c THEN new ELSE starts[d]
      BY <3>3 DEF RuntimesTyped
    <3> QED
      BY <3>2, <3>3, <3>4 DEF RuntimesTyped
  <2> QED
    BY <2>1, <2>2
<1>2. os' = os /\ TradersAlive' = TradersAlive
  BY DEF TradersAlive
<1> QED
  BY <1>1, <1>2 DEF RuntimesTyped

LEMMA NoProcessTyped ==
    ASSUME NEW run \in Runs
    PROVE  /\ NoProcess(run) \in Slot
           /\ \A p \in TraderPids : [NoProcess(run) EXCEPT !.pid = p, !.running = TRUE] \in Slot
           /\ live_runtime_key(run) \in Keys /\ live_runtime_key(run)[3] \notin TraderPids
<1>1. /\ run[1] \in Configs /\ run[2] \in SUBSET Strategies
      /\ live_runtime_key(run) = <<run[1], run[2], NoPid>>
  BY KeyTyped
<1>2. NoProcess(run) = [pid |-> NoPid, running |-> FALSE, config |-> run[1], ids |-> run[2]]
  BY DEF NoProcess
<1>3. NoProcess(run) \in Slot
  BY <1>1, <1>2 DEF Slot
<1>4. ASSUME NEW p \in TraderPids
      PROVE  [NoProcess(run) EXCEPT !.pid = p, !.running = TRUE] \in Slot
  <2>1. PICK slot \in Slot : slot = NoProcess(run)
    BY <1>3
  <2>2. [slot EXCEPT !.pid = p, !.running = TRUE] \in Slot
    BY DEF Slot
  <2> QED
    BY <2>1, <2>2
<1>5. live_runtime_key(run) \in Keys
  BY <1>1 DEF Keys
<1>6. live_runtime_key(run)[3] \notin TraderPids
  BY <1>1, RuntimesAssumption
<1> QED
  BY <1>3, <1>4, <1>5, <1>6

LEMMA FilesWritten ==
    ASSUME RuntimesInv, NEW c \in Starters, write_text_file(c) \/ Written(c)
    PROVE  RuntimesInv'
<1>1. RuntimesTyped'
  <2>1. CASE write_text_file(c)
    <3>1. PICK run, part :
            /\ run \in Runs /\ part \in SUBSET run[2]
            /\ starts' = [starts EXCEPT ![c] = [pc |-> IF run[2] = {} THEN "launch" ELSE "writing",
                                                run |-> run]]
            /\ files' = [files EXCEPT ![run] = part]
      BY <2>1 DEF write_text_file
    <3>2. part \in SUBSET Strategies
      BY <3>1, RuntimesAssumption
    <3>3. files' \in [Runs -> SUBSET Strategies]
      BY <3>1, <3>2 DEF RuntimesInv, RuntimesTyped
    <3>4. \E pc \in {"idle", "writing", "launch"} :
            starts' = [starts EXCEPT ![c] = [pc |-> pc, run |-> run]]
      BY <3>1
    <3>5. UNCHANGED os /\ slots' \in Tables
      BY <2>1 DEF write_text_file, RuntimesInv, RuntimesTyped
    <3>6. RuntimesTyped
      BY DEF RuntimesInv
    <3>7. PICK pc \in {"idle", "writing", "launch"} :
            starts' = [starts EXCEPT ![c] = [pc |-> pc, run |-> run]]
      BY <3>4
    <3>8. run \in Runs /\ run \in Runs \union {<<>>}
      BY <3>1
    <3> QED
      BY <3>3, <3>5, <3>6, <3>7, <3>8, RequestsTyped
  <2>2. CASE Written(c)
    <3>1. starts[c] \in [pc : {"idle", "writing", "launch"}, run : Runs \union {<<>>}]
          /\ starts[c].run \in Runs
      BY <2>2 DEF Written, RuntimesInv, RuntimesTyped
    <3>2. PICK run \in Runs : run = starts[c].run
      BY <3>1
    <3>3. files' = [files EXCEPT ![run] = run[2]] /\ run[2] \in SUBSET Strategies
      BY <2>2, <3>2, RuntimesAssumption DEF Written
    <3>4. files' \in [Runs -> SUBSET Strategies]
      BY <3>3 DEF RuntimesInv, RuntimesTyped
    <3>5. [starts[c] EXCEPT !.pc = "launch"] = [pc |-> "launch", run |-> run]
      BY <3>1, <3>2
    <3>6. starts' = [starts EXCEPT ![c] = [pc |-> "launch", run |-> run]]
      BY <2>2, <3>5 DEF Written, RuntimesInv, RuntimesTyped
    <3>7. UNCHANGED os /\ slots' \in Tables
      BY <2>2 DEF Written, RuntimesInv, RuntimesTyped
    <3> QED
      BY <3>4, <3>6, <3>7, RequestsTyped DEF RuntimesInv
  <2> QED
    BY <2>1, <2>2
<1>2. UNCHANGED os /\ answer' = NoAnswer
  BY DEF write_text_file, Written
<1> QED
  BY <1>1, <1>2, NobodyStarts DEF NoAnswer

LEMMA StartFailsKeeps ==
    ASSUME RuntimesInv, NEW c \in Starters, TraderStartFails(c)
    PROVE  RuntimesInv'
<1>1. PICK run \in Runs : slots' = Put(slots, live_runtime_key(run), NoProcess(run))
  BY DEF TraderStartFails
<1>2. slots' \in Tables
  BY <1>1, NoProcessTyped, PutKeeps DEF RuntimesInv, RuntimesTyped
<1>3. /\ UNCHANGED <<os, files>> /\ answer' = NoAnswer
      /\ starts' = [starts EXCEPT ![c] = [pc |-> "idle", run |-> <<>>]]
  BY DEF TraderStartFails, NoStart
<1>4. RuntimesTyped'
  <2>1. files' \in [Runs -> SUBSET Strategies]
    BY <1>3 DEF RuntimesInv, RuntimesTyped
  <2> QED
    BY <1>2, <1>3, <2>1, RequestsTyped DEF RuntimesInv
<1> QED
  BY <1>3, <1>4, NobodyStarts DEF NoAnswer

\* A process that a start creates shares no strategy with one the start saw.
LEMMA StartKeeps ==
    ASSUME RuntimesInv, NEW c \in Starters, start_live_runtime(c)
    PROVE  RuntimesInv'
<1>0. RuntimesTyped
  BY DEF RuntimesInv
<1>1. PICK run, listed, table :
        /\ run = starts[c].run /\ listed \in BOOLEAN
        /\ table = refresh_live_runtime_processes(listed)
        /\ \/ (slots' = table \/ slots' = Put(table, live_runtime_key(run), NoProcess(run))) /\ UNCHANGED os
           \/ /\ ~Overlaps(table, run)
              /\ \E p \in FreeTraderIds :
                /\ os' = [os EXCEPT ![p] = [alive |-> TRUE, run |-> run, by |-> "dashboard",
                                            blind |-> Blind(listed)]]
                /\ slots' = Put(table, live_runtime_key(run), [NoProcess(run) EXCEPT !.pid = p, !.running = TRUE])
  BY DEF start_live_runtime
<1>2. run \in Runs
  BY <1>0, <1>1 DEF start_live_runtime, RuntimesTyped
<1>3. /\ starts' = [starts EXCEPT ![c] = [pc |-> "idle", run |-> <<>>]]
      /\ answer' = NoAnswer /\ files' = files /\ files' \in [Runs -> SUBSET Strategies]
  BY <1>0 DEF start_live_runtime, NoStart, RuntimesTyped
<1>4. table \in Tables /\ (~Blind(listed) => \A p \in TradersAlive : Sees(table, Running(p)))
  BY <1>0, <1>1, TableSees
<1>5. CASE (slots' = table \/ slots' = Put(table, live_runtime_key(run), NoProcess(run))) /\ UNCHANGED os
  <2>1. slots' \in Tables
    BY <1>2, <1>4, <1>5, NoProcessTyped, PutKeeps
  <2>2. RuntimesTyped'
    BY <1>0, <1>3, <1>5, <2>1, RequestsTyped
  <2> QED
    BY <1>3, <1>5, <2>2, NobodyStarts DEF NoAnswer
<1>6. ASSUME ~Overlaps(table, run), NEW p \in FreeTraderIds,
             os' = [os EXCEPT ![p] = [alive |-> TRUE, run |-> run, by |-> "dashboard",
                                      blind |-> Blind(listed)]],
             slots' = Put(table, live_runtime_key(run), [NoProcess(run) EXCEPT !.pid = p, !.running = TRUE])
      PROVE  RuntimesInv'
  <2>1. p \in TraderPids /\ p \notin TradersAlive
    BY DEF FreeTraderIds, TradersAlive
  <2>2. slots' \in Tables
    <3>1. PICK slot : slot = [NoProcess(run) EXCEPT !.pid = p, !.running = TRUE]
      OBVIOUS
    <3>2. slot \in Slot /\ live_runtime_key(run) \in Keys /\ live_runtime_key(run)[3] \notin TraderPids
      BY <1>2, <2>1, <3>1, NoProcessTyped
    <3>3. slots' = Put(table, live_runtime_key(run), slot)
      BY <1>6, <3>1
    <3> QED
      BY <1>4, <3>2, <3>3, PutKeeps
  <2>3. PICK blind \in BOOLEAN : blind = Blind(listed)
    BY DEF Blind
  <2>4. PICK new \in Process : new = [alive |-> TRUE, run |-> run, by |-> "dashboard", blind |-> blind]
    BY <1>2 DEF Process
  <2>5. os' = [os EXCEPT ![p] = new]
    BY <1>6, <2>3, <2>4
  <2>6. os' \in [TraderPids -> Process] /\ \A q \in TraderPids : os'[q] = IF q = p THEN new ELSE os[q]
    BY <1>0, <2>1, <2>5 DEF RuntimesTyped
  <2>7. TradersAlive' = TradersAlive \union {p}
    BY <2>1, <2>4, <2>6 DEF TradersAlive
  <2>8. RuntimesTyped'
    <3>1. \A q \in TradersAlive' : os'[q].run \in Runs
      BY <1>0, <1>2, <2>4, <2>6, <2>7 DEF RuntimesTyped, TradersAlive
    <3>2. /\ starts' \in [Starters -> [pc : {"idle", "writing", "launch"}, run : Runs \union {<<>>}]]
          /\ \A d \in Starters : starts'[d].pc # "idle" => starts'[d].run \in Runs
      <4>1. PICK idle : idle = [pc |-> "idle", run |-> <<>>]
        OBVIOUS
      <4>2. idle \in [pc : {"idle", "writing", "launch"}, run : Runs \union {<<>>}] /\ idle.pc = "idle"
        BY <4>1
      <4>3. starts' = [starts EXCEPT ![c] = idle]
        BY <1>3, <4>1
      <4>4. \A d \in Starters : starts'[d] = IF d = c THEN idle ELSE starts[d]
        BY <1>0, <4>3 DEF RuntimesTyped
      <4> QED
        BY <1>0, <4>2, <4>3, <4>4 DEF RuntimesTyped
    <3> QED
      BY <1>3, <2>2, <2>6, <3>1, <3>2 DEF RuntimesTyped
  <2>9. ASSUME ~blind, NEW q \in TradersAlive PROVE ~Shares(os[q].run, run)
    <3>1. Sees(table, Running(q))
      BY <1>4, <2>3, <2>9
    <3>2. PICK k \in DOMAIN table : table[k] = Running(q)
      BY <3>1 DEF Sees
    <3>3. table[k].running /\ table[k].config = os[q].run[1] /\ table[k].ids = os[q].run[2]
      BY <3>2 DEF Running
    <3>4. ~(table[k].config = run[1] /\ live_runtime_strategy_ids_overlap(table[k].ids, run[2]))
      BY <1>6, <3>3 DEF Overlaps, live_runtime_config_matches_requested
    <3> QED
      BY <3>3, <3>4, SharingOverlaps
  <2>10. NoOverlap'
    <3> SUFFICES ASSUME NEW a \in TradersAlive', NEW b \in TradersAlive', a # b,
                        os'[a].by = "dashboard", os'[b].by = "dashboard",
                        Shares(os'[a].run, os'[b].run)
                 PROVE  os'[a].blind \/ os'[b].blind
      BY DEF NoOverlap, Shares, Traded
    <3>1. CASE a # p /\ b # p
      BY <2>6, <2>7, <3>1 DEF RuntimesInv, NoOverlap, Shares, TradersAlive
    <3>2. CASE a = p
      <4>1. b \in TradersAlive /\ os'[b] = os[b] /\ os'[a] = new /\ new.run = run /\ new.blind = blind
        BY <2>4, <2>6, <2>7, <3>2 DEF TradersAlive
      <4>2. Shares(os[b].run, run)
        BY <4>1 DEF Shares
      <4> QED
        BY <2>9, <4>1, <4>2
    <3>3. CASE b = p
      <4>1. a \in TradersAlive /\ os'[a] = os[a] /\ os'[b] = new /\ new.run = run /\ new.blind = blind
        BY <2>4, <2>6, <2>7, <3>3 DEF TradersAlive
      <4>2. Shares(os[a].run, run)
        BY <4>1 DEF Shares
      <4> QED
        BY <2>9, <4>1, <4>2
    <3> QED
      BY <3>1, <3>2, <3>3
  <2>11. StopTells'
    BY <1>3 DEF StopTells, NoAnswer
  <2> QED
    BY <2>8, <2>10, <2>11 DEF RuntimesInv
<1> QED
  BY <1>1, <1>5, <1>6

\* A stop that could see and ended its targets ended all it was asked for.
LEMMA StopKeeps ==
    ASSUME RuntimesInv, NEW run \in Runs, stop_live_runtime(run)
    PROVE  RuntimesInv'
<1>0. RuntimesTyped
  BY DEF RuntimesInv
<1>1. PICK listed, table, targets, ended :
        /\ listed \in BOOLEAN /\ table = refresh_live_runtime_processes(listed)
        /\ targets = {table[k].pid : k \in Targets(table, run)} /\ ended \in SUBSET targets
        /\ os' = [p \in TraderPids |-> IF p \in ended THEN Gone ELSE os[p]]
        /\ slots' = stop_live_runtime_process(table, ended)
        /\ answer' = [ok |-> ended = targets, run |-> run, blind |-> Blind(listed)]
        /\ UNCHANGED <<files, starts, started>>
  BY DEF stop_live_runtime
<1>2. table \in Tables /\ (~Blind(listed) => \A p \in TradersAlive : Sees(table, Running(p)))
  BY <1>0, <1>1, TableSees
<1>3. slots' \in Tables
  <2>1. PICK D \in SUBSET Keys : table \in [D -> Slot] /\ DOMAIN table = D
    BY <1>2 DEF Tables
  <2>2. ASSUME NEW slot \in Slot, NEW on, on = (slot.running /\ slot.pid \notin ended)
        PROVE  [slot EXCEPT !.running = on] \in Slot /\ [slot EXCEPT !.running = on].pid = slot.pid
    <3>1. on \in BOOLEAN
      BY <2>2
    <3> QED
      BY <3>1 DEF Slot
  <2>3. \A k \in D : slots'[k] \in Slot /\ slots'[k].pid = table[k].pid
    BY <1>1, <2>1, <2>2 DEF stop_live_runtime_process
  <2>4. slots' \in [D -> Slot] /\ DOMAIN slots' = D
    BY <1>1, <2>1, <2>3 DEF stop_live_runtime_process
  <2>5. \A k \in D : k[3] \in TraderPids => table[k].pid = k[3]
    BY <1>2, <2>1 DEF Tables, IsTable
  <2>6. IsTable(slots')
    BY <2>3, <2>4, <2>5 DEF IsTable
  <2> QED
    BY <2>4, <2>6 DEF Tables
<1>4. \A p \in TraderPids : os'[p] = IF p \in ended THEN Gone ELSE os[p]
  BY <1>1
<1>5. Gone \in Process /\ ~Gone.alive
  BY DEF Gone, Process
<1>6. \A p \in TradersAlive' : p \in TradersAlive /\ p \notin ended /\ os'[p] = os[p]
  BY <1>4, <1>5 DEF TradersAlive
<1>7. RuntimesTyped'
  <2>1. os' \in [TraderPids -> Process]
    BY <1>0, <1>1, <1>5 DEF RuntimesTyped
  <2> QED
    BY <1>0, <1>1, <1>3, <1>6, <2>1 DEF RuntimesTyped
<1>8. NoOverlap'
  BY <1>6 DEF RuntimesInv, NoOverlap
<1>9. StopTells'
  <2> SUFFICES ASSUME answer'.ok, ~answer'.blind, NEW p \in TradersAlive',
                      os'[p].run[1] = answer'.run[1],
                      answer'.run[2] = {} \/ answer'.run[2] = os'[p].run[2]
               PROVE  FALSE
    BY DEF StopTells
  <2>1. answer'.run = run /\ ended = targets /\ ~Blind(listed)
    BY <1>1
  <2>2. p \in TradersAlive /\ p \notin ended /\ os'[p] = os[p]
    BY <1>6
  <2>3. PICK k \in DOMAIN table : table[k] = Running(p)
    BY <1>2, <2>1, <2>2 DEF Sees
  <2>4. /\ table[k].running /\ table[k].config = os[p].run[1] /\ table[k].ids = os[p].run[2]
        /\ table[k].pid = p
    BY <2>3 DEF Running
  <2>5. k \in Targets(table, run)
    BY <2>1, <2>2, <2>4 DEF Targets, live_runtime_config_matches_requested,
                            live_runtime_strategy_ids_match_requested
  <2> QED
    BY <1>1, <2>1, <2>2, <2>4, <2>5
<1> QED
  BY <1>7, <1>8, <1>9 DEF RuntimesInv

LEMMA ProcessesMove ==
    ASSUME RuntimesInv, NEW p \in TraderPids, TraderExits(p) \/ StartByHand(p)
    PROVE  RuntimesInv'
<1>0. RuntimesTyped
  BY DEF RuntimesInv
<1>1. answer' = NoAnswer /\ UNCHANGED <<files, slots, starts>>
  BY DEF TraderExits, StartByHand
<1>2. PICK new \in Process :
        /\ os' = [os EXCEPT ![p] = new]
        /\ new.alive => new.by = "hand" /\ new.run \in Runs
  <2>1. CASE TraderExits(p)
    <3>1. PICK gone : gone = Gone
      OBVIOUS
    <3>2. gone \in Process /\ ~gone.alive
      BY <3>1 DEF Gone, Process
    <3> QED
      BY <2>1, <3>1, <3>2 DEF TraderExits
  <2>2. CASE StartByHand(p)
    <3>1. PICK run \in ByHand : os' = [os EXCEPT ![p] = [alive |-> TRUE, run |-> run, by |-> "hand",
                                                          blind |-> FALSE]]
      BY <2>2 DEF StartByHand
    <3>2. run \in Runs
      BY RuntimesAssumption
    <3>3. PICK new : new = [alive |-> TRUE, run |-> run, by |-> "hand", blind |-> FALSE]
      OBVIOUS
    <3>4. new \in Process /\ new.by = "hand" /\ new.run \in Runs
      BY <3>2, <3>3 DEF Process
    <3> QED
      BY <3>1, <3>3, <3>4
  <2> QED
    BY <2>1, <2>2
<1>3. os' \in [TraderPids -> Process] /\ \A q \in TraderPids : os'[q] = IF q = p THEN new ELSE os[q]
  BY <1>0, <1>2 DEF RuntimesTyped
<1>4. \A q \in TradersAlive' : os'[q].run \in Runs
  BY <1>0, <1>2, <1>3 DEF RuntimesTyped, TradersAlive
<1>5. RuntimesTyped'
  BY <1>0, <1>1, <1>3, <1>4 DEF RuntimesTyped
<1>6. \A q \in TradersAlive' : os'[q].by = "dashboard" => q \in TradersAlive /\ os'[q] = os[q]
  BY <1>2, <1>3 DEF TradersAlive
<1>7. NoOverlap'
  BY <1>6 DEF RuntimesInv, NoOverlap
<1> QED
  BY <1>1, <1>5, <1>7 DEF RuntimesInv, StopTells, NoAnswer

LEMMA RuntimesStart ==
    ASSUME RuntimesInit
    PROVE  RuntimesInv
<1>1. TradersAlive = {}
  BY DEF RuntimesInit, TradersAlive, Gone
<1>2. slots \in Tables
  <2>1. PICK table : table = [k \in {} |-> k]
    OBVIOUS
  <2>2. slots = table
    BY <2>1 DEF RuntimesInit
  <2>3. table \in [{} -> Slot] /\ DOMAIN table = {}
    BY <2>1
  <2>4. {} \in SUBSET Keys
    OBVIOUS
  <2>5. table \in UNION {[D -> Slot] : D \in SUBSET Keys}
    BY <2>3, <2>4
  <2> QED
    BY <2>1, <2>2, <2>3, <2>5 DEF Tables, IsTable
<1>3. RuntimesTyped
  BY <1>1, <1>2 DEF RuntimesInit, RuntimesTyped, Process, Gone, NoStart
<1> QED
  BY <1>1, <1>3 DEF RuntimesInv, NoOverlap, StopTells

LEMMA RuntimesStep ==
    ASSUME RuntimesInv, [RuntimesNext]_runtimeVars
    PROVE  RuntimesInv'
<1>1. CASE make_live_runtime_json
  <2>1. PICK listed \in BOOLEAN : slots' = refresh_live_runtime_processes(listed)
    BY <1>1 DEF make_live_runtime_json
  <2>2. UNCHANGED <<os, files, starts>> /\ answer' = NoAnswer
    BY <1>1 DEF make_live_runtime_json
  <2>3. slots' \in Tables
    BY <2>1, TableSees DEF RuntimesInv
  <2>4. RuntimesTyped'
    BY <2>2, <2>3 DEF RuntimesInv, RuntimesTyped, TradersAlive
  <2> QED
    BY <2>2, <2>4, NobodyStarts DEF NoAnswer
<1>2. CASE UNCHANGED runtimeVars
  BY <1>2 DEF runtimeVars, RuntimesInv, RuntimesTyped, NoOverlap, StopTells, TradersAlive
<1> QED
  BY <1>1, <1>2, FilesWritten, StartFailsKeeps, StartKeeps, StopKeeps, ProcessesMove DEF RuntimesNext

(* Two processes the dashboard started share a strategy of a configuration   *)
(* only if one of the two starts could not see, for any number of            *)
(* configurations, strategies, requests and processes (start_live_runtime_   *)
(* json, refresh_live_runtime_processes_locked).                             *)
THEOREM StartsDoNotOverlap == RuntimesSpec => []NoOverlap
<1>1. RuntimesInv => NoOverlap
  BY DEF RuntimesInv
<1> QED
  BY <1>1, RuntimesStart, RuntimesStep, PTL DEF RuntimesSpec

(* A stop that answers ok and could see leaves nothing of its target alive,  *)
(* whatever became of the slots (stop_live_runtime_json).                    *)
THEOREM StopsTellTheTruth == RuntimesSpec => []StopTells
<1>1. RuntimesInv => StopTells
  BY DEF RuntimesInv
<1> QED
  BY <1>1, RuntimesStart, RuntimesStep, PTL DEF RuntimesSpec

-----------------------------------------------------------------------------
(***************************************************************************)
(* The matching of an order.  The flow of an interval is spread over prices *)
(* by integer divisions and by a fold that moves lots; what is proved of it *)
(* are sums over all prices, with the lemmas of FoldFacts.                  *)
(***************************************************************************)

AnyOf(S) == CHOOSE x \in S : TRUE
Add(e, n, m) == n + m
Worth(a, i) == i * a[i]

Adding == INSTANCE FoldFacts WITH Op <- Add, Pick <- AnyOf, At <- Item
Valuing == INSTANCE FoldFacts WITH Op <- Add, Pick <- AnyOf, At <- Worth

Lots == [Prices -> Nat]

\* F has the sums of f over the sets of prices.
SumsOf(F, f) == Adding!IsSum(F, Prices, f)

-----------------------------------------------------------------------------
(* Arithmetic.                                                             *)

LEMMA DivisionIsBelow ==
    ASSUME NEW n \in Int, NEW d \in Nat \ {0}
    PROVE  n \div d \in Int /\ d * (n \div d) <= n /\ n < d * (n \div d) + d
OBVIOUS

LEMMA ProductsCompare ==
    ASSUME NEW a \in Nat, NEW b \in Int, NEW c \in Int, b <= c
    PROVE  b * a \in Int /\ c * a \in Int /\ b * a <= c * a
OBVIOUS

LEMMA FactorsCompare ==
    ASSUME NEW a \in Nat \ {0}, NEW b \in Int, NEW c \in Int, b * a < c * a
    PROVE  b < c
<1>1. CASE b >= c
  <2>1. c * a <= b * a
    BY <1>1, ProductsCompare
  <2>2. b * a \in Int /\ c * a \in Int
    OBVIOUS
  <2> QED
    BY <2>1, <2>2
<1> QED
  BY <1>1

-----------------------------------------------------------------------------
(* Sums over the prices.                                                   *)

LEMMA PricesAreFinite ==
    /\ IsFiniteSet(Prices) /\ Adding!IsFiniteSet(Prices) /\ Valuing!IsFiniteSet(Prices)
    /\ Adding!Chosen(Prices) /\ Valuing!Chosen(Prices)
    /\ Adding!AddsUp /\ Valuing!AddsUp
BY MatchingAssumption DEF Adding!IsFiniteSet, Valuing!IsFiniteSet, IsFiniteSet, Adding!Chosen,
   Valuing!Chosen, AnyOf, Adding!AddsUp, Valuing!AddsUp, Add

LEMMA PricesArePositive == \A q \in Prices : q \in Nat /\ q > 0 /\ q \in Int
BY MatchingAssumption

LEMMA TotalIsSum ==
    ASSUME NEW at, DOMAIN at = Prices
    PROVE  \E F : SumsOf(F, at) /\ Total(at) = F[Prices]
<1>1. Total(at) = Adding!Fold(Prices, 0, at, 0)[Prices]
  BY DEF Total, FoldFunction, FoldFunctionOnSet, MapThenFoldSet, Adding!Fold, Adding!Solves, AnyOf, Item, Add
<1>2. PICK F : F = Adding!Fold(Prices, 0, at, 0)
  OBVIOUS
<1>3. \A q \in Prices : Item(at, q) = at[q]
  BY DEF Item
<1>4. SumsOf(F, at)
  BY <1>2, <1>3, PricesAreFinite, Adding!SumStep DEF SumsOf
<1> QED
  BY <1>1, <1>2, <1>4

LEMMA ValueIsSum ==
    ASSUME NEW at, NEW worth, \A q \in Prices : worth[q] = q * at[q]
    PROVE  \E F : SumsOf(F, worth) /\ Value(at) = F[Prices]
<1>1. Value(at) = Valuing!Fold(Prices, 0, at, 0)[Prices]
  BY DEF Value, MapThenSumSet, MapThenFoldSet, Valuing!Fold, Valuing!Solves, AnyOf, Worth, Add
<1>2. PICK F : F = Valuing!Fold(Prices, 0, at, 0)
  OBVIOUS
<1>3. \A q \in Prices : Worth(at, q) = worth[q]
  BY DEF Worth
<1>4. Valuing!IsSum(F, Prices, worth)
  BY <1>2, <1>3, PricesAreFinite, Valuing!SumStep
<1>5. SumsOf(F, worth)
  BY <1>4 DEF SumsOf, Adding!IsSum, Valuing!IsSum
<1> QED
  BY <1>1, <1>2, <1>5

LEMMA SumsAreTyped ==
    ASSUME NEW at \in [Prices -> Int]
    PROVE  Total(at) \in Int /\ Value(at) \in Int
<1>1. PICK F : SumsOf(F, at) /\ Total(at) = F[Prices]
  BY TotalIsSum
<1>2. PICK worth : worth = [q \in Prices |-> q * at[q]]
  OBVIOUS
<1>3. PICK G : SumsOf(G, worth) /\ Value(at) = G[Prices]
  BY <1>2, ValueIsSum
<1>4. F[Prices] \in Int
  BY <1>1, PricesAreFinite, Adding!SumsAgree DEF SumsOf
<1>5. \A q \in Prices : worth[q] \in Int
  BY <1>2, PricesArePositive
<1>6. G[Prices] \in Int
  BY <1>3, <1>5, PricesAreFinite, Adding!SumsAgree DEF SumsOf
<1> QED
  BY <1>1, <1>3, <1>4, <1>6

\* Lots added at one price.
Added(at, new, k, d) ==
    at \in [Prices -> Int] /\ k \in Prices /\ d \in Int /\ new = [at EXCEPT ![k] = at[k] + d]

LEMMA SumsMove ==
    ASSUME NEW at, NEW new, NEW k, NEW d, Added(at, new, k, d)
    PROVE  Total(new) = Total(at) + d /\ Value(new) = Value(at) + k * d
<1> /\ at \in [Prices -> Int] /\ k \in Prices /\ d \in Int /\ new = [at EXCEPT ![k] = at[k] + d]
    /\ DOMAIN at = Prices /\ DOMAIN new = Prices
  BY DEF Added
<1>0. k \in Int /\ k * d \in Int
  BY PricesArePositive
<1>1. PICK F : SumsOf(F, at) /\ Total(at) = F[Prices]
  BY TotalIsSum
<1>2. PICK G : SumsOf(G, new) /\ Total(new) = G[Prices]
  BY TotalIsSum
<1>3. Adding!DifferAt(at, new, Prices, k, d)
  BY DEF Adding!DifferAt
<1>4. G[Prices] = F[Prices] + (IF k \in Prices THEN d ELSE 0)
  BY <1>1, <1>2, <1>3, PricesAreFinite, Adding!SumsShift DEF SumsOf
<1>5. PICK f, g : f = [q \in Prices |-> q * at[q]] /\ g = [q \in Prices |-> q * new[q]]
  OBVIOUS
<1>6. PICK V : SumsOf(V, f) /\ Value(at) = V[Prices]
  BY <1>5, ValueIsSum
<1>7. PICK W : SumsOf(W, g) /\ Value(new) = W[Prices]
  BY <1>5, ValueIsSum
<1>8. Adding!DifferAt(f, g, Prices, k, k * d)
  <2>1. \A q \in Prices : f[q] \in Int
    BY <1>5, PricesArePositive
  <2>2. \A q \in Prices \ {k} : g[q] = f[q]
    BY <1>5
  <2>3. g[k] = k * (at[k] + d) /\ f[k] = k * at[k] /\ at[k] \in Int
    BY <1>5
  <2>4. g[k] = f[k] + k * d
    BY <1>0, <2>3
  <2> QED
    BY <1>0, <2>1, <2>2, <2>4 DEF Adding!DifferAt
<1>9. W[Prices] = V[Prices] + (IF k \in Prices THEN k * d ELSE 0)
  BY <1>6, <1>7, <1>8, PricesAreFinite, Adding!SumsShift DEF SumsOf
<1> QED
  BY <1>1, <1>2, <1>4, <1>6, <1>7, <1>9

LEMMA LotsAreCounted ==
    ASSUME NEW at \in Lots
    PROVE  Total(at) \in Nat /\ \A q \in Prices : at[q] <= Total(at)
<1>1. PICK F : SumsOf(F, at) /\ Total(at) = F[Prices]
  BY TotalIsSum DEF Lots
<1>2. \A q \in Prices : at[q] \in Nat
  BY DEF Lots
<1>3. F[Prices] \in Nat /\ \A q \in Prices : at[q] <= F[Prices]
  BY <1>1, <1>2, PricesAreFinite, Adding!SumsCover DEF SumsOf
<1> QED
  BY <1>1, <1>3

\* Lots that trade from c on are worth c each at least, up to c at most.
LEMMA WorthAtLeast ==
    ASSUME NEW at \in Lots, NEW c \in Int, \A q \in Prices : at[q] > 0 => c <= q
    PROVE  c * Total(at) <= Value(at)
<1>1. PICK F : SumsOf(F, at) /\ Total(at) = F[Prices]
  BY TotalIsSum DEF Lots
<1>2. PICK f, g : f = [q \in Prices |-> c * at[q]] /\ g = [q \in Prices |-> q * at[q]]
  OBVIOUS
<1>3. PICK G : SumsOf(G, g) /\ Value(at) = G[Prices]
  BY <1>2, ValueIsSum
<1>4. PICK H : SumsOf(H, f)
  <2>1. PICK h : h = [q \in Prices |-> c * at[q]]
    OBVIOUS
  <2> QED
    BY <1>2, TotalIsSum
<1>5. \A q \in Prices : at[q] \in Nat /\ at[q] \in Int /\ f[q] = c * at[q]
  BY <1>2 DEF Lots
<1>6. H[Prices] = c * F[Prices]
  BY <1>1, <1>4, <1>5, PricesAreFinite, Adding!SumsScale DEF SumsOf
<1>7. ASSUME NEW q \in Prices PROVE f[q] \in Int /\ g[q] \in Int /\ f[q] <= g[q]
  <2>1. q \in Int /\ at[q] \in Nat /\ f[q] = c * at[q] /\ g[q] = q * at[q]
    BY <1>2, <1>5, PricesArePositive
  <2>2. CASE at[q] = 0
    BY <2>1, <2>2
  <2>3. CASE at[q] > 0
    BY <2>1, <2>3, ProductsCompare
  <2> QED
    BY <2>1, <2>2, <2>3
<1>8. H[Prices] <= G[Prices]
  BY <1>3, <1>4, <1>7, PricesAreFinite, Adding!SumsCompare DEF SumsOf
<1> QED
  BY <1>1, <1>3, <1>6, <1>8

LEMMA WorthAtMost ==
    ASSUME NEW at \in Lots, NEW c \in Int, \A q \in Prices : at[q] > 0 => q <= c
    PROVE  Value(at) <= c * Total(at)
<1>1. PICK F : SumsOf(F, at) /\ Total(at) = F[Prices]
  BY TotalIsSum DEF Lots
<1>2. PICK f, g : f = [q \in Prices |-> c * at[q]] /\ g = [q \in Prices |-> q * at[q]]
  OBVIOUS
<1>3. PICK G : SumsOf(G, g) /\ Value(at) = G[Prices]
  BY <1>2, ValueIsSum
<1>4. PICK H : SumsOf(H, f)
  BY <1>2, TotalIsSum
<1>5. \A q \in Prices : at[q] \in Nat /\ at[q] \in Int /\ f[q] = c * at[q]
  BY <1>2 DEF Lots
<1>6. H[Prices] = c * F[Prices]
  BY <1>1, <1>4, <1>5, PricesAreFinite, Adding!SumsScale DEF SumsOf
<1>7. ASSUME NEW q \in Prices PROVE f[q] \in Int /\ g[q] \in Int /\ g[q] <= f[q]
  <2>1. q \in Int /\ at[q] \in Nat /\ f[q] = c * at[q] /\ g[q] = q * at[q]
    BY <1>2, <1>5, PricesArePositive
  <2>2. CASE at[q] = 0
    BY <2>1, <2>2
  <2>3. CASE at[q] > 0
    BY <2>1, <2>3, ProductsCompare
  <2> QED
    BY <2>1, <2>2, <2>3
<1>8. G[Prices] <= H[Prices]
  BY <1>3, <1>4, <1>7, PricesAreFinite, Adding!SumsCompare DEF SumsOf
<1> QED
  BY <1>1, <1>3, <1>6, <1>8

\* All lots at one price.
LEMMA NoneIsNothing ==
    ASSUME NEW at, at = [q \in Prices |-> 0]
    PROVE  at \in Lots /\ Total(at) = 0 /\ Value(at) = 0
<1>1. at \in Lots
  BY DEF Lots
<1>2. Total(at) \in Nat /\ Value(at) \in Int
  BY <1>1, LotsAreCounted, SumsAreTyped DEF Lots
<1>3. PICK F : SumsOf(F, at) /\ Total(at) = F[Prices]
  BY TotalIsSum
<1>4. F[Prices] = 0 * F[Prices]
  BY <1>3, PricesAreFinite, Adding!SumsScale DEF SumsOf
<1>5. Total(at) = 0
  BY <1>2, <1>3, <1>4
<1>6. 0 * Total(at) <= Value(at) /\ Value(at) <= 0 * Total(at)
  BY <1>1, WorthAtLeast, WorthAtMost
<1> QED
  BY <1>1, <1>2, <1>5, <1>6

LEMMA AllAtOne ==
    ASSUME NEW price \in Prices, NEW lots \in Nat
    PROVE  /\ AllAt(price, lots) \in Lots
           /\ Total(AllAt(price, lots)) = lots /\ Value(AllAt(price, lots)) = price * lots
<1>1. PICK zero, all : zero = [q \in Prices |-> 0] /\ all = AllAt(price, lots)
  OBVIOUS
<1>2. zero \in [Prices -> Int] /\ all \in Lots /\ all = [zero EXCEPT ![price] = zero[price] + lots]
  BY <1>1 DEF AllAt, Lots
<1>i. Added(zero, all, price, lots)
  BY <1>2 DEF Added
<1>3. Total(all) = Total(zero) + lots /\ Value(all) = Value(zero) + price * lots
  BY <1>i, SumsMove
<1>4. Total(zero) = 0 /\ Value(zero) = 0
  BY <1>1, NoneIsNothing
<1>5. price * lots \in Int
  BY PricesArePositive
<1> QED
  BY <1>1, <1>2, <1>3, <1>4, <1>5

\* Lots moved from one price to another.
LEMMA MovingLots ==
    ASSUME NEW at \in Lots, NEW from \in Prices, NEW to \in Prices, from # to,
           NEW lots \in Nat, lots <= at[from],
           NEW new, new = Move(at, lots, from, to)
    PROVE  /\ new \in Lots
           /\ new[from] = at[from] - lots /\ new[to] = at[to] + lots
           /\ \A q \in Prices \ {from, to} : new[q] = at[q]
           /\ Total(new) = Total(at) /\ Value(new) = Value(at) + lots * (to - from)
<1>1. PICK mid : mid = [at EXCEPT ![from] = at[from] + (-lots)]
  OBVIOUS
<1>2. mid \in [Prices -> Int] /\ at \in [Prices -> Int] /\ mid[to] = at[to]
  BY <1>1 DEF Lots
<1>3. new = [mid EXCEPT ![to] = mid[to] + lots]
  <2>1. at[from] \in Nat /\ at[from] - lots = at[from] + (-lots)
    BY DEF Lots
  <2> QED
    BY <1>1, <1>2, <2>1 DEF Move, Lots
<1>i. Added(at, mid, from, -lots) /\ Added(mid, new, to, lots)
  <2>1. -lots \in Int /\ lots \in Int
    OBVIOUS
  <2>2. Added(at, mid, from, -lots)
    BY <1>1, <1>2, <2>1 DEF Added
  <2>3. Added(mid, new, to, lots)
    BY <1>2, <1>3, <2>1 DEF Added
  <2> QED
    BY <2>2, <2>3
<1>4. Total(mid) = Total(at) + (-lots) /\ Value(mid) = Value(at) + from * (-lots)
  BY <1>i, SumsMove
<1>5. Total(new) = Total(mid) + lots /\ Value(new) = Value(mid) + to * lots
  BY <1>i, SumsMove
<1>6. Total(at) \in Int /\ Value(at) \in Int /\ from \in Int /\ to \in Int
  BY <1>2, SumsAreTyped, PricesArePositive
<1>7. from * (-lots) + to * lots = lots * (to - from)
  BY <1>6
<1>8. /\ new[from] = at[from] - lots /\ new[to] = at[to] + lots
      /\ \A q \in Prices \ {from, to} : new[q] = at[q]
      /\ at[from] \in Nat /\ at[to] \in Nat
  BY DEF Move, Lots
<1>9. new \in Lots
  BY <1>8 DEF Move, Lots
<1>10. /\ from * (-lots) \in Int /\ to * lots \in Int
       /\ Total(new) = Total(at) /\ Value(new) = Value(at) + (from * (-lots) + to * lots)
  BY <1>4, <1>5, <1>6
<1> QED
  BY <1>7, <1>8, <1>9, <1>10

-----------------------------------------------------------------------------
(* The market an order is matched on.                                      *)

IsQuote(p) ==
    /\ p.bid \in Prices /\ p.ask \in Prices /\ p.last \in Prices
    /\ p.bidSize \in Nat \ {0} /\ p.askSize \in Nat \ {0}

IsTick(t) ==
    /\ IsQuote(t) /\ t.bid < t.ask
    /\ t.trades \in Lots /\ t.volume = Total(t.trades)
    /\ setup.turnover => t.money = setup.multiplier * Value(t.trades)
    /\ ~setup.turnover => t.money = 0
    /\ t.volume > 0 => t.trades[t.last] > 0

IsSetup == setup.multiplier \in Nat \ {0} /\ setup.turnover \in BOOLEAN

IsMarket(p, t) == (p # NoQuote => IsQuote(p)) /\ IsTick(t) /\ IsSetup

\* Prices at or beyond which something was seen, on both sides of q.
InReach(p, t, q) == (\E s \in Seen(p, t) : s <= q) /\ (\E s \in Seen(p, t) : q <= s)

\* The average price is that of the interval, or its last price.
IsAverage(v, t) ==
    \/ v.num = t.last /\ v.den = 1
    \/ v.num = Value(t.trades) /\ v.den = t.volume

LEMMA TickFacts ==
    ASSUME NEW t, IsTick(t)
    PROVE  /\ t.bid \in Prices /\ t.ask \in Prices /\ t.last \in Prices /\ t.bid < t.ask
           /\ t.bidSize \in Nat \ {0} /\ t.askSize \in Nat \ {0}
           /\ t.trades \in Lots /\ t.volume = Total(t.trades) /\ t.volume \in Nat
           /\ Value(t.trades) \in Nat
           /\ t.volume > 0 => t.trades[t.last] > 0
<1>1. /\ t.bid \in Prices /\ t.ask \in Prices /\ t.last \in Prices /\ t.bid < t.ask
      /\ t.bidSize \in Nat \ {0} /\ t.askSize \in Nat \ {0}
      /\ t.trades \in Lots /\ t.volume = Total(t.trades)
      /\ t.volume > 0 => t.trades[t.last] > 0
  BY DEF IsTick, IsQuote
<1>2. t.volume \in Nat
  BY <1>1, LotsAreCounted
<1>3. Value(t.trades) \in Int
  BY <1>1, SumsAreTyped DEF Lots
<1>4. 0 * Total(t.trades) <= Value(t.trades)
  BY <1>1, PricesArePositive, WorthAtLeast
<1> QED
  BY <1>1, <1>2, <1>3, <1>4

\* What the recorded turnover comes to.
LEMMA AmountIsValue ==
    ASSUME NEW t, IsTick(t), IsSetup
    PROVE  /\ setup.turnover => Amount(t) = Value(t.trades)
           /\ ~setup.turnover => Amount(t) = 0
           /\ Amount(t) \in Nat /\ t.money \in Nat
           /\ t.money > 0 => Amount(t) = Value(t.trades)
<1>1. Value(t.trades) \in Nat
  BY TickFacts
<1>2. setup.multiplier \in Nat \ {0} /\ (setup.turnover \/ ~setup.turnover)
  BY DEF IsSetup
<1>3. ASSUME NEW m \in Nat \ {0}, NEW n \in Nat PROVE (m * n) \div m = n /\ 0 \div m = 0 /\ m * n \in Nat
  <2>1. m * n \in Nat
    OBVIOUS
  <2>2. PICK d : d = (m * n) \div m
    OBVIOUS
  <2>3. d \in Int /\ m * d <= m * n /\ m * n < m * d + m
    BY <2>1, <2>2, DivisionIsBelow
  <2>4. ~(d < n)
    <3>1. SUFFICES ASSUME d < n PROVE FALSE
      OBVIOUS
    <3>2. d + 1 <= n /\ d + 1 \in Int /\ n \in Int
      BY <2>3, <3>1
    <3>3. (d + 1) * m <= n * m
      BY <3>2, ProductsCompare
    <3>4. (d + 1) * m = m * d + m /\ n * m = m * n /\ m * d \in Int
      BY <2>3
    <3> QED
      BY <2>1, <2>3, <3>3, <3>4
  <2>5. ~(n < d)
    <3>1. SUFFICES ASSUME n < d PROVE FALSE
      OBVIOUS
    <3>2. n + 1 <= d /\ n + 1 \in Int
      BY <2>3, <3>1
    <3>3. (n + 1) * m <= d * m
      BY <2>3, <3>2, ProductsCompare
    <3>4. (n + 1) * m = m * n + m /\ d * m = m * d /\ m * d \in Int
      BY <2>3
    <3> QED
      BY <2>1, <2>3, <3>3, <3>4
  <2> QED
    BY <2>1, <2>2, <2>3, <2>4, <2>5
<1>4. CASE setup.turnover
  BY <1>1, <1>2, <1>3, <1>4 DEF IsTick, Amount
<1>5. CASE ~setup.turnover
  BY <1>1, <1>2, <1>3, <1>5 DEF IsTick, Amount
<1> QED
  BY <1>2, <1>4, <1>5

\* Both averages lie between two prices that traded.
LEMMA AverageIsReached ==
    ASSUME NEW p, NEW t, IsTick(t), t.volume > 0, NEW v, IsAverage(v, t)
    PROVE  \E lo, hi \in Prices :
              /\ lo \in Seen(p, t) /\ hi \in Seen(p, t)
              /\ lo * v.den <= v.num /\ v.num <= hi * v.den
              /\ v.den \in Nat \ {0} /\ v.num \in Nat
<1>1. CASE v.num = t.last /\ v.den = 1
  <2>1. t.last \in Prices /\ t.last \in Nat /\ t.last * 1 = t.last
    BY TickFacts, PricesArePositive
  <2>2. t.last \in Seen(p, t)
    BY DEF Seen
  <2> QED
    BY <1>1, <2>1, <2>2
<1>2. CASE v.num = Value(t.trades) /\ v.den = t.volume
  <2>1. PICK T : T = {q \in Prices : t.trades[q] > 0}
    OBVIOUS
  <2>2. T \subseteq Nat /\ T \subseteq Int /\ T \subseteq Prices /\ t.last \in T /\ IsFiniteSet(T)
    BY <2>1, TickFacts, PricesArePositive, PricesAreFinite, FS_Subset
  <2>3. Adding!IsFiniteSet(T)
    BY <2>2 DEF Adding!IsFiniteSet, IsFiniteSet
  <2>4. PICK lo \in T : \A q \in T : lo <= q
    BY <2>2, <2>3, Adding!LeastExists
  <2>5. PICK hi \in T : \A q \in T : q <= hi
    BY <2>2, <2>3, Adding!GreatestExists
  <2>6. t.trades \in Lots /\ lo \in Int /\ hi \in Int /\ t.volume = Total(t.trades) /\ t.volume \in Nat
    BY <2>2, <2>4, <2>5, TickFacts
  <2>7. lo * Total(t.trades) <= Value(t.trades)
    <3>1. \A q \in Prices : t.trades[q] > 0 => lo <= q
      BY <2>1, <2>4
    <3> QED
      BY <2>6, <3>1, WorthAtLeast
  <2>8. Value(t.trades) <= hi * Total(t.trades)
    <3>1. \A q \in Prices : t.trades[q] > 0 => q <= hi
      BY <2>1, <2>5
    <3> QED
      BY <2>6, <3>1, WorthAtMost
  <2>9. lo \in Seen(p, t) /\ hi \in Seen(p, t)
    BY <2>1, <2>4, <2>5 DEF Seen
  <2> QED
    BY <1>2, <2>2, <2>4, <2>5, <2>6, <2>7, <2>8, <2>9, TickFacts
<1> QED
  BY <1>1, <1>2 DEF IsAverage

-----------------------------------------------------------------------------
(* The prices next to the average.                                         *)

LEMMA RoundingDown ==
    ASSUME NEW n \in Nat, NEW d \in Nat \ {0}, NEW lo \in Nat, NEW hi \in Nat, lo * d <= n, n <= hi * d
    PROVE  n \div d \in lo .. hi
<1>1. PICK f : f = n \div d
  OBVIOUS
<1>2. f \in Int /\ d * f <= n /\ n < d * f + d
  BY <1>1, DivisionIsBelow
<1>3. /\ lo * d < (f + 1) * d
      /\ f * d < (hi + 1) * d
  <2>1. (f + 1) * d = d * f + d /\ f * d = d * f /\ (hi + 1) * d = hi * d + d /\ d * f \in Int
        /\ lo * d \in Int /\ hi * d \in Int
    BY <1>2
  <2> QED
    BY <1>2, <2>1
<1>4. lo < f + 1
  BY <1>2, <1>3, FactorsCompare
<1>5. f < hi + 1
  BY <1>2, <1>3, FactorsCompare
<1> QED
  BY <1>1, <1>2, <1>4, <1>5

LEMMA RoundingUp ==
    ASSUME NEW n \in Nat, NEW d \in Nat \ {0}, NEW lo \in Nat, NEW hi \in Nat, lo * d <= n, n <= hi * d
    PROVE  /\ (n + d - 1) \div d \in lo .. hi
           /\ n <= ((n + d - 1) \div d) * d /\ ((n + d - 1) \div d) * d < n + d
<1>1. PICK c : c = (n + d - 1) \div d
  OBVIOUS
<1>2. c \in Int /\ d * c <= n + d - 1 /\ n + d - 1 < d * c + d
  <2>1. n + d - 1 \in Int
    OBVIOUS
  <2> QED
    BY <1>1, <2>1, DivisionIsBelow
<1>3. c * d = d * c /\ d * c \in Int /\ lo * d \in Int /\ hi * d \in Int
      /\ (c + 1) * d = d * c + d /\ (hi + 1) * d = hi * d + d
  BY <1>2
<1>4. n <= c * d /\ c * d < n + d
  BY <1>2, <1>3
<1>5. lo * d < (c + 1) * d /\ c * d < (hi + 1) * d
  BY <1>2, <1>3
<1>6. lo < c + 1
  BY <1>2, <1>5, FactorsCompare
<1>7. c < hi + 1
  BY <1>2, <1>5, FactorsCompare
<1> QED
  BY <1>1, <1>2, <1>4, <1>6, <1>7

LEMMA DoublesMultiply ==
    ASSUME NEW x \in Int, NEW y \in Int
    PROVE  (2 * x) * y = 2 * (y * x)
OBVIOUS

LEMMA RoundingNear ==
    ASSUME NEW n \in Nat, NEW d \in Nat \ {0}, NEW lo \in Nat, NEW hi \in Nat, lo * d <= n, n <= hi * d
    PROVE  \E c \in lo .. hi :
              /\ c = (2 * n + d - 1) \div (2 * d)
              /\ 2 * n <= 2 * (c * d) + d /\ 2 * (c * d) <= 2 * n + d
<1>0. PICK c : c = (2 * n + d - 1) \div (2 * d)
  OBVIOUS
<1>1. c \in Int /\ (2 * d) * c <= 2 * n + d - 1 /\ 2 * n + d - 1 < (2 * d) * c + 2 * d
  <2>1. 2 * n + d - 1 \in Int /\ 2 * d \in Nat \ {0}
    OBVIOUS
  <2> QED
    BY <1>0, <2>1, DivisionIsBelow
<1>2. (2 * d) * c = 2 * (c * d) /\ c * d \in Int /\ lo * d \in Int /\ hi * d \in Int
      /\ (c + 1) * d = c * d + d /\ (hi + 1) * d = hi * d + d
  <2>1. c * d \in Int /\ lo * d \in Int /\ hi * d \in Int /\ d * c \in Int
    BY <1>1
  <2>2. (2 * d) * c = 2 * (c * d)
    BY <1>1, DoublesMultiply
  <2>3. (c + 1) * d = c * d + d
    BY <1>1
  <2>4. (hi + 1) * d = hi * d + d
    OBVIOUS
  <2> QED
    BY <2>1, <2>2, <2>3, <2>4
<1>3. 2 * n <= 2 * (c * d) + d /\ 2 * (c * d) <= 2 * n + d
  BY <1>1, <1>2
<1>4. lo * d < (c + 1) * d /\ c * d < (hi + 1) * d
  BY <1>2, <1>3
<1>5. lo < c + 1
  BY <1>1, <1>4, FactorsCompare
<1>6. c < hi + 1
  BY <1>1, <1>4, FactorsCompare
<1> QED
  BY <1>0, <1>1, <1>3, <1>5, <1>6

\* Between two seen prices every price can be named, and is in reach.
LEMMA BetweenIsInReach ==
    ASSUME NEW p, NEW t, NEW lo \in Prices, NEW hi \in Prices, lo \in Seen(p, t), hi \in Seen(p, t),
           NEW q \in lo .. hi
    PROVE  q \in Prices /\ InReach(p, t, q)
<1>1. q \in Prices
  BY MatchingAssumption
<1>2. lo <= q /\ q <= hi
  BY PricesArePositive
<1> QED
  BY <1>1, <1>2 DEF InReach

-----------------------------------------------------------------------------
(* The lots around the average.                                            *)

\* Lots of the whole interval, at prices in reach.
IsSpread(p, t, at) ==
    at \in Lots /\ Total(at) = t.volume /\ \A q \in Prices : at[q] > 0 => InReach(p, t, q)

GainsOnlyAt(at, new, last) ==
    new \in Lots /\ Total(new) = Total(at) /\ \A q \in Prices : new[q] > 0 => at[q] > 0 \/ q = last

LEMMA TakingOne ==
    ASSUME NEW at \in Lots, NEW last \in Prices, NEW lower \in Prices, NEW upper \in Prices,
           NEW new, new = LastTakesOne(at, last, lower, upper)
    PROVE  GainsOnlyAt(at, new, last)
<1> USE DEF GainsOnlyAt
<1>1. ASSUME NEW from \in Prices, at[from] > 0, ~(at[last] > 0), new = Move(at, 1, from, last)
      PROVE  GainsOnlyAt(at, new, last)
  <2>1. at[from] \in Nat /\ from # last /\ 1 \in Nat /\ 1 <= at[from]
    BY <1>1 DEF Lots
  <2>2. /\ new \in Lots /\ Total(new) = Total(at)
        /\ \A q \in Prices \ {from, last} : new[q] = at[q]
    BY <1>1, <2>1, MovingLots
  <2> QED
    BY <1>1, <2>2
<1>2. CASE new = at
  BY <1>2
<1> QED
  BY <1>1, <1>2 DEF LastTakesOne

LEMMA AllAtOnePrice ==
    ASSUME NEW p, NEW t, NEW q \in Prices, t.volume \in Nat, InReach(p, t, q)
    PROVE  IsSpread(p, t, AllAt(q, t.volume))
<1>1. \A r \in Prices : AllAt(q, t.volume)[r] > 0 => r = q
  BY DEF AllAt
<1> QED
  BY <1>1, AllAtOne DEF IsSpread

LEMMA AroundAverageIsSpread ==
    ASSUME NEW p, NEW t, IsTick(t), t.volume > 0, NEW v, IsAverage(v, t)
    PROVE  IsSpread(p, t, AroundAverage(t, v))
<1>1. PICK lo, hi \in Prices :
         /\ lo \in Seen(p, t) /\ hi \in Seen(p, t)
         /\ lo * v.den <= v.num /\ v.num <= hi * v.den
         /\ v.den \in Nat \ {0} /\ v.num \in Nat
  BY AverageIsReached
<1>2. PICK n, d, vol : n = v.num /\ d = v.den /\ vol = t.volume
  OBVIOUS
<1>3. /\ lo \in Nat /\ hi \in Nat /\ lo * d <= n /\ n <= hi * d /\ d \in Nat \ {0} /\ n \in Nat
      /\ vol \in Nat /\ t.last \in Prices
  BY <1>1, <1>2, PricesArePositive, TickFacts
<1>4. PICK lower, upper : lower = Floor(v) /\ upper = Ceiling(v)
  OBVIOUS
<1>5. lower \in lo .. hi
  BY <1>2, <1>3, <1>4, RoundingDown DEF Floor
<1>6. upper \in lo .. hi /\ n <= upper * d /\ upper * d < n + d
  BY <1>2, <1>3, <1>4, RoundingUp DEF Ceiling
<1>7. lower \in Prices /\ upper \in Prices /\ InReach(p, t, lower) /\ InReach(p, t, upper)
      /\ InReach(p, t, t.last)
  <2>1. t.last \in Seen(p, t)
    BY DEF Seen
  <2>2. t.last <= t.last
    <3>1. PICK last \in Prices : last = t.last
      BY <1>3
    <3>2. last \in Nat
      BY PricesArePositive
    <3>3. last <= last
      BY <3>2
    <3> QED
      BY <3>1, <3>3
  <2>3. InReach(p, t, t.last)
    BY <2>1, <2>2 DEF InReach
  <2> QED
    BY <1>1, <1>5, <1>6, <2>3, BetweenIsInReach
<1>8. CASE lower = upper
  <2>1. AroundAverage(t, v) = AllAt(lower, t.volume)
    BY <1>4, <1>8 DEF AroundAverage
  <2> QED
    BY <1>2, <1>3, <1>7, <2>1, AllAtOnePrice
<1>9. CASE lower # upper
  <2>1. PICK qty : qty = (upper * vol * d - n * vol) \div d
    OBVIOUS
  <2>2. qty \in 0 .. vol
    <3>1. PICK e : e = upper * d - n
      OBVIOUS
    <3>2. upper \in Int /\ e \in Nat /\ e <= d
      BY <1>3, <1>6, <3>1
    <3>3. upper * vol * d - n * vol = e * vol /\ e * vol \in Nat
      <4>1. e * vol = upper * d * vol - n * vol
        BY <1>3, <3>1, <3>2
      <4>2. upper * d * vol = upper * vol * d
        BY <1>3, <3>2
      <4> QED
        BY <1>3, <3>2, <4>1, <4>2
    <3>4. e * vol <= vol * d
      <4>1. e * vol <= d * vol
        BY <1>3, <3>2, ProductsCompare
      <4> QED
        BY <1>3, <4>1
    <3>5. 0 * d <= e * vol
      BY <1>3, <3>3
    <3> QED
      BY <1>3, <2>1, <3>3, <3>4, <3>5, RoundingDown
  <2>3. PICK base, two : base = AllAt(upper, vol) /\ two = Move(base, qty, upper, lower)
    OBVIOUS
  <2>4. base \in Lots /\ Total(base) = vol /\ base[upper] = vol /\ \A q \in Prices \ {upper} : base[q] = 0
    BY <1>3, <1>7, <2>3, AllAtOne DEF AllAt
  <2>5. /\ two \in Lots /\ Total(two) = vol
        /\ \A q \in Prices \ {upper, lower} : two[q] = base[q]
    <3>1. qty \in Nat /\ qty <= base[upper]
      BY <1>3, <2>2, <2>4
    <3> QED
      BY <1>7, <1>9, <2>3, <2>4, <3>1, MovingLots
  <2>6. \A q \in Prices : two[q] > 0 => q = upper \/ q = lower
    BY <2>4, <2>5
  <2>7. PICK new : new = LastTakesOne(two, t.last, lower, upper)
    OBVIOUS
  <2>8. GainsOnlyAt(two, new, t.last)
    BY <1>3, <1>7, <2>5, <2>7, TakingOne
  <2>9. AroundAverage(t, v) = new
    BY <1>2, <1>4, <1>9, <2>1, <2>3, <2>7 DEF AroundAverage
  <2> QED
    BY <1>2, <1>7, <2>5, <2>6, <2>8, <2>9 DEF IsSpread, GainsOnlyAt
<1> QED
  BY <1>8, <1>9

-----------------------------------------------------------------------------
(* Lots moved away from the price next to the average, until prices times   *)
(* lots make up the turnover.                                               *)

Shift(e, d, s) == MoveFrom(e[1], e[2], s, d)

Spreading == INSTANCE FoldFacts WITH Op <- Shift, Pick <- LastOf, At <- Item

\* Of m steps that were missing in this direction, s.steps are still to be made
\* up; each lot moved made up one at least.
IsSplit(s, centre, direction, vol, m, lo, hi) ==
    /\ s.steps <= m /\ Total(s.at) = vol
    /\ Value(s.at) = centre * vol + direction * (m - s.steps)
    /\ s.at[centre] + m >= vol + s.steps
    /\ \A q \in Prices : s.at[q] > 0 => lo <= q /\ q <= hi

Splits(centre, direction, vol, m, lo, hi) ==
    {s \in [at : Lots, steps : Nat] : IsSplit(s, centre, direction, vol, m, lo, hi)}

LEMMA MovingShares ==
    ASSUME NEW centre \in Prices, NEW direction \in {1, -1}, NEW vol \in Nat, NEW m \in Nat,
           NEW lo \in Prices, NEW hi \in Prices,
           NEW distance \in Nat \ {0}, centre + direction * distance \in lo .. hi,
           NEW s, s \in Splits(centre, direction, vol, m, lo, hi),
           NEW new, new = MoveFrom(centre, direction, s, distance)
    PROVE  /\ new \in Splits(centre, direction, vol, m, lo, hi)
           /\ distance = 1 /\ m <= vol => new.steps = 0
<1>1. PICK at \in Lots, steps \in Nat : s.at = at /\ s.steps = steps
  BY DEF Splits
<1>2. /\ steps <= m /\ Total(at) = vol
      /\ Value(at) = centre * vol + direction * (m - steps)
      /\ at[centre] + m >= vol + steps
      /\ \A q \in Prices : at[q] > 0 => lo <= q /\ q <= hi
  BY <1>1 DEF Splits, IsSplit
<1>3. PICK to : to = centre + direction * distance
  OBVIOUS
<1>4. /\ centre \in Nat /\ lo \in Nat /\ hi \in Nat /\ at[centre] \in Nat
      /\ lo .. hi \subseteq Prices
  BY PricesArePositive, MatchingAssumption DEF Lots
<1>5. to \in Prices /\ to \in Int /\ lo <= to /\ to <= hi /\ to # centre
  <2>1. to \in Prices /\ to \in Int /\ lo <= to /\ to <= hi
    BY <1>3, <1>4
  <2>2. to # centre
    BY <1>3, <1>4
  <2> QED
    BY <2>1, <2>2
<1>6. PICK lots, share : share = steps \div distance /\ lots = Smaller(at[centre], share)
  OBVIOUS
<1>7. share \in Nat /\ share * distance <= steps
  <2>1. share \in Int /\ distance * share <= steps /\ steps < distance * share + distance
    BY <1>6, DivisionIsBelow
  <2>2. distance * share = share * distance
    BY <2>1
  <2>3. 0 * distance < (share + 1) * distance
    <3>1. (share + 1) * distance = distance * share + distance /\ 0 * distance = 0 /\ distance * share \in Int
      BY <2>1
    <3> QED
      BY <2>1, <3>1
  <2>4. 0 < share + 1
    BY <2>1, <2>3, FactorsCompare
  <2> QED
    BY <2>1, <2>2, <2>4
<1>8. lots \in Nat /\ lots <= at[centre] /\ lots <= share
  BY <1>4, <1>6, <1>7 DEF Smaller
<1>9. lots * distance \in Nat /\ lots <= lots * distance /\ lots * distance <= steps
  <2>1. lots * distance <= share * distance
    BY <1>7, <1>8, ProductsCompare
  <2>2. 1 * lots <= distance * lots
    BY <1>8, ProductsCompare
  <2>3. distance * lots = lots * distance /\ lots * distance \in Nat /\ 1 * lots = lots
        /\ share * distance \in Nat
    BY <1>7, <1>8
  <2> QED
    BY <1>7, <2>1, <2>2, <2>3
<1>10. PICK moved, left : moved = Move(at, lots, centre, to) /\ left = steps - lots * distance
  OBVIOUS
<1>11. /\ moved \in Lots
       /\ moved[centre] = at[centre] - lots /\ moved[to] = at[to] + lots
       /\ \A q \in Prices \ {centre, to} : moved[q] = at[q]
       /\ Total(moved) = Total(at) /\ Value(moved) = Value(at) + lots * (to - centre)
  BY <1>5, <1>8, <1>10, MovingLots
<1>12. left \in Nat /\ left <= steps /\ left = steps - lots * distance
  BY <1>9, <1>10
<1>13. new = [at |-> moved, steps |-> left]
  BY <1>1, <1>3, <1>6, <1>10 DEF MoveFrom
<1>14. new.at = moved /\ new.steps = left
  BY <1>13
<1>15. Value(moved) = centre * vol + direction * (m - left)
  <2>1. lots * (to - centre) = direction * (lots * distance)
    <3>1. CASE direction = 1
      BY <1>3, <1>4, <1>8, <1>9, <3>1
    <3>2. CASE direction = -1
      <4>1. to - centre = -distance
        BY <1>3, <1>4, <3>2
      <4>2. lots * (-distance) = -(lots * distance)
        BY <1>8
      <4> QED
        BY <1>9, <3>2, <4>1, <4>2
    <3> QED
      BY <3>1, <3>2
  <2>2. direction * (m - steps) + direction * (lots * distance) = direction * (m - left)
    BY <1>9, <1>12
  <2>3. /\ centre * vol \in Int /\ direction * (m - steps) \in Int /\ direction * (lots * distance) \in Int
    BY <1>4, <1>9
  <2> QED
    BY <1>2, <1>11, <2>1, <2>2, <2>3
<1>16. moved[centre] + m >= vol + left
  BY <1>2, <1>4, <1>8, <1>9, <1>11, <1>12
<1>17. \A q \in Prices : moved[q] > 0 => lo <= q /\ q <= hi
  <2> SUFFICES ASSUME NEW q \in Prices, moved[q] > 0 PROVE lo <= q /\ q <= hi
    OBVIOUS
  <2>1. CASE q = to
    BY <1>5, <2>1
  <2>2. CASE q = centre
    <3>1. at[centre] > 0
      BY <1>4, <1>8, <1>11, <2>2
    <3> QED
      BY <1>2, <2>2, <3>1
  <2>3. CASE q # to /\ q # centre
    BY <1>2, <1>11, <2>3
  <2> QED
    BY <2>1, <2>2, <2>3
<1>18. new \in Splits(centre, direction, vol, m, lo, hi)
  <2>1. new \in [at : Lots, steps : Nat]
    BY <1>11, <1>12, <1>13
  <2>2. IsSplit(new, centre, direction, vol, m, lo, hi)
    BY <1>2, <1>11, <1>12, <1>14, <1>15, <1>16, <1>17 DEF IsSplit
  <2> QED
    BY <2>1, <2>2 DEF Splits
<1>19. ASSUME distance = 1, m <= vol PROVE new.steps = 0
  <2>1. share = steps
    BY <1>6, <1>19
  <2>2. steps <= at[centre]
    BY <1>2, <1>4, <1>19
  <2>3. lots = steps
    BY <1>4, <1>6, <2>1, <2>2 DEF Smaller
  <2> QED
    BY <1>12, <1>14, <1>19, <2>3
<1> QED
  BY <1>18, <1>19

\* The farthest price is served first, the next one to the centre last.
SpreadOver(centre, direction, reach, base) ==
    FoldLeft(LAMBDA s, d : MoveFrom(centre, direction, s, d), base, Downwards(reach))

\* The prices lots are moved to.
Spans(centre, direction, reach, lo, hi) ==
    \A distance \in 1 .. reach : centre + direction * distance \in lo .. hi

LEMMA SpreadingShares ==
    ASSUME NEW centre \in Prices, NEW direction \in {1, -1}, NEW vol \in Nat, NEW m \in Nat,
           NEW lo \in Prices, NEW hi \in Prices, NEW reach \in Nat,
           Spans(centre, direction, reach, lo, hi),
           NEW base, base \in Splits(centre, direction, vol, m, lo, hi),
           NEW new, new = SpreadOver(centre, direction, reach, base)
    PROVE  /\ new \in Splits(centre, direction, vol, m, lo, hi)
           /\ reach > 0 /\ m <= vol => new.steps = 0
<1>0. \A distance \in 1 .. reach : centre + direction * distance \in lo .. hi
  BY DEF Spans
<1>1. PICK e, seq, S : e = <<centre, direction>> /\ seq = Downwards(reach) /\ S = 1 .. reach
  OBVIOUS
<1>2. DOMAIN seq = S /\ (\A k \in S : seq[k] \in 1 .. reach) /\ (reach > 0 => seq[reach] = 1)
  BY <1>1 DEF Downwards
<1>3. S \subseteq Int /\ IsFiniteSet(S)
  BY <1>1, FS_Interval
<1>4. Spreading!Chosen(S)
  <2> SUFFICES ASSUME NEW T \in SUBSET S, T # {}
               PROVE  LastOf(T) \in T
    BY DEF Spreading!Chosen
  <2>1. IsFiniteSet(T) /\ T \subseteq Int
    BY <1>3, FS_Subset
  <2>2. Spreading!IsFiniteSet(T)
    BY <2>1 DEF Spreading!IsFiniteSet, IsFiniteSet
  <2>3. \E n \in T : \A k \in T : n >= k
    BY <2>1, <2>2, Spreading!GreatestExists
  <2> QED
    BY <2>3 DEF LastOf, Max
<1>5. Spreading!IsFiniteSet(S)
  BY <1>3 DEF Spreading!IsFiniteSet, IsFiniteSet
<1>6. PICK Good : Good = Splits(centre, direction, vol, m, lo, hi)
  OBVIOUS
<1>7. base \in Good
  BY <1>6
<1>8. \A i \in S : \A value \in Good : Shift(e, Item(seq, i), value) \in Good
  <2> SUFFICES ASSUME NEW i \in S, NEW value \in Good PROVE Shift(e, Item(seq, i), value) \in Good
    OBVIOUS
  <2>1. PICK distance : distance = seq[i]
    OBVIOUS
  <2>2. distance \in 1 .. reach
    BY <1>2, <2>1
  <2>3. distance \in Nat \ {0} /\ centre + direction * distance \in lo .. hi
    BY <1>0, <2>2
  <2>4. PICK next : next = MoveFrom(centre, direction, value, distance)
    OBVIOUS
  <2>5. value \in Splits(centre, direction, vol, m, lo, hi)
    BY <1>6
  <2>6. next \in Good
    BY <1>6, <2>3, <2>4, <2>5, MovingShares
  <2> QED
    BY <1>1, <2>1, <2>4, <2>6 DEF Shift, Item
<1>9. new = Spreading!Fold(S, base, seq, e)[S]
  BY <1>1, <1>2 DEF SpreadOver, FoldLeft, MapThenFoldSet, Spreading!Fold, Spreading!Solves, LastOf,
     Item, Shift
<1>10. new \in Good
  BY <1>4, <1>5, <1>7, <1>8, <1>9, Spreading!FoldKeeps
<1>11. ASSUME reach > 0, m <= vol PROVE new.steps = 0
  <2>1. PICK T : T = S \ {reach}
    OBVIOUS
  <2>2. reach \in S /\ T \in SUBSET S /\ T \subseteq S /\ S \in SUBSET S /\ S # {}
    <3>1. reach \in 1 .. reach
      BY <1>11
    <3>2. reach \in S
      BY <1>1, <3>1
    <3>3. T \subseteq S
      BY <2>1
    <3> QED
      BY <3>2, <3>3
  <2>3. LastOf(S) = reach
    <3>1. LastOf(S) \in S /\ \A k \in S : k <= LastOf(S)
      <4>1. \E n \in S : \A k \in S : n >= k
        BY <1>3, <1>5, <2>2, Spreading!GreatestExists
      <4>2. LastOf(S) \in S /\ \A k \in S : LastOf(S) >= k
        BY <4>1 DEF LastOf, Max
      <4> QED
        BY <1>3, <4>2
    <3>2. reach <= LastOf(S) /\ LastOf(S) <= reach /\ LastOf(S) \in Int
      BY <1>1, <2>2, <3>1
    <3> QED
      BY <3>2
  <2>4. Spreading!IsFiniteSet(T) /\ Spreading!Chosen(T)
    <3>1. IsFiniteSet(T)
      BY <1>3, <2>2, FS_Subset
    <3> QED
      BY <1>4, <2>2, <3>1 DEF Spreading!IsFiniteSet, IsFiniteSet, Spreading!Chosen
  <2>5. PICK before : before = Spreading!Fold(S, base, seq, e)[T]
    OBVIOUS
  <2>6. before = Spreading!Fold(T, base, seq, e)[T]
    <3>1. \A U \in SUBSET S : Spreading!Fold(S, base, seq, e)[U] = Spreading!Fold(U, base, seq, e)[U]
      BY <1>4, <1>5, Spreading!FoldOfPart
    <3> QED
      BY <2>2, <2>5, <3>1
  <2>7. before \in Good
    <3>1. \A i \in T : \A value \in Good : Shift(e, Item(seq, i), value) \in Good
      BY <1>8, <2>2
    <3> QED
      BY <1>7, <2>4, <2>6, <3>1, Spreading!FoldKeeps
  <2>8. Spreading!Fold(S, base, seq, e)[S]
          = Shift(e, Item(seq, LastOf(S)), Spreading!Fold(S, base, seq, e)[S \ {LastOf(S)}])
    <3>1. \A U \in SUBSET S : U # {} =>
             Spreading!Fold(S, base, seq, e)[U]
               = Shift(e, Item(seq, LastOf(U)), Spreading!Fold(S, base, seq, e)[U \ {LastOf(U)}])
      BY <1>4, <1>5, Spreading!FoldStep
    <3> QED
      BY <2>2, <3>1
  <2>9. new = MoveFrom(centre, direction, before, 1)
    <3>1. Item(seq, LastOf(S)) = 1
      BY <1>2, <1>11, <2>3 DEF Item
    <3>2. S \ {LastOf(S)} = T
      BY <2>1, <2>3
    <3>3. new = Shift(e, 1, before)
      BY <1>9, <2>5, <2>8, <3>1, <3>2
    <3> QED
      BY <1>1, <3>3 DEF Shift
  <2>10. 1 \in Nat \ {0} /\ centre + direction * 1 \in lo .. hi
    <3>1. 1 \in 1 .. reach
      BY <1>11
    <3> QED
      BY <1>0, <3>1
  <2>11. before \in Splits(centre, direction, vol, m, lo, hi)
    BY <1>6, <2>7
  <2> QED
    BY <1>11, <2>9, <2>10, <2>11, MovingShares
<1> QED
  BY <1>6, <1>10, <1>11

-----------------------------------------------------------------------------
(* The flow of an interval.                                                *)

LEMMA MinIsLeast ==
    ASSUME NEW S, \E x \in S : \A y \in S : x <= y
    PROVE  Min(S) \in S /\ \A y \in S : Min(S) <= y
BY DEF Min

LEMMA MaxIsGreatest ==
    ASSUME NEW S, \E x \in S : \A y \in S : x >= y
    PROVE  Max(S) \in S /\ \A y \in S : Max(S) >= y
BY DEF Max

LEMMA LeastOfThree ==
    ASSUME NEW a \in Int, NEW b \in Int, NEW c \in Int, NEW S, S = {a, b, c}
    PROVE  Min(S) \in S /\ Min(S) <= a
<1>1. a \in S /\ b \in S /\ c \in S /\ S \subseteq Int
  OBVIOUS
<1>2. \E x \in S : \A y \in S : x <= y
  OBVIOUS
<1> QED
  BY <1>1, <1>2, MinIsLeast

LEMMA GreatestOfThree ==
    ASSUME NEW a \in Int, NEW b \in Int, NEW c \in Int, NEW S, S = {a, b, c}
    PROVE  Max(S) \in S /\ a <= Max(S)
<1>1. a \in S /\ b \in S /\ c \in S /\ S \subseteq Int
  OBVIOUS
<1>2. \E x \in S : \A y \in S : x >= y
  OBVIOUS
<1>3. Max(S) \in S /\ Max(S) >= a
  BY <1>1, <1>2, MaxIsGreatest
<1> QED
  BY <1>1, <1>3

LEMMA SyntheticAverage ==
    ASSUME NEW t, IsTick(t), IsSetup, t.volume > 0, NEW v, v = SyntheticVwap(t)
    PROVE  /\ IsAverage(v, t)
           /\ setup.turnover => v.num = Amount(t) /\ v.den = t.volume /\ Amount(t) = Value(t.trades)
<1>1. CASE t.money > 0
  <2>1. Amount(t) = Value(t.trades) /\ v = Ratio(Amount(t), t.volume)
    BY <1>1, AmountIsValue DEF SyntheticVwap
  <2> QED
    BY <2>1 DEF IsAverage, Ratio
<1>2. CASE ~(t.money > 0)
  <2>1. v = Ratio(t.last, 1)
    BY <1>2 DEF SyntheticVwap, AtLastPrice
  <2>2. ~setup.turnover
    <3> SUFFICES ASSUME setup.turnover PROVE FALSE
      OBVIOUS
    <3>1. PICK worth, lots, mult : worth = Value(t.trades) /\ lots = Total(t.trades) /\ mult = setup.multiplier
      OBVIOUS
    <3>2. t.money = mult * worth /\ worth \in Nat /\ lots \in Nat /\ lots > 0 /\ mult \in Nat \ {0}
      BY <3>1, TickFacts DEF IsTick, IsSetup
    <3>3. 1 * lots <= worth
      <4>1. \A q \in Prices : t.trades[q] > 0 => 1 <= q
        BY PricesArePositive
      <4>2. t.trades \in Lots /\ 1 \in Int
        BY TickFacts
      <4> QED
        BY <3>1, <4>1, <4>2, WorthAtLeast
    <3>4. 1 * worth <= mult * worth
      BY <3>2, ProductsCompare
    <3> QED
      BY <1>2, <3>2, <3>3, <3>4
  <2> QED
    BY <2>1, <2>2 DEF IsAverage, Ratio
<1> QED
  BY <1>1, <1>2

\* Every lot once, in reach; and a turnover that was recorded is made up.
LEMMA SpreadOutIsSpread ==
    ASSUME NEW p, p # NoQuote, NEW t, IsMarket(p, t), t.volume > 0, NEW v, v = SyntheticVwap(t),
           NEW new, new = SpreadOut(p, t, v)
    PROVE  /\ IsSpread(p, t, new)
           /\ setup.turnover => Value(new) = Amount(t)
<1>1. IsTick(t) /\ IsSetup /\ IsQuote(p)
  BY DEF IsMarket
<1>2. /\ IsAverage(v, t)
      /\ setup.turnover => v.num = Amount(t) /\ v.den = t.volume /\ Amount(t) = Value(t.trades)
  BY <1>1, SyntheticAverage
<1>3. PICK lo, hi \in Prices :
         /\ lo \in Seen(p, t) /\ hi \in Seen(p, t)
         /\ lo * v.den <= v.num /\ v.num <= hi * v.den
         /\ v.den \in Nat \ {0} /\ v.num \in Nat
  BY <1>1, <1>2, AverageIsReached
<1>4. PICK n, d, vol, worth : n = v.num /\ d = v.den /\ vol = t.volume /\ worth = Amount(t)
  OBVIOUS
<1>5. /\ lo \in Nat /\ hi \in Nat /\ lo * d <= n /\ n <= hi * d /\ d \in Nat \ {0} /\ n \in Nat
      /\ vol \in Nat /\ worth \in Nat /\ vol > 0
  BY <1>1, <1>3, <1>4, PricesArePositive, TickFacts, AmountIsValue
<1>6. PICK lower, upper, centre : lower = Floor(v) /\ upper = Ceiling(v) /\ centre = Nearest(v)
  OBVIOUS
<1>7. lower \in lo .. hi /\ lower * d <= n
  <2>1. lower \in lo .. hi
    BY <1>4, <1>5, <1>6, RoundingDown DEF Floor
  <2>2. lower = n \div d /\ lower \in Int
    BY <1>4, <1>6, <2>1 DEF Floor
  <2>3. d * lower <= n
    BY <1>5, <2>2, DivisionIsBelow
  <2>4. d * lower = lower * d
    BY <1>5, <2>2
  <2> QED
    BY <2>1, <2>3, <2>4
<1>8. upper \in lo .. hi /\ n <= upper * d
  BY <1>4, <1>5, <1>6, RoundingUp DEF Ceiling
<1>9. centre \in lower .. upper /\ 2 * n <= 2 * (centre * d) + d /\ 2 * (centre * d) <= 2 * n + d
  <2>1. lower \in Nat /\ upper \in Nat
    BY <1>5, <1>7, <1>8
  <2>2. PICK c \in lower .. upper :
           /\ c = (2 * n + d - 1) \div (2 * d)
           /\ 2 * n <= 2 * (c * d) + d /\ 2 * (c * d) <= 2 * n + d
    BY <1>5, <1>7, <1>8, <2>1, RoundingNear
  <2> QED
    BY <1>4, <1>6, <2>2 DEF Nearest
<1>10. PICK lowest, highest : lowest = Min({lower, p.bid, t.bid}) /\ highest = Max({upper, p.ask, t.ask})
  OBVIOUS
<1>11. p.bid \in Prices /\ t.bid \in Prices /\ p.ask \in Prices /\ t.ask \in Prices
  BY <1>1, TickFacts DEF IsQuote
<1>12. /\ lowest \in {lower, p.bid, t.bid} /\ lowest <= lower
       /\ highest \in {upper, p.ask, t.ask} /\ upper <= highest
  <2>1. lower \in Int /\ upper \in Int /\ p.bid \in Int /\ t.bid \in Int /\ p.ask \in Int /\ t.ask \in Int
    BY <1>7, <1>8, <1>11, PricesArePositive
  <2>2. lowest \in {lower, p.bid, t.bid} /\ lowest <= lower
    <3>1. PICK S, x, y : S = {lower, x, y} /\ x = p.bid /\ y = t.bid
      OBVIOUS
    <3>2. Min(S) \in S /\ Min(S) <= lower
      BY <2>1, <3>1, LeastOfThree
    <3> QED
      BY <1>10, <3>1, <3>2
  <2>3. highest \in {upper, p.ask, t.ask} /\ upper <= highest
    <3>1. PICK S, x, y : S = {upper, x, y} /\ x = p.ask /\ y = t.ask
      OBVIOUS
    <3>2. Max(S) \in S /\ upper <= Max(S)
      BY <2>1, <3>1, GreatestOfThree
    <3> QED
      BY <1>10, <3>1, <3>2
  <2> QED
    BY <2>2, <2>3
<1>13. /\ lowest \in Prices /\ highest \in Prices /\ lower \in Prices /\ upper \in Prices /\ centre \in Prices
       /\ lowest <= centre /\ centre <= highest /\ lowest \in Nat /\ highest \in Nat /\ centre \in Nat
  <2>1. lower \in Prices /\ upper \in Prices
    BY <1>3, <1>7, <1>8, MatchingAssumption
  <2>2. lowest \in Prices /\ highest \in Prices /\ centre \in Prices
    BY <1>9, <1>11, <1>12, <2>1, MatchingAssumption
  <2> QED
    BY <1>9, <1>12, <2>1, <2>2, PricesArePositive
<1>14. \A q \in Prices : lowest <= q /\ q <= highest => InReach(p, t, q)
  <2>1. p.bid \in Seen(p, t) /\ t.bid \in Seen(p, t) /\ p.ask \in Seen(p, t) /\ t.ask \in Seen(p, t)
    BY DEF Seen
  <2>2. \E s \in Seen(p, t) : s \in Nat /\ s <= lowest
    <3>1. CASE lowest = lower
      BY <1>3, <1>5, <1>7, <3>1
    <3>2. CASE lowest # lower
      <4>1. lowest \in Seen(p, t) /\ lowest \in Nat
        BY <1>12, <1>13, <2>1, <3>2
      <4> QED
        BY <4>1
    <3> QED
      BY <3>1, <3>2
  <2>3. \E s \in Seen(p, t) : s \in Nat /\ highest <= s
    <3>1. CASE highest = upper
      BY <1>3, <1>5, <1>8, <3>1
    <3>2. CASE highest # upper
      <4>1. highest \in Seen(p, t) /\ highest \in Nat
        BY <1>12, <1>13, <2>1, <3>2
      <4> QED
        BY <4>1
    <3> QED
      BY <3>1, <3>2
  <2> QED
    BY <1>13, <2>2, <2>3, PricesArePositive DEF InReach
<1>15. PICK missing, direction, reach, m :
          /\ missing = worth - centre * vol
          /\ direction = IF missing > 0 THEN 1 ELSE -1
          /\ reach = IF missing > 0 THEN highest - centre ELSE centre - lowest
          /\ m = Distance(missing, 0)
  OBVIOUS
<1>16. /\ missing \in Int /\ m \in Nat /\ reach \in Nat /\ direction \in {1, -1}
       /\ centre * vol \in Int /\ centre * vol + direction * m = worth
  <2>1. missing \in Int /\ centre * vol \in Int
    BY <1>5, <1>13, <1>15
  <2>2. m \in Nat /\ m = IF missing > 0 THEN missing ELSE -missing
    BY <1>15, <2>1 DEF Distance, Larger
  <2>3. CASE missing > 0
    BY <1>5, <1>13, <1>15, <2>1, <2>2, <2>3
  <2>4. CASE ~(missing > 0)
    BY <1>5, <1>13, <1>15, <2>1, <2>2, <2>4
  <2> QED
    BY <2>3, <2>4
<1>17. Spans(centre, direction, reach, lowest, highest)
  <2> SUFFICES ASSUME NEW distance \in 1 .. reach
               PROVE  centre + direction * distance \in lowest .. highest
    BY DEF Spans
  <2>1. CASE missing > 0
    BY <1>13, <1>15, <2>1
  <2>2. CASE ~(missing > 0)
    BY <1>13, <1>15, <2>2
  <2> QED
    BY <2>1, <2>2
<1>18. PICK base : base = [at |-> AllAt(centre, vol), steps |-> m]
  OBVIOUS
<1>19. base \in Splits(centre, direction, vol, m, lowest, highest)
  <2>1. PICK at : at = AllAt(centre, vol)
    OBVIOUS
  <2>2. at \in Lots /\ Total(at) = vol /\ Value(at) = centre * vol
    BY <1>5, <1>13, <2>1, AllAtOne
  <2>3. at[centre] = vol /\ \A q \in Prices : at[q] > 0 => q = centre
    BY <1>13, <2>1 DEF AllAt
  <2>4. base.at = at /\ base.steps = m /\ base \in [at : Lots, steps : Nat]
    BY <1>16, <1>18, <2>1, <2>2
  <2>5. Value(at) = centre * vol + direction * (m - m)
    BY <1>16, <2>2
  <2>6. IsSplit(base, centre, direction, vol, m, lowest, highest)
    BY <1>5, <1>13, <1>16, <2>2, <2>3, <2>4, <2>5 DEF IsSplit
  <2> QED
    BY <2>4, <2>6 DEF Splits
<1>20. PICK spread : spread = SpreadOver(centre, direction, reach, base)
  OBVIOUS
<1>21. /\ spread \in Splits(centre, direction, vol, m, lowest, highest)
       /\ reach > 0 /\ m <= vol => spread.steps = 0
  <2>1. /\ centre \in Prices /\ direction \in {1, -1} /\ vol \in Nat /\ m \in Nat
        /\ lowest \in Prices /\ highest \in Prices /\ reach \in Nat
    BY <1>5, <1>13, <1>16
  <2> QED
    BY <2>1, <1>17, <1>19, <1>20, SpreadingShares
<1>22. new = IF spread.steps = 0 THEN spread.at ELSE AroundAverage(t, v)
  <2> DEFINE Missing == Amount(t) - Nearest(v) * t.volume
             Lowest == Min({Floor(v), p.bid, t.bid})
             Highest == Max({Ceiling(v), p.ask, t.ask})
             Spread == SpreadOver(Nearest(v), IF Missing > 0 THEN 1 ELSE -1,
                                  IF Missing > 0 THEN Highest - Nearest(v) ELSE Nearest(v) - Lowest,
                                  [at |-> AllAt(Nearest(v), t.volume), steps |-> Distance(Missing, 0)])
  <2>1. new = IF Spread.steps = 0 THEN Spread.at ELSE AroundAverage(t, v)
    BY DEF SpreadOut, SpreadOver
  <2>2. Spread = spread
    BY <1>4, <1>6, <1>10, <1>15, <1>18, <1>20
  <2> HIDE DEF Spread
  <2> QED
    BY <2>1, <2>2
<1>23. PICK at \in Lots, steps \in Nat : spread.at = at /\ spread.steps = steps
  BY <1>21 DEF Splits
<1>24. /\ steps <= m /\ Total(at) = vol
       /\ Value(at) = centre * vol + direction * (m - steps)
       /\ \A q \in Prices : at[q] > 0 => lowest <= q /\ q <= highest
  BY <1>21, <1>23 DEF Splits, IsSplit
<1>25. IsSpread(p, t, new)
  <2>1. CASE steps = 0
    BY <1>4, <1>14, <1>22, <1>23, <1>24, <2>1 DEF IsSpread
  <2>2. CASE steps # 0
    BY <1>1, <1>2, <1>22, <1>23, <2>2, AroundAverageIsSpread
  <2> QED
    BY <2>1, <2>2
<1>26. ASSUME setup.turnover PROVE Value(new) = Amount(t)
  <2>1. n = worth /\ d = vol
    BY <1>2, <1>4, <1>26
  <2>2. m <= vol
    <3>1. missing = n - centre * d /\ centre * d \in Int
      BY <1>15, <1>16, <2>1
    <3>2. m = IF missing > 0 THEN missing ELSE -missing
      BY <1>15, <1>16 DEF Distance, Larger
    <3>3. 2 * missing <= d /\ -(2 * missing) <= d
      BY <1>5, <1>9, <3>1
    <3> QED
      BY <1>5, <1>16, <2>1, <3>2, <3>3
  <2>3. steps = 0
    <3>1. CASE missing = 0
      <4>1. m = 0
        BY <1>15, <3>1 DEF Distance, Larger
      <4> QED
        BY <1>24, <4>1
    <3>2. CASE missing > 0
      <4>1. centre * d < upper * d
        BY <1>5, <1>8, <1>15, <1>16, <2>1, <3>2
      <4>2. centre < upper
        BY <1>5, <1>8, <1>13, <4>1, FactorsCompare
      <4>3. reach > 0
        BY <1>8, <1>12, <1>13, <1>15, <3>2, <4>2
      <4> QED
        BY <1>21, <1>23, <2>2, <4>3
    <3>3. CASE missing < 0
      <4>1. lower * d < centre * d
        BY <1>5, <1>7, <1>15, <1>16, <2>1, <3>3
      <4>2. lower < centre
        BY <1>5, <1>7, <1>13, <4>1, FactorsCompare
      <4>3. reach > 0
        BY <1>7, <1>12, <1>13, <1>15, <3>3, <4>2
      <4> QED
        BY <1>21, <1>23, <2>2, <4>3
    <3> QED
      BY <1>16, <3>1, <3>2, <3>3
  <2>4. new = at /\ direction * (m - 0) = direction * m
    BY <1>16, <1>22, <1>23, <2>3
  <2> QED
    BY <1>4, <1>16, <1>24, <2>3, <2>4
<1> QED
  BY <1>25, <1>26

\* Lots at prices in reach, with an average of the interval.
IsFlow(p, t, flow) ==
    /\ flow.at \in Lots
    /\ \A q \in Prices : flow.at[q] > 0 => InReach(p, t, q)
    /\ flow.volume > 0 => t.volume > 0 /\ IsAverage(flow.vwap, t)

LEMMA NoFlowIsFlow ==
    ASSUME NEW p, NEW t, NEW flow, flow = NoFlow(t)
    PROVE  /\ IsFlow(p, t, flow) /\ flow.at \in Lots /\ Total(flow.at) = 0 /\ Value(flow.at) = 0
           /\ \A q \in Prices : flow.at[q] = 0
<1>1. PICK at : at = [q \in Prices |-> 0]
  OBVIOUS
<1>2. flow.at = at /\ flow.volume = 0
  BY <1>1 DEF NoFlow
<1>3. at \in Lots /\ Total(at) = 0 /\ Value(at) = 0 /\ \A q \in Prices : at[q] = 0
  BY <1>1, NoneIsNothing
<1>4. IsFlow(p, t, flow)
  BY <1>2, <1>3 DEF IsFlow
<1> QED
  BY <1>2, <1>3, <1>4

\* The only lot of an interval was traded at the last price.
LEMMA OneLotIsAtLast ==
    ASSUME NEW t, IsTick(t), t.volume = 1
    PROVE  Value(t.trades) = t.last
<1>1. PICK at, last : at = t.trades /\ last = t.last
  OBVIOUS
<1>2. at \in Lots /\ Total(at) = 1 /\ last \in Prices /\ at[last] > 0 /\ last \in Int
  BY <1>1, TickFacts, PricesArePositive
<1>3. PICK rest : rest = [at EXCEPT ![last] = at[last] + (-1)]
  OBVIOUS
<1>4. at[last] \in Nat /\ at \in [Prices -> Int] /\ -1 \in Int
  BY <1>2 DEF Lots
<1>5. Added(at, rest, last, -1)
  BY <1>2, <1>3, <1>4 DEF Added
<1>6. Total(rest) = 0
  BY <1>2, <1>5, SumsMove
<1>7. rest \in Lots
  BY <1>2, <1>3, <1>4 DEF Lots
<1>8. \A q \in Prices : rest[q] <= 0
  BY <1>6, <1>7, LotsAreCounted
<1>9. \A q \in Prices : at[q] > 0 => q = last
  <2> SUFFICES ASSUME NEW q \in Prices, q # last PROVE ~(at[q] > 0)
    OBVIOUS
  <2>1. rest[q] = at[q] /\ at[q] \in Nat
    BY <1>2, <1>3 DEF Lots
  <2> QED
    BY <1>8, <2>1
<1>10. last * Total(at) <= Value(at) /\ Value(at) <= last * Total(at)
  BY <1>2, <1>9, WorthAtLeast, WorthAtMost, PricesArePositive
<1>11. Value(at) \in Int /\ last * Total(at) = last
  BY <1>2, <1>4, SumsAreTyped
<1> QED
  BY <1>1, <1>2, <1>10, <1>11

LEMMA SyntheticFlow ==
    ASSUME NEW p, p # NoQuote, NEW t, IsMarket(p, t), NEW flow, flow = infer_synthetic_trade_flow(p, t)
    PROVE  /\ IsFlow(p, t, flow)
           /\ Total(flow.at) = t.volume
           /\ setup.mode # 0 /\ setup.turnover => Value(flow.at) = Amount(t)
<1>1. IsTick(t) /\ IsSetup
  BY DEF IsMarket
<1>2. t.volume \in Nat /\ t.last \in Prices /\ t.volume = Total(t.trades) /\ t.trades \in Lots
  BY <1>1, TickFacts
<1>3. CASE t.volume = 0
  <2>1. flow = NoFlow(t)
    BY <1>3 DEF infer_synthetic_trade_flow
  <2>2. Value(t.trades) <= 0
    <3>1. \A q \in Prices : ~(t.trades[q] > 0)
      <4> SUFFICES ASSUME NEW q \in Prices PROVE ~(t.trades[q] > 0)
        OBVIOUS
      <4>1. t.trades[q] \in Nat /\ t.trades[q] <= 0
        BY <1>2, <1>3, LotsAreCounted DEF Lots
      <4> QED
        BY <4>1
    <3>2. Value(t.trades) <= 0 * Total(t.trades)
      BY <1>2, <3>1, WorthAtMost
    <3> QED
      BY <1>2, <1>3, <3>2
  <2>3. Value(t.trades) = 0
    BY <1>1, <2>2, TickFacts
  <2>4. setup.turnover => Amount(t) = 0
    BY <1>1, <2>3, AmountIsValue
  <2>5. IsFlow(p, t, flow) /\ Total(flow.at) = 0 /\ Value(flow.at) = 0
    BY <2>1, NoFlowIsFlow
  <2> QED
    BY <1>3, <2>4, <2>5
<1>4. CASE t.volume # 0
  <2>1. t.volume > 0
    BY <1>2, <1>4
  <2>2. PICK v, at : /\ v = SyntheticVwap(t)
                     /\ at = IF t.volume = 1 THEN AllAt(t.last, 1)
                             ELSE IF setup.mode = 0 THEN AroundAverage(t, v) ELSE SpreadOut(p, t, v)
    OBVIOUS
  <2>3. flow.volume = t.volume /\ flow.vwap = v /\ flow.at = at
    BY <1>4, <2>2 DEF infer_synthetic_trade_flow
  <2>4. IsAverage(v, t)
    BY <1>1, <2>1, <2>2, SyntheticAverage
  <2>5. IsSpread(p, t, at) /\ (setup.mode # 0 /\ setup.turnover => Value(at) = Amount(t))
    <3>1. CASE t.volume = 1
      <4>1. at = AllAt(t.last, t.volume)
        BY <2>2, <3>1
      <4>2. InReach(p, t, t.last)
        <5>1. t.last \in Seen(p, t)
          BY DEF Seen
        <5>2. PICK last \in Prices : last = t.last
          BY <1>2
        <5>3. last <= last
          BY PricesArePositive
        <5> QED
          BY <5>1, <5>2, <5>3 DEF InReach
      <4>3. IsSpread(p, t, at)
        BY <1>2, <4>1, <4>2, AllAtOnePrice
      <4>4. Value(at) = t.last * 1
        <5>1. \A q \in Prices : Value(AllAt(q, 1)) = q * 1
          BY AllAtOne
        <5> QED
          BY <1>2, <3>1, <4>1, <5>1
      <4>5. setup.turnover => Amount(t) = t.last
        BY <1>1, <3>1, OneLotIsAtLast, AmountIsValue
      <4>6. t.last * 1 = t.last
        BY <1>2, PricesArePositive
      <4> QED
        BY <4>3, <4>4, <4>5, <4>6
    <3>2. CASE t.volume # 1 /\ setup.mode = 0
      <4>1. at = AroundAverage(t, v)
        BY <2>2, <3>2
      <4> QED
        BY <1>1, <2>1, <2>4, <3>2, <4>1, AroundAverageIsSpread
    <3>3. CASE t.volume # 1 /\ setup.mode # 0
      <4>1. at = SpreadOut(p, t, v)
        BY <2>2, <3>3
      <4> QED
        BY <2>1, <2>2, <4>1, SpreadOutIsSpread
    <3> QED
      BY <3>1, <3>2, <3>3
  <2> QED
    BY <2>1, <2>3, <2>4, <2>5 DEF IsFlow, IsSpread
<1> QED
  BY <1>3, <1>4

\* A recorded turnover is in money; the flow of a native order divides it by
\* the volume alone.
LEMMA NativeFlow ==
    ASSUME NEW p, NEW t, IsMarket(p, t), NEW flow, flow = infer_trade_flow(p, t)
    PROVE  /\ flow.at \in Lots
           /\ (setup.turnover => setup.multiplier = 1) => IsFlow(p, t, flow)
<1>1. CASE p = NoQuote \/ t.volume = 0
  BY <1>1, NoFlowIsFlow DEF infer_trade_flow
<1>2. CASE p # NoQuote /\ t.volume # 0
  <2>1. IsTick(t) /\ IsSetup /\ IsQuote(p)
    BY <1>2 DEF IsMarket
  <2>2. /\ t.volume \in Nat /\ t.volume > 0 /\ t.last \in Prices /\ t.ask \in Prices /\ t.bid \in Prices
        /\ t.askSize \in Nat /\ t.bidSize \in Nat
        /\ p.ask \in Prices /\ p.bid \in Prices /\ p.askSize \in Nat /\ p.bidSize \in Nat
    BY <1>2, <2>1, TickFacts DEF IsQuote
  <2>3. AskGone(p, t) \in Nat /\ BidGone(p, t) \in Nat
    <3>1. AskGone(p, t) \in Nat
      BY <2>2 DEF AskGone, Larger
    <3>2. BidGone(p, t) \in Nat
      BY <2>2 DEF BidGone, Larger
    <3> QED
      BY <3>1, <3>2
  <2>4. PICK v, atAsk, atBid, rest :
           /\ v = IF t.money > 0 THEN Ratio(t.money, t.volume) ELSE AtLastPrice(t)
           /\ atAsk = Smaller(t.volume, AskGone(p, t))
           /\ atBid = Smaller(t.volume - atAsk, BidGone(p, t))
           /\ rest = t.volume - atAsk - atBid
    OBVIOUS
  <2>5. atAsk \in Nat /\ atBid \in Nat /\ rest \in Nat
    <3>1. atAsk \in Nat /\ atAsk <= t.volume
      BY <2>2, <2>3, <2>4 DEF Smaller
    <3>2. atBid \in Nat /\ atBid <= t.volume - atAsk
      BY <2>2, <2>3, <2>4, <3>1 DEF Smaller
    <3> QED
      BY <2>2, <2>4, <3>1, <3>2
  <2>6. PICK at : at = [q \in Prices |->
                          (IF q = p.ask THEN atAsk ELSE 0) + (IF q = p.bid THEN atBid ELSE 0)
                          + (IF q * v.den = v.num THEN rest ELSE 0)]
    OBVIOUS
  <2>7. flow.volume = t.volume /\ flow.vwap = v /\ flow.at = at
    BY <1>2, <2>4, <2>6 DEF infer_trade_flow
  <2>8. at \in Lots
    BY <2>5, <2>6 DEF Lots
  <2>9. ASSUME setup.turnover => setup.multiplier = 1
        PROVE  IsFlow(p, t, flow)
    <3>1. IsAverage(v, t)
      <4>1. CASE t.money > 0
        <5>1. setup.turnover
          BY <2>1, <4>1 DEF IsTick
        <5>2. t.money = 1 * Value(t.trades) /\ Value(t.trades) \in Nat
          BY <2>1, <2>9, <5>1, TickFacts DEF IsTick
        <5>3. v.num = Value(t.trades) /\ v.den = t.volume
          BY <2>4, <4>1, <5>2 DEF Ratio
        <5> QED
          BY <5>3 DEF IsAverage
      <4>2. CASE ~(t.money > 0)
        BY <2>4, <4>2 DEF IsAverage, AtLastPrice, Ratio
      <4> QED
        BY <4>1, <4>2
    <3>2. PICK lo, hi \in Prices :
             /\ lo \in Seen(p, t) /\ hi \in Seen(p, t)
             /\ lo * v.den <= v.num /\ v.num <= hi * v.den
             /\ v.den \in Nat \ {0} /\ v.num \in Nat
      BY <2>1, <2>2, <3>1, AverageIsReached
    <3>3. \A q \in Prices : at[q] > 0 => InReach(p, t, q)
      <4> SUFFICES ASSUME NEW q \in Prices, at[q] > 0 PROVE InReach(p, t, q)
        OBVIOUS
      <4>0. q \in Nat /\ q <= q
        BY PricesArePositive
      <4>1. CASE q = p.ask \/ q = p.bid
        <5>1. q \in Seen(p, t)
          BY <1>2, <4>1 DEF Seen
        <5> QED
          BY <4>0, <5>1 DEF InReach
      <4>2. CASE q # p.ask /\ q # p.bid
        <5>1. q * v.den = v.num
          BY <2>6, <4>2
        <5>2. lo \in Nat /\ hi \in Nat
          BY PricesArePositive
        <5>3. ~(q < lo) /\ ~(hi < q)
          <6>1. ASSUME q < lo PROVE FALSE
            <7>1. q + 1 <= lo
              BY <4>0, <5>2, <6>1
            <7>2. (q + 1) * v.den <= lo * v.den
              BY <3>2, <4>0, <5>2, <7>1, ProductsCompare
            <7>3. (q + 1) * v.den = q * v.den + v.den /\ q * v.den \in Nat /\ lo * v.den \in Nat
              BY <3>2, <4>0, <5>2
            <7> QED
              BY <3>2, <5>1, <7>2, <7>3
          <6>2. ASSUME hi < q PROVE FALSE
            <7>1. hi + 1 <= q
              BY <4>0, <5>2, <6>2
            <7>2. (hi + 1) * v.den <= q * v.den
              BY <3>2, <4>0, <5>2, <7>1, ProductsCompare
            <7>3. (hi + 1) * v.den = hi * v.den + v.den /\ q * v.den \in Nat /\ hi * v.den \in Nat
              BY <3>2, <4>0, <5>2
            <7> QED
              BY <3>2, <5>1, <7>2, <7>3
          <6> QED
            BY <6>1, <6>2
        <5>4. lo <= q /\ q <= hi
          BY <4>0, <5>2, <5>3
        <5> QED
          BY <3>2, <5>4 DEF InReach
      <4> QED
        BY <4>1, <4>2
    <3> QED
      BY <2>2, <2>7, <2>8, <3>1, <3>3 DEF IsFlow
  <2> QED
    BY <2>7, <2>8, <2>9
<1> QED
  BY <1>1, <1>2

LEMMA CrossedIsReached ==
    ASSUME NEW p, NEW t, IsMarket(p, t), NEW flow, IsFlow(p, t, flow),
           NEW o, o.limit \in Prices, Crosses(o, t, flow)
    PROVE  /\ o.side = "Buy" => \E s \in Seen(p, t) : s <= o.limit
           /\ o.side # "Buy" => \E s \in Seen(p, t) : o.limit <= s
<1>1. IsTick(t)
  BY DEF IsMarket
<1>2. /\ t.bid \in Seen(p, t) /\ t.ask \in Seen(p, t) /\ t.last \in Seen(p, t)
      /\ t.bid \in Nat /\ t.ask \in Nat /\ t.last \in Nat /\ o.limit \in Nat
  <2>1. t.bid \in Seen(p, t) /\ t.ask \in Seen(p, t) /\ t.last \in Seen(p, t)
    BY DEF Seen
  <2> QED
    BY <1>1, <2>1, TickFacts, PricesArePositive
<1>3. ASSUME flow.volume > 0
      PROVE  /\ o.limit * flow.vwap.den > flow.vwap.num => \E s \in Seen(p, t) : s <= o.limit
             /\ o.limit * flow.vwap.den < flow.vwap.num => \E s \in Seen(p, t) : o.limit <= s
  <2>1. PICK v, limit : v = flow.vwap /\ limit = o.limit
    OBVIOUS
  <2>2. IsAverage(v, t) /\ t.volume > 0
    BY <1>3, <2>1 DEF IsFlow
  <2>3. PICK lo, hi \in Prices :
           /\ lo \in Seen(p, t) /\ hi \in Seen(p, t)
           /\ lo * v.den <= v.num /\ v.num <= hi * v.den
           /\ v.den \in Nat \ {0} /\ v.num \in Nat
    BY <1>1, <2>2, AverageIsReached
  <2>4. lo \in Nat /\ hi \in Nat /\ limit \in Nat
    BY <1>2, <2>1, PricesArePositive
  <2>5. ASSUME limit * v.den > v.num PROVE lo <= limit
    <3>1. lo * v.den < limit * v.den
      BY <2>3, <2>4, <2>5
    <3>2. lo < limit
      BY <2>3, <2>4, <3>1, FactorsCompare
    <3> QED
      BY <2>4, <3>2
  <2>6. ASSUME limit * v.den < v.num PROVE limit <= hi
    <3>1. limit * v.den < hi * v.den
      BY <2>3, <2>4, <2>6
    <3>2. limit < hi
      BY <2>3, <2>4, <3>1, FactorsCompare
    <3> QED
      BY <2>4, <3>2
  <2> QED
    BY <2>1, <2>3, <2>5, <2>6
<1>4. CASE o.side = "Buy"
  <2>1. CASE o.limit >= t.ask
    BY <1>2, <1>4, <2>1
  <2>2. CASE flow.volume > 0 /\ o.limit > t.last
    BY <1>2, <1>4, <2>2
  <2>3. CASE flow.volume > 0 /\ o.limit * flow.vwap.den > flow.vwap.num
    BY <1>3, <1>4, <2>3
  <2>4. CASE o.limit > t.bid
    BY <1>2, <1>4, <2>4
  <2> QED
    BY <1>4, <2>1, <2>2, <2>3, <2>4 DEF Crosses
<1>5. CASE o.side # "Buy"
  <2>1. CASE o.limit <= t.bid
    BY <1>2, <1>5, <2>1
  <2>2. CASE flow.volume > 0 /\ o.limit < t.last
    BY <1>2, <1>5, <2>2
  <2>3. CASE flow.volume > 0 /\ o.limit * flow.vwap.den < flow.vwap.num
    BY <1>3, <1>5, <2>3
  <2>4. CASE o.limit < t.ask
    BY <1>2, <1>5, <2>4
  <2> QED
    BY <1>5, <2>1, <2>2, <2>3, <2>4 DEF Crosses
<1> QED
  BY <1>4, <1>5

-----------------------------------------------------------------------------
(* The order.                                                              *)

Order == [side : {"Buy", "Sell"}, limit : Prices, volume : Nat \ {0}, remaining : Nat \ {0},
          queueAhead : Nat, activated : BOOLEAN, ahead : Nat, known : BOOLEAN, paid : Nat]

\* What it got it waited for; a synthetic order got nothing yet, and counts at
\* least the lots an exchange would still have before it.
IsPending(o) ==
    /\ o.remaining <= o.volume
    /\ o.volume - o.remaining <= o.paid /\ o.paid <= o.volume
    /\ ~o.activated => o.remaining = o.volume /\ o.queueAhead = 0 /\ ~o.known
    /\ Synthetic => o.remaining = o.volume
    /\ Synthetic /\ QueuePercent >= 100 /\ o.known => o.ahead <= o.queueAhead

\* An order matched on a flow: what it gets is paid for, unless the market is
\* through its limit,
IsGain(o, m, p, t, flow) ==
    m.lots # 0 =>
        /\ Crosses(o, t, flow) \/ flow.at[o.limit] > 0
        /\ Synthetic => p # NoQuote
        /\ ~Crosses(o, t, flow) =>
              /\ o.volume - o.remaining + m.lots <= o.paid + flow.at[o.limit]
              /\ Synthetic => m.lots = o.volume /\ m.lots <= flow.at[o.limit]
              /\ Synthetic /\ QueuePercent >= 100 /\ o.known => o.ahead + m.lots <= flow.at[o.limit]

\* and an order that is left waits behind the queue its flow left it.
IsWait(o, m, t, flow) ==
    m.lots # o.remaining =>
        /\ m.lots # 0 => o.activated /\ ~Synthetic /\ ~Crosses(o, t, flow)
        /\ ~m.activated => Synthetic /\ ~o.activated /\ m.queueAhead = o.queueAhead
        /\ Synthetic /\ m.activated /\ o.activated => m.queueAhead = QueueAfter(o, t, flow.at[o.limit])
        /\ Synthetic /\ m.activated /\ ~o.activated /\ QueuePercent >= 100 =>
              VisibleQueue(o, t) <= m.queueAhead

IsMatch(o, m, p, t, flow) ==
    /\ m.lots \in Nat /\ m.lots <= o.remaining /\ m.queueAhead \in Nat /\ m.activated \in BOOLEAN
    /\ IsGain(o, m, p, t, flow) /\ IsWait(o, m, t, flow)

LEMMA VisibleQueueIsTyped ==
    ASSUME NEW o, NEW t, IsTick(t)
    PROVE  VisibleQueue(o, t) \in Nat
BY TickFacts DEF VisibleQueue

LEMMA NewOrderIsPending ==
    ASSUME NEW side \in {"Buy", "Sell"}, NEW limit \in Prices, NEW volume \in Nat \ {0},
           NEW o, o = NewOrder(side, limit, volume)
    PROVE  o \in Order /\ IsPending(o) /\ ~o.activated
<1>1. o \in Order
  BY DEF NewOrder, Order
<1>2. /\ o.volume = volume /\ o.remaining = volume /\ o.paid = 0 /\ o.activated = FALSE /\ o.known = FALSE
      /\ o.queueAhead = 0
  BY DEF NewOrder
<1> QED
  BY <1>1, <1>2 DEF IsPending

\* A synthetic order gets all or nothing.
LEMMA SyntheticMatch ==
    ASSUME Synthetic, NEW p, NEW t, IsMarket(p, t), NEW o \in Order, IsPending(o),
           o.activated => p # NoQuote,
           NEW flow, flow = infer_synthetic_trade_flow(p, t),
           NEW m, m = synthetic_resting_fill_volume(o, p, t)
    PROVE  IsMatch(o, m, p, t, flow) /\ (p = NoQuote => m.lots = 0)
<1>1. PICK traded : traded = flow.at[o.limit]
  OBVIOUS
<1>2. /\ o.limit \in Prices /\ o.volume \in Nat \ {0} /\ o.remaining \in Nat \ {0} /\ o.queueAhead \in Nat
      /\ o.activated \in BOOLEAN /\ o.ahead \in Nat /\ o.known \in BOOLEAN /\ o.paid \in Nat
  BY DEF Order
<1>3. flow.at \in Lots
  <2>1. CASE p = NoQuote
    BY <2>1, NoFlowIsFlow DEF infer_synthetic_trade_flow
  <2>2. CASE p # NoQuote
    BY <2>2, SyntheticFlow DEF IsFlow
  <2> QED
    BY <2>1, <2>2
<1>4. traded \in Nat
  BY <1>1, <1>2, <1>3 DEF Lots
<1>5. o.remaining = o.volume /\ (QueuePercent >= 100 /\ o.known => o.ahead <= o.queueAhead)
  BY DEF IsPending
<1>6. PICK visible \in Nat : visible = VisibleQueue(o, t)
  BY VisibleQueueIsTyped DEF IsMarket
<1>7. CASE p = NoQuote
  <2>1. m = Gets(0, o)
    BY <1>7 DEF synthetic_resting_fill_volume
  <2>2. m.lots = 0 /\ m.queueAhead = o.queueAhead /\ m.activated = o.activated
    BY <2>1 DEF Gets
  <2>3. flow = NoFlow(t)
    BY <1>7 DEF infer_synthetic_trade_flow
  <2>4. IsGain(o, m, p, t, flow)
    BY <2>2 DEF IsGain
  <2>5. IsWait(o, m, t, flow)
    <3>1. ~o.activated /\ ~m.activated
      BY <1>7, <2>2
    <3> QED
      BY <2>2, <3>1 DEF IsWait
  <2> QED
    BY <1>2, <2>2, <2>4, <2>5 DEF IsMatch
<1>8. CASE p # NoQuote /\ Crosses(o, t, flow)
  <2>1. m = Gets(o.remaining, o)
    BY <1>8 DEF synthetic_resting_fill_volume
  <2>2. m.lots = o.remaining /\ m.queueAhead = o.queueAhead /\ m.activated = o.activated
    BY <2>1 DEF Gets
  <2>3. IsGain(o, m, p, t, flow)
    BY <1>8 DEF IsGain
  <2>4. IsWait(o, m, t, flow)
    BY <2>2 DEF IsWait
  <2> QED
    BY <1>2, <1>8, <2>2, <2>3, <2>4 DEF IsMatch
<1>9. CASE p # NoQuote /\ ~Crosses(o, t, flow) /\ ~o.activated
  <2>1. m = Waits(QueueOnArrival(o, t, traded))
    BY <1>1, <1>9 DEF synthetic_resting_fill_volume
  <2>2. m.lots = 0 /\ m.queueAhead = QueueOnArrival(o, t, traded) /\ m.activated = TRUE
    BY <2>1 DEF Waits
  <2>3. QueueOnArrival(o, t, traded) \in Nat
        /\ (QueuePercent >= 100 => visible <= QueueOnArrival(o, t, traded))
    <3>1. PICK behind : behind = Larger(0, visible + traded - o.queueAhead)
      OBVIOUS
    <3>2. behind = visible + traded /\ behind \in Nat /\ o.queueAhead = 0
      BY <1>4, <1>9, <3>1 DEF IsPending, Larger
    <3>3. PICK q : q = (QueuePercent * behind + 99) \div 100
      OBVIOUS
    <3>4. PICK percent \in Nat : percent = QueuePercent
      BY MatchingAssumption
    <3>5. PICK n \in Nat : n = percent * behind
      BY <3>2
    <3>6. q \in Int /\ 100 * q <= n + 99 /\ n + 99 < 100 * q + 100
      <4>1. n + 99 \in Int /\ 100 \in Nat \ {0} /\ q = (n + 99) \div 100
        BY <3>3, <3>4, <3>5
      <4> QED
        BY <4>1, DivisionIsBelow
    <3>7. percent >= 100 => q >= behind
      <4> SUFFICES ASSUME percent >= 100 PROVE q >= behind
        OBVIOUS
      <4>1. 100 * behind <= percent * behind
        BY <3>2, ProductsCompare
      <4> QED
        BY <3>2, <3>5, <3>6, <4>1
    <3>8. QueueOnArrival(o, t, traded) = Smaller(visible, Larger(0, q - traded + 0))
      BY <1>6, <3>1, <3>2, <3>3 DEF QueueOnArrival
    <3> QED
      BY <1>4, <3>2, <3>4, <3>6, <3>7, <3>8 DEF Smaller, Larger
  <2>4. m.lots # o.remaining
    BY <1>2, <2>2
  <2>5. IsGain(o, m, p, t, flow)
    BY <2>2 DEF IsGain
  <2>6. IsWait(o, m, t, flow)
    BY <1>6, <1>9, <2>2, <2>3 DEF IsWait
  <2> QED
    <3>1. m.lots \in Nat /\ m.lots <= o.remaining /\ m.queueAhead \in Nat
      BY <1>2, <2>2, <2>3
    <3>2. m.activated \in BOOLEAN
      BY <2>2
    <3>3. m.lots = 0
      BY <2>2
    <3> QED
      BY <3>1, <3>2, <3>3, <2>5, <2>6 DEF IsMatch
<1>10. CASE p # NoQuote /\ ~Crosses(o, t, flow) /\ o.activated /\ traded - o.queueAhead >= o.remaining
  <2>1. m = Gets(o.remaining, o)
    BY <1>1, <1>10 DEF synthetic_resting_fill_volume
  <2>2. m.lots = o.remaining /\ m.queueAhead = o.queueAhead /\ m.activated = o.activated
    BY <2>1 DEF Gets
  <2>3. m.lots = o.volume /\ o.volume <= traded /\ traded > 0
    BY <1>2, <1>4, <1>5, <1>10, <2>2
  <2>4. QueuePercent >= 100 /\ o.known => o.ahead + o.volume <= traded
    BY <1>2, <1>4, <1>5, <1>10
  <2>5. o.volume - o.remaining + m.lots <= o.paid + traded
    BY <1>2, <1>4, <1>5, <2>3
  <2>6. IsGain(o, m, p, t, flow)
    BY <1>1, <1>10, <2>3, <2>4, <2>5 DEF IsGain
  <2>7. IsWait(o, m, t, flow)
    BY <2>2 DEF IsWait
  <2> QED
    BY <1>2, <1>10, <2>2, <2>6, <2>7 DEF IsMatch
<1>11. CASE p # NoQuote /\ ~Crosses(o, t, flow) /\ o.activated /\ ~(traded - o.queueAhead >= o.remaining)
  <2>1. m = Waits(QueueAfter(o, t, traded))
    BY <1>1, <1>11 DEF synthetic_resting_fill_volume
  <2>2. m.lots = 0 /\ m.queueAhead = QueueAfter(o, t, traded) /\ m.activated = TRUE
    BY <2>1 DEF Waits
  <2>3. QueueAfter(o, t, traded) \in Nat
    BY <1>2, <1>4, <1>6 DEF QueueAfter, Smaller, Larger
  <2>4. IsGain(o, m, p, t, flow)
    BY <2>2 DEF IsGain
  <2>5. IsWait(o, m, t, flow)
    BY <1>1, <1>11, <2>2 DEF IsWait
  <2> QED
    <3>1. m.lots \in Nat /\ m.lots <= o.remaining /\ m.queueAhead \in Nat
      BY <1>2, <2>2, <2>3
    <3>2. m.activated \in BOOLEAN
      BY <2>2
    <3>3. m.lots = 0
      BY <2>2
    <3> QED
      BY <3>1, <3>2, <3>3, <2>4, <2>5 DEF IsMatch
<1> QED
  BY <1>2, <1>7, <1>8, <1>9, <1>10, <1>11

LEMMA NativeMatch ==
    ASSUME ~Synthetic, NEW p, NEW t, IsMarket(p, t), NEW o \in Order, IsPending(o), o.activated,
           NEW flow, flow = infer_trade_flow(p, t),
           NEW m, m = resting_fill_volume(o, p, t)
    PROVE  IsMatch(o, m, p, t, flow)
<1>1. PICK traded, queue : traded = flow.at[o.limit] /\ queue = refresh_queue_ahead(o, t)
  OBVIOUS
<1>2. /\ o.limit \in Prices /\ o.volume \in Nat \ {0} /\ o.remaining \in Nat \ {0} /\ o.queueAhead \in Nat
      /\ o.activated = TRUE /\ o.paid \in Nat
      /\ o.volume - o.remaining <= o.paid
  BY DEF Order, IsPending
<1>3. traded \in Nat
  BY <1>1, <1>2, NativeFlow DEF Lots
<1>4. queue \in Nat
  <2>1. VisibleQueue(o, t) \in Nat
    BY VisibleQueueIsTyped DEF IsMarket
  <2> QED
    BY <1>1, <1>2, <2>1 DEF refresh_queue_ahead, Smaller
<1>5. CASE Crosses(o, t, flow)
  <2>1. m = Gets(o.remaining, o)
    BY <1>5 DEF resting_fill_volume
  <2>2. m.lots = o.remaining /\ m.queueAhead = o.queueAhead /\ m.activated = TRUE
    BY <1>2, <2>1 DEF Gets
  <2>3. IsGain(o, m, p, t, flow)
    BY <1>5 DEF IsGain
  <2>4. IsWait(o, m, t, flow)
    BY <2>2 DEF IsWait
  <2>5. m.lots \in Nat /\ m.lots <= o.remaining /\ m.queueAhead \in Nat
    BY <1>2, <2>2
  <2>6. m.activated \in BOOLEAN
    BY <2>2
  <2> QED
    BY <2>3, <2>4, <2>5, <2>6 DEF IsMatch
<1>6. CASE ~Crosses(o, t, flow) /\ queue >= traded
  <2>1. m = Waits(queue - traded)
    BY <1>1, <1>6 DEF resting_fill_volume
  <2>2. m.lots = 0 /\ m.queueAhead = queue - traded /\ m.activated = TRUE
    BY <2>1 DEF Waits
  <2>3. IsGain(o, m, p, t, flow)
    BY <2>2 DEF IsGain
  <2>4. IsWait(o, m, t, flow)
    BY <2>2 DEF IsWait
  <2>5. m.lots \in Nat /\ m.lots <= o.remaining /\ m.queueAhead \in Nat
    BY <1>2, <1>3, <1>4, <1>6, <2>2
  <2> QED
    BY <2>2, <2>3, <2>4, <2>5 DEF IsMatch
<1>7. CASE ~Crosses(o, t, flow) /\ ~(queue >= traded)
  <2>1. m = [Waits(0) EXCEPT !.lots = Smaller(o.remaining, traded - queue)]
    BY <1>1, <1>7 DEF resting_fill_volume
  <2>2. m.lots = Smaller(o.remaining, traded - queue) /\ m.queueAhead = 0 /\ m.activated = TRUE
    BY <2>1 DEF Waits
  <2>3. m.lots \in Nat /\ m.lots # 0 /\ m.lots <= o.remaining /\ m.lots <= traded /\ traded > 0
    BY <1>2, <1>3, <1>4, <1>7, <2>2 DEF Smaller
  <2>4. o.volume - o.remaining + m.lots <= o.paid + traded
    BY <1>2, <1>3, <2>3
  <2>5. IsGain(o, m, p, t, flow)
    BY <1>1, <2>3, <2>4 DEF IsGain
  <2>6. IsWait(o, m, t, flow)
    BY <1>2, <1>7, <2>2 DEF IsWait
  <2>7. m.lots \in Nat /\ m.lots <= o.remaining /\ m.queueAhead \in Nat
    BY <2>2, <2>3
  <2>8. m.activated \in BOOLEAN
    BY <2>2
  <2> QED
    BY <2>5, <2>6, <2>7, <2>8 DEF IsMatch
<1> QED
  BY <1>5, <1>6, <1>7

LEMMA NativeArrival ==
    ASSUME ~Synthetic, NEW p, NEW t, IsMarket(p, t), NEW o \in Order, IsPending(o),
           NEW flow, flow = infer_trade_flow(p, t),
           NEW m, m = Arrival(o, p, t)
    PROVE  IsMatch(o, m, p, t, flow)
<1>1. /\ o.volume \in Nat \ {0} /\ o.remaining \in Nat \ {0} /\ o.queueAhead \in Nat /\ o.activated \in BOOLEAN
  BY DEF Order
<1>2. CASE Crosses(o, t, flow)
  <2>1. m = Gets(o.remaining, o)
    BY <1>2 DEF Arrival
  <2>2. m.lots = o.remaining /\ m.queueAhead = o.queueAhead /\ m.activated = o.activated
    BY <2>1 DEF Gets
  <2>3. IsGain(o, m, p, t, flow)
    BY <1>2 DEF IsGain
  <2>4. IsWait(o, m, t, flow)
    BY <2>2 DEF IsWait
  <2> QED
    BY <1>1, <2>2, <2>3, <2>4 DEF IsMatch
<1>3. CASE ~Crosses(o, t, flow)
  <2>1. m = Waits(VisibleQueue(o, t))
    BY <1>3 DEF Arrival
  <2>2. m.lots = 0 /\ m.queueAhead = VisibleQueue(o, t) /\ m.activated = TRUE
    BY <2>1 DEF Waits
  <2>3. IsGain(o, m, p, t, flow)
    BY <2>2 DEF IsGain
  <2>4. IsWait(o, m, t, flow)
    BY <2>2 DEF IsWait
  <2>5. m.lots \in Nat /\ m.lots <= o.remaining /\ m.queueAhead \in Nat
    BY <1>1, <2>2, VisibleQueueIsTyped DEF IsMarket
  <2> QED
    BY <2>2, <2>3, <2>4, <2>5 DEF IsMatch
<1> QED
  BY <1>2, <1>3

\* An order that is left is pending again.
LEMMA PendingAgain ==
    ASSUME NEW p, NEW t, IsMarket(p, t), NEW o \in Order, IsPending(o),
           NEW flow, flow = Flow(p, t), flow.at \in Lots,
           NEW m, IsMatch(o, m, p, t, flow), m.lots # o.remaining,
           NEW next \in After(o, m, p, t)
    PROVE  next \in Order /\ IsPending(next) /\ next.activated = m.activated
<1>1. PICK traded : traded = flow.at[o.limit]
  OBVIOUS
<1>2. PICK joins : joins = (m.activated /\ ~o.activated)
  OBVIOUS
<1>3. PICK a \in QueueMay(o, t, traded, joins) :
         next = [o EXCEPT !.remaining = @ - m.lots, !.queueAhead = m.queueAhead, !.activated = m.activated,
                   !.ahead = a,
                   !.known = AtTheFront(o, t) /\ (joins \/ o.known),
                   !.paid = IF o.activated THEN Smaller(@ + traded, o.volume) ELSE 0]
  BY <1>1, <1>2 DEF After
<1>4. /\ o.limit \in Prices /\ o.volume \in Nat \ {0} /\ o.remaining \in Nat \ {0} /\ o.queueAhead \in Nat
      /\ o.ahead \in Nat /\ o.paid \in Nat
  BY DEF Order
<1>5. o.activated \in BOOLEAN /\ o.known \in BOOLEAN /\ o.side \in {"Buy", "Sell"}
  BY DEF Order
<1>6. traded \in Nat
  BY <1>1, <1>4 DEF Lots
<1>7. PICK visible \in Nat : visible = VisibleQueue(o, t)
  BY VisibleQueueIsTyped DEF IsMarket
<1>8. m.lots \in Nat /\ m.lots <= o.remaining /\ m.queueAhead \in Nat
  BY DEF IsMatch
<1>9. m.activated \in BOOLEAN
  BY DEF IsMatch
<1>10. a \in Nat
  <2>1. CASE ~AtTheFront(o, t)
    BY <1>3, <2>1 DEF QueueMay
  <2>2. CASE AtTheFront(o, t) /\ joins
    BY <1>3, <1>7, <2>2 DEF QueueMay
  <2>3. CASE AtTheFront(o, t) /\ ~joins
    <3>1. a \in 0 .. Smaller(visible, Larger(0, o.ahead - traded))
      BY <1>3, <1>7, <2>3 DEF QueueMay
    <3>2. Smaller(visible, Larger(0, o.ahead - traded)) \in Nat
      BY <1>4, <1>6, <1>7 DEF Smaller, Larger
    <3> QED
      BY <3>1, <3>2
  <2> QED
    BY <2>1, <2>2, <2>3
<1>11. PICK known, paid : /\ known = (AtTheFront(o, t) /\ (joins \/ o.known))
                          /\ paid = IF o.activated THEN Smaller(o.paid + traded, o.volume) ELSE 0
  OBVIOUS
<1>12. known \in BOOLEAN
  BY <1>11
<1>13. /\ next.volume = o.volume /\ next.remaining = o.remaining - m.lots /\ next.queueAhead = m.queueAhead
       /\ next.ahead = a /\ next.paid = paid
  BY <1>3, <1>11 DEF Order
<1>14. next.known = known /\ next.activated = m.activated
  BY <1>3, <1>11 DEF Order
<1>15. paid \in Nat /\ paid <= o.volume
  BY <1>4, <1>6, <1>11 DEF IsPending, Smaller
<1>16. o.remaining - m.lots \in Nat \ {0}
  BY <1>4, <1>8
<1>17. next \in Order
  <2>1. next = [side |-> o.side, limit |-> o.limit, volume |-> o.volume, remaining |-> o.remaining - m.lots,
                queueAhead |-> m.queueAhead, activated |-> m.activated, ahead |-> a, known |-> known,
                paid |-> paid]
    BY <1>3, <1>11 DEF Order
  <2> QED
    BY <1>4, <1>5, <1>8, <1>9, <1>10, <1>12, <1>15, <1>16, <2>1 DEF Order
<1>18. o.volume - (o.remaining - m.lots) <= paid
  <2>1. CASE o.activated /\ m.lots = 0
    BY <1>4, <1>6, <1>11, <2>1 DEF IsPending, Smaller
  <2>2. CASE o.activated /\ m.lots # 0
    <3>1. o.volume - o.remaining + m.lots <= o.paid + traded
      BY <1>1, <2>2 DEF IsMatch, IsGain, IsWait
    <3> QED
      BY <1>4, <1>6, <1>8, <1>11, <2>2, <3>1 DEF Smaller
  <2>3. CASE ~o.activated
    <3>1. m.lots = 0
      BY <2>3 DEF IsMatch, IsWait
    <3>2. o.remaining = o.volume
      BY <2>3 DEF IsPending
    <3> QED
      BY <1>4, <1>11, <2>3, <3>1, <3>2
  <2> QED
    BY <1>5, <2>1, <2>2, <2>3
<1>19. ~m.activated => o.remaining - m.lots = o.volume /\ m.queueAhead = 0 /\ ~known
  <2> SUFFICES ASSUME ~m.activated PROVE o.remaining - m.lots = o.volume /\ m.queueAhead = 0 /\ ~known
    OBVIOUS
  <2>1. ~o.activated /\ m.queueAhead = o.queueAhead
    BY DEF IsMatch, IsWait
  <2>2. m.lots = 0
    BY <2>1 DEF IsMatch, IsWait
  <2>3. o.remaining = o.volume /\ o.queueAhead = 0 /\ ~o.known
    BY <2>1 DEF IsPending
  <2>4. ~known
    BY <1>2, <1>11, <2>3
  <2> QED
    BY <1>4, <2>1, <2>2, <2>3, <2>4
<1>20. Synthetic => o.remaining - m.lots = o.volume
  <2> SUFFICES ASSUME Synthetic PROVE o.remaining - m.lots = o.volume
    OBVIOUS
  <2>1. m.lots = 0
    BY DEF IsMatch, IsWait
  <2>2. o.remaining = o.volume
    BY DEF IsPending
  <2> QED
    BY <1>4, <2>1, <2>2
<1>21. Synthetic /\ QueuePercent >= 100 /\ known => a <= m.queueAhead
  <2> SUFFICES ASSUME Synthetic, QueuePercent >= 100, known PROVE a <= m.queueAhead
    OBVIOUS
  <2>1. AtTheFront(o, t) /\ (joins \/ o.known)
    BY <1>11
  <2>2. CASE joins
    <3>1. a = visible
      BY <1>3, <1>7, <2>1, <2>2 DEF QueueMay
    <3>2. visible <= m.queueAhead
      BY <1>2, <1>7, <2>2 DEF IsMatch, IsWait
    <3> QED
      BY <3>1, <3>2
  <2>3. CASE ~joins
    <3>1. o.known /\ o.activated
      BY <1>5, <2>1, <2>3 DEF IsPending
    <3>2. m.activated
      BY <3>1 DEF IsMatch, IsWait
    <3>3. m.queueAhead = Smaller(visible, Larger(0, o.queueAhead - traded))
      BY <1>1, <1>7, <3>1, <3>2 DEF IsMatch, IsWait, QueueAfter
    <3>4. a \in 0 .. Smaller(visible, Larger(0, o.ahead - traded))
      BY <1>3, <1>7, <2>1, <2>3 DEF QueueMay
    <3>5. o.ahead <= o.queueAhead
      BY <3>1 DEF IsPending
    <3>6. a <= Smaller(visible, Larger(0, o.ahead - traded))
      <4>1. Smaller(visible, Larger(0, o.ahead - traded)) \in Nat
        BY <1>4, <1>6, <1>7 DEF Smaller, Larger
      <4> QED
        BY <3>4, <4>1
    <3> QED
      BY <1>4, <1>6, <1>7, <1>10, <3>3, <3>5, <3>6 DEF Smaller, Larger
  <2> QED
    BY <2>2, <2>3
<1>22. o.remaining - m.lots <= o.volume
  BY <1>4, <1>8 DEF IsPending
<1>23. IsPending(next)
  BY <1>13, <1>14, <1>15, <1>18, <1>19, <1>20, <1>21, <1>22 DEF IsPending
<1> QED
  BY <1>14, <1>17, <1>23

-----------------------------------------------------------------------------
(* A replay of one order.                                                  *)

MatchSpec == MatchInit /\ [][MatchNext]_matchVars

MatchInv ==
    /\ setup \in Setups
    /\ quote # NoQuote => IsQuote(quote)
    /\ order # NoOrder => /\ order \in Order /\ IsPending(order) /\ quote # NoQuote
                          /\ ~Synthetic => order.activated

\* Native orders are replayed on a contract of multiplier 1, or without turnover.
NativeIsFlat == \A s \in Setups : s.policy = "NativeOrder" /\ s.turnover => s.multiplier = 1

LEMMA SetupsAreSetups ==
    ASSUME setup \in Setups
    PROVE  IsSetup /\ setup.policy \in {"NativeOrder", "RuntimeSyntheticFill"}
BY MatchingAssumption DEF IsSetup

LEMMA FlowIsFlow ==
    ASSUME NEW p, NEW t, IsMarket(p, t), setup \in Setups, NEW flow, flow = Flow(p, t)
    PROVE  /\ flow.at \in Lots
           /\ Synthetic \/ NativeIsFlat => IsFlow(p, t, flow)
           /\ Synthetic /\ p # NoQuote =>
                 /\ Total(flow.at) = t.volume
                 /\ setup.mode # 0 /\ setup.turnover => Value(flow.at) = Amount(t)
<1>1. CASE Synthetic /\ p # NoQuote
  <2>1. flow = infer_synthetic_trade_flow(p, t)
    BY <1>1 DEF Flow
  <2>2. IsFlow(p, t, flow)
    BY <1>1, <2>1, SyntheticFlow
  <2>3. /\ Total(flow.at) = t.volume
        /\ setup.mode # 0 /\ setup.turnover => Value(flow.at) = Amount(t)
    BY <1>1, <2>1, SyntheticFlow
  <2> QED
    BY <1>1, <2>2, <2>3 DEF IsFlow
<1>2. CASE Synthetic /\ p = NoQuote
  <2>1. flow = NoFlow(t)
    BY <1>2 DEF Flow, infer_synthetic_trade_flow
  <2> QED
    BY <1>2, <2>1, NoFlowIsFlow
<1>3. CASE ~Synthetic
  <2>1. flow = infer_trade_flow(p, t)
    BY <1>3 DEF Flow
  <2>2. ASSUME NativeIsFlat PROVE setup.turnover => setup.multiplier = 1
    BY <1>3, <2>2, SetupsAreSetups DEF NativeIsFlat, Synthetic
  <2>3. ASSUME NativeIsFlat PROVE IsFlow(p, t, flow)
    BY <2>1, <2>2, <2>3, NativeFlow
  <2>4. flow.at \in Lots
    BY <2>1, NativeFlow
  <2> QED
    BY <1>3, <2>3, <2>4
<1> QED
  BY <1>1, <1>2, <1>3

LEMMA TicksAreTicks ==
    ASSUME MatchInv, NEW b \in Books, NEW trades \in Trades, NEW last \in LastPrices(trades),
           NEW t, t = TickOf(b, trades, last)
    PROVE  IsMarket(quote, t) /\ t.bid \in Prices /\ t.bidSize \in Sizes /\ t.ask \in Prices
           /\ t.askSize \in Sizes /\ t.last \in Prices
<1>1. /\ b.bid \in Prices /\ b.ask \in Prices /\ b.bidSize \in Sizes /\ b.askSize \in Sizes
      /\ b.bid < b.ask
  BY DEF Books
<1>2. trades \in Lots
  BY MatchingAssumption DEF Lots
<1>3. Total(trades) \in Nat
  BY <1>2, LotsAreCounted
<1>4. last \in Prices /\ (Total(trades) > 0 => trades[last] > 0)
  <2>1. CASE Total(trades) > 0
    BY <2>1 DEF LastPrices
  <2>2. CASE ~(Total(trades) > 0) /\ quote = NoQuote
    BY <2>2 DEF LastPrices
  <2>3. CASE ~(Total(trades) > 0) /\ quote # NoQuote
    BY <2>3 DEF LastPrices, MatchInv, IsQuote
  <2> QED
    BY <2>1, <2>2, <2>3
<1>5. /\ t.bid = b.bid /\ t.ask = b.ask /\ t.bidSize = b.bidSize /\ t.askSize = b.askSize /\ t.last = last
      /\ t.trades = trades /\ t.volume = Total(trades)
  BY DEF TickOf
<1>6. t.money = IF setup.turnover THEN setup.multiplier * Value(trades) ELSE 0
  BY DEF TickOf
<1>7. IsQuote(t)
  BY <1>1, <1>4, <1>5, MatchingAssumption DEF IsQuote
<1>8. IsTick(t)
  <2>1. setup.turnover => t.money = setup.multiplier * Value(t.trades)
    BY <1>5, <1>6
  <2>2. ~setup.turnover => t.money = 0
    BY <1>6
  <2> QED
    BY <1>1, <1>2, <1>4, <1>5, <1>7, <2>1, <2>2 DEF IsTick
<1>9. IsSetup
  BY SetupsAreSetups DEF MatchInv
<1> QED
  BY <1>1, <1>4, <1>5, <1>8, <1>9 DEF IsMarket, MatchInv

\* No fill is worse than the limit.
LEMMA FillPriceHolds ==
    ASSUME NEW p, NEW t, IsMarket(p, t), NEW o \in Order
    PROVE  /\ o.side = "Buy" => fill_price(o, p, t) <= o.limit
           /\ o.side # "Buy" => fill_price(o, p, t) >= o.limit
<1>1. /\ t.ask \in Nat /\ t.bid \in Nat /\ o.limit \in Nat /\ o.side \in {"Buy", "Sell"}
      /\ p # NoQuote => p.ask \in Nat /\ p.bid \in Nat
  BY TickFacts, PricesArePositive DEF IsMarket, IsQuote, Order
<1>2. CASE p = NoQuote
  BY <1>1, <1>2 DEF fill_price
<1>3. CASE p # NoQuote /\ o.side = "Buy"
  BY <1>1, <1>3 DEF fill_price, Larger
<1>4. CASE p # NoQuote /\ o.side = "Sell"
  BY <1>1, <1>4 DEF fill_price, Smaller
<1> QED
  BY <1>1, <1>2, <1>3, <1>4

LEMMA SeenIsFinite ==
    ASSUME NEW p, NEW t, IsMarket(p, t)
    PROVE  /\ Seen(p, t) \subseteq Int
           /\ \E x \in Seen(p, t) : \A y \in Seen(p, t) : x <= y
           /\ \E x \in Seen(p, t) : \A y \in Seen(p, t) : x >= y
<1>1. PICK S : S = Seen(p, t)
  OBVIOUS
<1>2. S \subseteq Prices /\ t.bid \in S
  BY <1>1, TickFacts DEF Seen, IsMarket, IsQuote
<1>3. S \subseteq Int /\ S # {}
  BY <1>2, PricesArePositive
<1>4. Adding!IsFiniteSet(S)
  <2>1. IsFiniteSet(S)
    BY <1>2, PricesAreFinite, FS_Subset
  <2> QED
    BY <2>1 DEF Adding!IsFiniteSet, IsFiniteSet
<1> QED
  BY <1>1, <1>3, <1>4, Adding!LeastExists, Adding!GreatestExists

\* What a match of an order leaves: a pending order, and a fill that holds.
FillInv == (NativeIsFlat => LimitHolds) /\ FillsArePaidFor /\ (QueuePercent >= 100 => NobodyJumpsTheQueue)

LEMMA MatchHolds ==
    ASSUME MatchInv, NEW p, p = quote, NEW t, IsMarket(p, t), NEW o \in Order, IsPending(o),
           NEW flow, flow = Flow(p, t), NEW m, IsMatch(o, m, p, t, flow), Match(o, m, p, t)
    PROVE  FillInv'
<1>1. setup' = setup /\ fill' = Fills(o, m, p, t) /\ setup \in Setups
  BY DEF Match, MatchInv
<1>2. /\ flow.at \in Lots
      /\ Synthetic \/ NativeIsFlat => IsFlow(p, t, flow)
      /\ Synthetic /\ p # NoQuote =>
            /\ Total(flow.at) = t.volume
            /\ setup.mode # 0 /\ setup.turnover => Value(flow.at) = Amount(t)
  BY <1>1, FlowIsFlow
<1>3. Synthetic' <=> Synthetic
  BY <1>1 DEF Synthetic
<1>4. CASE fill' = NoFill
  BY <1>4 DEF FillInv, LimitHolds, FillsArePaidFor, FlowAddsUp, NobodyJumpsTheQueue
<1>5. CASE fill' # NoFill
  <2>1. m.lots # 0 /\ fill' = [order   |-> o,
                               lots    |-> m.lots,
                               price   |-> fill_price(o, p, t),
                               through |-> Crosses(o, t, flow),
                               flow    |-> flow.at,
                               volume  |-> t.volume,
                               amount  |-> Amount(t),
                               seen    |-> Seen(p, t)]
    BY <1>1, <1>5 DEF Fills, Amount
  <2>2. PICK g : g = fill'
    OBVIOUS
  <2>3. /\ g.order = o /\ g.lots = m.lots /\ g.price = fill_price(o, p, t)
        /\ g.flow = flow.at /\ g.volume = t.volume /\ g.amount = Amount(t) /\ g.seen = Seen(p, t)
    BY <2>1, <2>2
  <2>4. g.through = Crosses(o, t, flow)
    BY <2>1, <2>2
  <2>5. IsGain(o, m, p, t, flow)
    BY DEF IsMatch
  <2>6. o.limit \in Prices /\ o.side \in {"Buy", "Sell"} /\ o.limit \in Int
    BY PricesArePositive DEF Order
  <2>7. ASSUME NativeIsFlat PROVE LimitHolds'
    <3>1. IsFlow(p, t, flow)
      BY <1>2, <2>7
    <3>2. /\ o.side = "Buy" => \E s \in Seen(p, t) : s <= o.limit
          /\ o.side # "Buy" => \E s \in Seen(p, t) : o.limit <= s
      <4>1. CASE Crosses(o, t, flow)
        BY <2>6, <3>1, <4>1, CrossedIsReached
      <4>2. CASE ~Crosses(o, t, flow)
        <5>1. flow.at[o.limit] > 0
          BY <2>1, <2>5, <4>2 DEF IsGain
        <5>2. InReach(p, t, o.limit)
          BY <2>6, <3>1, <5>1 DEF IsFlow
        <5> QED
          BY <5>2 DEF InReach
      <4> QED
        BY <4>1, <4>2
    <3>3. PICK S : S = Seen(p, t)
      OBVIOUS
    <3>4. S \subseteq Int /\ Min(S) \in S /\ Max(S) \in S
          /\ (\A y \in S : Min(S) <= y) /\ (\A y \in S : Max(S) >= y)
      BY <3>3, SeenIsFinite, MinIsLeast, MaxIsGreatest
    <3>5. /\ o.side = "Buy" => fill_price(o, p, t) <= o.limit
          /\ o.side # "Buy" => fill_price(o, p, t) >= o.limit
      BY FillPriceHolds
    <3>6. o.side = "Buy" => o.limit >= Min(S)
      BY <2>6, <3>2, <3>3, <3>4
    <3>7. o.side # "Buy" => o.limit <= Max(S)
      BY <2>6, <3>2, <3>3, <3>4
    <3>8. IF g.order.side = "Buy"
          THEN g.price <= g.order.limit /\ g.order.limit >= Min(g.seen)
          ELSE g.price >= g.order.limit /\ g.order.limit <= Max(g.seen)
      BY <2>3, <3>3, <3>5, <3>6, <3>7
    <3> QED
      BY <2>2, <3>8 DEF LimitHolds
  <2>8. FillsArePaidFor'
    <3>1. FlowAddsUp'
      <4> SUFFICES ASSUME Synthetic
                   PROVE  /\ Total(g.flow) = g.volume
                          /\ setup.mode # 0 /\ setup.turnover => Value(g.flow) = g.amount
        BY <1>1, <1>3, <2>2 DEF FlowAddsUp
      <4>1. p # NoQuote
        BY <2>1, <2>5 DEF IsGain
      <4> QED
        BY <1>2, <2>3, <4>1
    <3>2. ASSUME ~g.through
          PROVE  /\ g.order.volume - g.order.remaining + g.lots <= g.order.paid + g.flow[g.order.limit]
                 /\ Synthetic => g.lots = g.order.volume /\ g.lots <= g.flow[g.order.limit]
      <4>1. ~Crosses(o, t, flow)
        BY <2>4, <3>2
      <4>2. /\ o.volume - o.remaining + m.lots <= o.paid + flow.at[o.limit]
            /\ Synthetic => m.lots = o.volume /\ m.lots <= flow.at[o.limit]
        BY <2>1, <2>5, <4>1 DEF IsGain
      <4> QED
        BY <2>3, <4>2
    <3> QED
      BY <1>3, <2>2, <3>1, <3>2 DEF FillsArePaidFor, TradedAtLimit
  <2>9. ASSUME QueuePercent >= 100 PROVE NobodyJumpsTheQueue'
    <3>1. ASSUME Synthetic, ~g.through, g.order.known PROVE g.order.ahead + g.lots <= g.flow[g.order.limit]
      <4>1. ~Crosses(o, t, flow)
        BY <2>4, <3>1
      <4>2. o.known
        BY <2>3, <3>1
      <4>3. o.ahead + m.lots <= flow.at[o.limit]
        BY <2>1, <2>5, <2>9, <3>1, <4>1, <4>2 DEF IsGain
      <4> QED
        BY <2>3, <4>3
    <3> QED
      BY <1>3, <2>2, <3>1 DEF NobodyJumpsTheQueue, TradedAtLimit
  <2> QED
    BY <2>7, <2>8, <2>9 DEF FillInv
<1> QED
  BY <1>4, <1>5

LEMMA MatchStep ==
    ASSUME MatchInv, NEW t, IsMarket(quote, t), NEW o \in Order, IsPending(o),
           t.bid \in Prices, t.bidSize \in Sizes, t.ask \in Prices, t.askSize \in Sizes, t.last \in Prices,
           NEW m, NEW flow, flow = Flow(quote, t), IsMatch(o, m, quote, t, flow), Match(o, m, quote, t)
    PROVE  MatchInv' /\ FillInv'
<1>1. /\ setup' = setup
      /\ order' \in IF m.lots = o.remaining THEN {NoOrder} ELSE After(o, m, quote, t)
  BY DEF Match
<1>2. Remembers(t)
  BY DEF Match
<1>3. quote' # NoQuote /\ IsQuote(quote')
  <2>1. PICK q : q = quote'
    OBVIOUS
  <2>2. q = [bid |-> t.bid, ask |-> t.ask, bidSize |-> t.bidSize, askSize |-> t.askSize, last |-> t.last]
    BY <1>2, <2>1 DEF Remembers
  <2>3. q \in [bid : Prices, ask : Prices, bidSize : Sizes, askSize : Sizes, last : Prices]
    BY <2>2
  <2>4. q # NoQuote
    BY <2>3, MatchingAssumption
  <2>5. q.bidSize \in Nat \ {0} /\ q.askSize \in Nat \ {0}
    BY <2>3, MatchingAssumption
  <2>6. IsQuote(q)
    BY <2>3, <2>5 DEF IsQuote
  <2> QED
    BY <2>1, <2>4, <2>6
<1>4. Synthetic' <=> Synthetic
  BY <1>1 DEF Synthetic
<1>5. ASSUME order' # NoOrder
      PROVE  order' \in Order /\ IsPending(order)' /\ (~Synthetic => order'.activated)
  <2>1. m.lots # o.remaining /\ order' \in After(o, m, quote, t)
    BY <1>1, <1>5
  <2>2. PICK next \in After(o, m, quote, t) : next = order'
    BY <2>1
  <2>3. flow.at \in Lots
    BY FlowIsFlow DEF MatchInv
  <2>4. next \in Order /\ IsPending(next) /\ next.activated = m.activated
    BY <2>1, <2>3, PendingAgain
  <2>5. ~Synthetic => m.activated
    BY <2>1 DEF IsMatch, IsWait
  <2>6. IsPending(order)'
    BY <1>4, <2>2, <2>4 DEF IsPending
  <2> QED
    BY <2>2, <2>4, <2>5, <2>6
<1>6. MatchInv'
  BY <1>1, <1>3, <1>4, <1>5 DEF MatchInv
<1>7. FillInv'
  BY MatchHolds
<1> QED
  BY <1>6, <1>7

LEMMA MatchingStarts == MatchInit => MatchInv /\ FillInv
BY DEF MatchInit, MatchInv, FillInv, LimitHolds, FillsArePaidFor, FlowAddsUp, NobodyJumpsTheQueue

LEMMA MatchingStays == MatchInv /\ FillInv /\ [MatchNext]_matchVars => MatchInv' /\ FillInv'
<1> SUFFICES ASSUME MatchInv, FillInv, [MatchNext]_matchVars
             PROVE  MatchInv' /\ FillInv'
  OBVIOUS
<1>1. CASE UNCHANGED matchVars
  <2>1. setup' = setup /\ quote' = quote /\ order' = order /\ fill' = fill
    BY <1>1 DEF matchVars
  <2>2. Synthetic' <=> Synthetic
    BY <2>1 DEF Synthetic
  <2>3. MatchInv'
    BY <2>1, <2>2 DEF MatchInv, IsPending
  <2>4. LimitHolds' <=> LimitHolds
    BY <2>1 DEF LimitHolds
  <2>5. FillsArePaidFor' <=> FillsArePaidFor
    BY <2>1, <2>2 DEF FillsArePaidFor, FlowAddsUp, TradedAtLimit
  <2>6. NobodyJumpsTheQueue' <=> NobodyJumpsTheQueue
    BY <2>1, <2>2 DEF NobodyJumpsTheQueue, TradedAtLimit
  <2> QED
    BY <2>3, <2>4, <2>5, <2>6 DEF FillInv
<1>2. CASE MatchNext
  <2>1. PICK b \in Books, trades \in Trades :
           \E last \in LastPrices(trades) :
              \E t : /\ t = TickOf(b, trades, last)
                     /\ ServiceOrder(t) \/ SubmitOrder(t) \/ QuietTick(t)
    BY <1>2 DEF MatchNext
  <2>2. PICK last \in LastPrices(trades) :
           \E t : /\ t = TickOf(b, trades, last)
                  /\ ServiceOrder(t) \/ SubmitOrder(t) \/ QuietTick(t)
    BY <2>1
  <2>3. PICK t : /\ t = TickOf(b, trades, last)
                 /\ ServiceOrder(t) \/ SubmitOrder(t) \/ QuietTick(t)
    BY <2>2
  <2>4. /\ IsMarket(quote, t) /\ t.bid \in Prices /\ t.bidSize \in Sizes /\ t.ask \in Prices
        /\ t.askSize \in Sizes /\ t.last \in Prices
    BY <2>3, TicksAreTicks
  <2>5. PICK flow : flow = Flow(quote, t)
    OBVIOUS
  <2>6. CASE ServiceOrder(t)
    <3>1. order # NoOrder /\ Match(order, Service(order, quote, t), quote, t)
      BY <2>6 DEF ServiceOrder
    <3>2. PICK o \in Order : o = order
      BY <3>1 DEF MatchInv
    <3>3. IsPending(o) /\ quote # NoQuote /\ (~Synthetic => o.activated)
      BY <3>1, <3>2 DEF MatchInv
    <3>4. PICK m : m = Service(o, quote, t)
      OBVIOUS
    <3>5. IsMatch(o, m, quote, t, flow)
      <4>1. CASE Synthetic
        <5>1. m = synthetic_resting_fill_volume(o, quote, t) /\ flow = infer_synthetic_trade_flow(quote, t)
          BY <2>5, <3>4, <4>1 DEF Service, Flow
        <5> QED
          BY <2>4, <3>3, <4>1, <5>1, SyntheticMatch
      <4>2. CASE ~Synthetic
        <5>1. m = resting_fill_volume(o, quote, t) /\ flow = infer_trade_flow(quote, t)
          BY <2>5, <3>4, <4>2 DEF Service, Flow
        <5> QED
          BY <2>4, <3>3, <4>2, <5>1, NativeMatch
      <4> QED
        BY <4>1, <4>2
    <3>6. Match(o, m, quote, t)
      BY <3>1, <3>2, <3>4
    <3> QED
      BY <2>4, <2>5, <3>3, <3>5, <3>6, MatchStep
  <2>7. CASE SubmitOrder(t)
    <3>1. PICK side \in {"Buy", "Sell"}, limit \in Prices, volume \in Volumes :
             \E o : o = NewOrder(side, limit, volume) /\ Match(o, Arrival(o, quote, t), quote, t)
      BY <2>7 DEF SubmitOrder
    <3>2. PICK o : o = NewOrder(side, limit, volume) /\ Match(o, Arrival(o, quote, t), quote, t)
      BY <3>1
    <3>3. volume \in Nat \ {0}
      BY MatchingAssumption
    <3>4. o \in Order /\ IsPending(o) /\ ~o.activated
      BY <3>2, <3>3, NewOrderIsPending
    <3>5. PICK m : m = Arrival(o, quote, t)
      OBVIOUS
    <3>6. IsMatch(o, m, quote, t, flow)
      <4>1. CASE Synthetic
        <5>1. m = synthetic_resting_fill_volume(o, quote, t) /\ flow = infer_synthetic_trade_flow(quote, t)
          BY <2>5, <3>5, <4>1 DEF Arrival, Flow
        <5> QED
          BY <2>4, <3>4, <4>1, <5>1, SyntheticMatch
      <4>2. CASE ~Synthetic
        <5>1. flow = infer_trade_flow(quote, t)
          BY <2>5, <4>2 DEF Flow
        <5> QED
          BY <2>4, <3>4, <3>5, <4>2, <5>1, NativeArrival
      <4> QED
        BY <4>1, <4>2
    <3>7. Match(o, m, quote, t)
      BY <3>2, <3>5
    <3> QED
      BY <2>4, <2>5, <3>4, <3>6, <3>7, MatchStep
  <2>8. CASE QuietTick(t)
    <3>1. order = NoOrder /\ order' = order /\ setup' = setup /\ fill' = NoFill /\ Remembers(t)
      BY <2>8 DEF QuietTick
    <3>2. IsQuote(quote')
      <4>1. PICK q : q = quote'
        OBVIOUS
      <4>2. q = [bid |-> t.bid, ask |-> t.ask, bidSize |-> t.bidSize, askSize |-> t.askSize, last |-> t.last]
        BY <3>1, <4>1 DEF Remembers
      <4>3. q.bidSize \in Nat \ {0} /\ q.askSize \in Nat \ {0}
        BY <2>4, <4>2, MatchingAssumption
      <4>4. IsQuote(q)
        BY <2>4, <4>2, <4>3 DEF IsQuote
      <4> QED
        BY <4>1, <4>4
    <3>3. MatchInv'
      BY <3>1, <3>2 DEF MatchInv
    <3>4. FillInv'
      BY <3>1 DEF FillInv, LimitHolds, FillsArePaidFor, FlowAddsUp, NobodyJumpsTheQueue
    <3> QED
      BY <3>3, <3>4
  <2> QED
    BY <2>3, <2>6, <2>7, <2>8
<1> QED
  BY <1>1, <1>2

LEMMA MatchingHolds == MatchSpec => [](MatchInv /\ FillInv)
<1>1. MatchInit => MatchInv /\ FillInv
  BY MatchingStarts
<1>2. MatchInv /\ FillInv /\ [MatchNext]_matchVars => (MatchInv /\ FillInv)'
  BY MatchingStays
<1> QED
  BY <1>1, <1>2, PTL DEF MatchSpec

\* LimitHolds: a buy never pays more than its limit and a sell never gets less,
\* and an order fills only if its limit was within reach of some quote or trade
\* of the interval, whatever the recorded ticks and however the flow between
\* them is inferred.  For native orders the code's average price leaves the
\* contract's multiplier out: the theorem is about those for which it may.
THEOREM FillsAreInReach ==
    ASSUME NativeIsFlat
    PROVE  MatchSpec => []LimitHolds
<1>1. FillInv => LimitHolds
  BY DEF FillInv
<1> QED
  BY <1>1, MatchingHolds, PTL

\* FillsArePaidFor: the inferred flow of a synthetic order holds every lot of
\* the interval once and makes up the recorded turnover (platform.cpp 607-773),
\* and lots handed to a waiting order were traded at its price since it waits.
THEOREM EveryFillIsPaidFor == MatchSpec => []FillsArePaidFor
<1>1. FillInv => FillsArePaidFor
  BY DEF FillInv
<1> QED
  BY <1>1, MatchingHolds, PTL

\* NobodyJumpsTheQueue: with the whole queue counted (queue_ahead_ratio 1, the
\* default, or more) the synthetic matcher fills an order whose price stayed the
\* best only by trades that had used up what an exchange could have before it.
THEOREM QueueIsWaitedFor ==
    ASSUME QueuePercent >= 100
    PROVE  MatchSpec => []NobodyJumpsTheQueue
<1>1. FillInv => NobodyJumpsTheQueue
  BY DEF FillInv
<1> QED
  BY <1>1, MatchingHolds, PTL

-----------------------------------------------------------------------------
(* The tick stream.  First, what the two sorts of the model do: the plan is *)
(* made by one of them, everything that is loaded is put in order by one.   *)

StrictOrder(S, B) ==
    /\ \A x \in S : <<x, x>> \notin B
    /\ \A x, y \in S : x # y => <<x, y>> \in B \/ <<y, x>> \in B
    /\ \A x, y, z \in S : <<x, y>> \in B /\ <<y, z>> \in B => <<x, z>> \in B

Earlier(S, B, x) == {y \in S : <<y, x>> \in B}
Rank(S, B, x) == Cardinality(Earlier(S, B, x))

\* An element comes after another one if and only if it has more before it.
LEMMA RanksRise ==
    ASSUME NEW S, IsFiniteSet(S), NEW B, StrictOrder(S, B)
    PROVE  /\ \A x \in S : Rank(S, B, x) \in 0 .. Cardinality(S) - 1
           /\ \A x, y \in S : <<x, y>> \in B => Rank(S, B, x) < Rank(S, B, y)
<1>1. ASSUME NEW x \in S PROVE IsFiniteSet(Earlier(S, B, x)) /\ Rank(S, B, x) \in 0 .. Cardinality(S) - 1
  <2>1. Earlier(S, B, x) \in SUBSET (S \ {x})
    BY <1>1 DEF Earlier, StrictOrder
  <2>2. IsFiniteSet(S \ {x}) /\ Cardinality(S \ {x}) = Cardinality(S) - 1
    BY <1>1, FS_RemoveElement
  <2>3. IsFiniteSet(Earlier(S, B, x)) /\ Cardinality(Earlier(S, B, x)) <= Cardinality(S) - 1
    BY <2>1, <2>2, FS_Subset
  <2>4. Cardinality(S) \in Nat /\ Cardinality(Earlier(S, B, x)) \in Nat
    BY <2>3, FS_CardinalityType
  <2> QED
    BY <2>3, <2>4 DEF Rank
<1>2. ASSUME NEW x \in S, NEW y \in S, <<x, y>> \in B PROVE Rank(S, B, x) < Rank(S, B, y)
  <2>1. x \notin Earlier(S, B, x)
    BY DEF Earlier, StrictOrder
  <2>2. Earlier(S, B, x) \cup {x} \in SUBSET Earlier(S, B, y)
    <3>1. \A z \in S : <<z, x>> \in B => <<z, y>> \in B
      BY <1>2 DEF StrictOrder
    <3> QED
      BY <1>2, <3>1 DEF Earlier
  <2>3. Cardinality(Earlier(S, B, x) \cup {x}) = Rank(S, B, x) + 1
    BY <1>1, <2>1, FS_AddElement DEF Rank
  <2>4. Cardinality(Earlier(S, B, x) \cup {x}) <= Rank(S, B, y)
    BY <1>1, <2>2, FS_Subset DEF Rank
  <2> QED
    BY <1>1, <2>3, <2>4
<1> QED
  BY <1>1, <1>2

\* A stable sort hands out every element once, in order: o puts S in order.
PutsInOrder(o, S, B) ==
    /\ DOMAIN o = 1 .. Cardinality(S) /\ Cardinality(S) \in Nat
    /\ o \in [1 .. Cardinality(S) -> S]
    /\ \A m, n \in DOMAIN o : m < n => <<o[m], o[n]>> \in B
    /\ \A x \in S : Rank(S, B, x) + 1 \in DOMAIN o /\ o[Rank(S, B, x) + 1] = x

\* ... and so the sort the model is written with puts any finite set in order.
LEMMA SortingWorks ==
    ASSUME NEW S, IsFiniteSet(S), NEW B, StrictOrder(S, B), NEW o, o = InOrder(S, B)
    PROVE  PutsInOrder(o, S, B)
<1>1. PICK N \in Nat : N = Cardinality(S)
  BY FS_CardinalityType
<1>2. PICK rank : rank = [x \in S |-> Rank(S, B, x)]
  OBVIOUS
<1>3. /\ rank \in [S -> 0 .. N - 1]
      /\ \A x, y \in S : x # y => rank[x] < rank[y] \/ rank[y] < rank[x]
      /\ \A x, y \in S : <<x, y>> \in B => rank[x] < rank[y]
  BY <1>1, <1>2, RanksRise DEF StrictOrder
<1>4. \A x, y \in S : rank[x] < rank[y] => <<x, y>> \in B
  <2> SUFFICES ASSUME NEW x \in S, NEW y \in S, rank[x] < rank[y], <<x, y>> \notin B PROVE FALSE
    OBVIOUS
  <2>1. x # y
    BY <1>3
  <2>2. <<y, x>> \in B
    BY <2>1 DEF StrictOrder
  <2> QED
    BY <1>3, <2>2
<1>5. \A n \in 0 .. N - 1 : \E x \in S : rank[x] = n
  <2>1. rank \in Injection(S, 0 .. N - 1)
    <3>1. \A x, y \in S : rank[x] = rank[y] => x = y
      BY <1>3
    <3> QED
      BY <1>3, <3>1 DEF Injection, IsInjective
  <2>2. IsFiniteSet(0 .. N - 1) /\ Cardinality(0 .. N - 1) = N
    BY FS_Interval
  <2>3. rank \in Surjection(S, 0 .. N - 1)
    BY <1>1, <2>1, <2>2, FS_Injection
  <2> QED
    BY <2>3 DEF Surjection
<1>6. ASSUME NEW x \in S PROVE (CHOOSE z \in S : Rank(S, B, z) = rank[x]) = x
  <2>1. \A z \in S : Rank(S, B, z) = rank[x] <=> z = x
    BY <1>2, <1>3
  <2> QED
    BY <2>1
<1>7. \A n \in 1 .. N : o[n] = CHOOSE z \in S : Rank(S, B, z) = n - 1
  BY <1>1 DEF InOrder, Rank, Earlier
<1>8. \A x \in S : rank[x] + 1 \in 1 .. N /\ o[rank[x] + 1] = x
  <2> SUFFICES ASSUME NEW x \in S PROVE rank[x] + 1 \in 1 .. N /\ o[rank[x] + 1] = x
    OBVIOUS
  <2>1. PICK n \in 1 .. N : n = rank[x] + 1 /\ n - 1 = rank[x]
    BY <1>3
  <2> QED
    BY <1>6, <1>7, <2>1
<1>9. \A n \in 1 .. N : o[n] \in S /\ rank[o[n]] = n - 1
  <2> SUFFICES ASSUME NEW n \in 1 .. N PROVE o[n] \in S /\ rank[o[n]] = n - 1
    OBVIOUS
  <2>1. PICK x \in S : rank[x] = n - 1
    BY <1>5
  <2> QED
    BY <1>8, <2>1
<1>10. o \in [1 .. N -> S]
  <2> DEFINE at(n) == CHOOSE x \in S : Cardinality({y \in S : <<y, x>> \in B}) = n - 1
  <2>1. o = [n \in 1 .. N |-> at(n)]
    BY <1>1 DEF InOrder
  <2>2. \A n \in 1 .. N : at(n) = o[n]
    BY <2>1
  <2> HIDE DEF at
  <2> QED
    BY <1>9, <2>1, <2>2
<1>11. \A m, n \in 1 .. N : m < n => <<o[m], o[n]>> \in B
  BY <1>4, <1>9
<1> QED
  BY <1>1, <1>2, <1>8, <1>9, <1>10, <1>11 DEF PutsInOrder

-----------------------------------------------------------------------------
(* Ticks, and what a file is read into.                                     *)

Tick == [day : Nat, at : Nat, sym : Nat, book : Nat]
StoredRow == [at : Nat, sym : Nat, book : Nat]
TicksOf(day) == {t \in Tick : t.day = day}

Read(f, row, read) == read_next_tick(f, read, row)
Skip(e, t, kept) == KeepNew(kept, t)

Reading == INSTANCE FoldFacts WITH Op <- Read, Pick <- LastOf, At <- Item
Skipping == INSTANCE FoldFacts WITH Op <- Skip, Pick <- LastOf, At <- Item

\* The last of an initial part of a sequence is taken first.
LEMMA LastIsChosen ==
    ASSUME NEW n \in Nat
    PROVE  /\ Skipping!IsFiniteSet(1 .. n) /\ Reading!IsFiniteSet(1 .. n)
           /\ Skipping!Chosen(1 .. n) /\ Reading!Chosen(1 .. n)
           /\ n > 0 => LastOf(1 .. n) = n
<1>1. 1 .. n \subseteq Int /\ IsFiniteSet(1 .. n)
  BY FS_Interval
<1>2. ASSUME NEW T \in SUBSET (1 .. n), T # {}
      PROVE  LastOf(T) \in T
  <2>1. IsFiniteSet(T) /\ T \subseteq Int
    BY <1>1, FS_Subset
  <2>2. Skipping!IsFiniteSet(T)
    BY <2>1 DEF Skipping!IsFiniteSet, IsFiniteSet
  <2>3. \E m \in T : \A k \in T : m >= k
    BY <1>2, <2>1, <2>2, Skipping!GreatestExists
  <2> QED
    BY <2>3 DEF LastOf, Max
<1>3. Skipping!Chosen(1 .. n) /\ Reading!Chosen(1 .. n)
  BY <1>2 DEF Skipping!Chosen, Reading!Chosen
<1>4. n > 0 => LastOf(1 .. n) = n
  <2> SUFFICES ASSUME n > 0 PROVE LastOf(1 .. n) = n
    OBVIOUS
  <2>1. \A x \in 1 .. n : (\A y \in 1 .. n : x >= y) <=> x = n
    OBVIOUS
  <2> QED
    BY <2>1 DEF LastOf, Max
<1> QED
  BY <1>1, <1>3, <1>4 DEF Skipping!IsFiniteSet, Reading!IsFiniteSet, IsFiniteSet

\* A reader hands out ticks of its file's day.
LEMMA TicksTyped ==
    ASSUME NEW f \in File
    PROVE  Ticks(f) \in Seq(TicksOf(f.day))
<1>1. PICK rows \in Seq(StoredRow) : rows = f.rows
  BY DEF File, StoredRow
<1>2. PICK n \in Nat : n = Len(rows) /\ DOMAIN rows = 1 .. n
  OBVIOUS
<1>3. PICK S : S = 1 .. n
  OBVIOUS
<1>4. Reading!IsFiniteSet(S) /\ Reading!Chosen(S)
  BY <1>3, LastIsChosen
<1>5. Ticks(f) = Reading!Fold(S, <<>>, rows, f)[S]
  BY <1>1, <1>2, <1>3 DEF Ticks, FoldLeft, MapThenFoldSet, Reading!Fold, Reading!Solves, LastOf, Item, Read
<1>6. PICK Good : Good = Seq(TicksOf(f.day))
  OBVIOUS
<1>7. <<>> \in Good
  BY <1>6
<1>8. \A i \in S : \A read \in Good : Read(f, Item(rows, i), read) \in Good
  <2> SUFFICES ASSUME NEW i \in S, NEW read \in Good
               PROVE  Read(f, Item(rows, i), read) \in Good
    OBVIOUS
  <2>1. PICK row \in StoredRow : row = rows[i]
    BY <1>2, <1>3, ElementOfSeq
  <2>2. PICK t \in TicksOf(f.day) : t = [day |-> f.day, at |-> row.at, sym |-> row.sym, book |-> row.book]
    BY DEF TicksOf, Tick, File, StoredRow
  <2>3. Read(f, Item(rows, i), read) \in {read, Append(read, t)}
    BY <2>1, <2>2 DEF Read, Item, read_next_tick
  <2>4. Append(read, t) \in Good
    BY <1>6
  <2> QED
    BY <2>3, <2>4
<1>9. Reading!Fold(S, <<>>, rows, f)[S] \in Good
  BY <1>4, <1>7, <1>8, Reading!FoldKeeps
<1> QED
  BY <1>5, <1>6, <1>9

\* What is left of a sequence, place by place, when repetitions are skipped.
Thins(D, seq, n) ==
    /\ D[0] = <<>>
    /\ \A m \in 1 .. n : D[m] = KeepNew(D[m - 1], seq[m])

\* Freeing a sequence of repetitions goes place by place.
LEMMA DedupeThins ==
    ASSUME NEW seq, NEW n \in Nat, DOMAIN seq = 1 .. n
    PROVE  \E D : Thins(D, seq, n) /\ dedupe_ticks(seq) = D[n]
<1>1. PICK S : S = 1 .. n
  OBVIOUS
<1>2. Skipping!IsFiniteSet(S) /\ Skipping!Chosen(S)
  BY <1>1, LastIsChosen
<1>3. PICK F : F = Skipping!Fold(S, <<>>, seq, 0)
  OBVIOUS
<1>4. dedupe_ticks(seq) = F[S]
  BY <1>1, <1>3 DEF dedupe_ticks, FoldLeft, MapThenFoldSet, Skipping!Fold, Skipping!Solves, LastOf, Item, Skip
<1>5. Skipping!Solves(F, S, <<>>, seq, 0)
  BY <1>2, <1>3, Skipping!FoldExists
<1>6. F[{}] = <<>>
  BY <1>2, <1>3, Skipping!FoldOfNothing
<1>7. ASSUME NEW m \in 1 .. n
      PROVE  F[1 .. m] = KeepNew(F[1 .. m - 1], seq[m])
  <2>1. PICK T \in SUBSET S : T = 1 .. m /\ T # {}
    BY <1>1
  <2>2. LastOf(T) = m
    BY <2>1, LastIsChosen
  <2>3. T \ {m} = 1 .. m - 1
    BY <2>1
  <2>4. F[T] = Skip(0, Item(seq, LastOf(T)), F[T \ {LastOf(T)}])
    BY <1>5, <2>1 DEF Skipping!Solves
  <2> QED
    BY <2>1, <2>2, <2>3, <2>4 DEF Skip, Item
<1>8. PICK D : D = [m \in 0 .. n |-> F[1 .. m]]
  OBVIOUS
<1>9. Thins(D, seq, n)
  <2>1. D[0] = <<>>
    <3>1. 1 .. 0 = {}
      OBVIOUS
    <3> QED
      BY <1>6, <1>8, <3>1
  <2>2. ASSUME NEW m \in 1 .. n PROVE D[m] = KeepNew(D[m - 1], seq[m])
    BY <1>7, <1>8
  <2> QED
    BY <2>1, <2>2 DEF Thins
<1> QED
  BY <1>1, <1>4, <1>8, <1>9

BeginsWith(s, t) == Len(s) <= Len(t) /\ \A i \in 1 .. Len(s) : s[i] = t[i]

\* Keeping what is new appends one tick or none, and the tick is then the last.
LEMMA KeepingExtends ==
    ASSUME NEW kept \in Seq(Tick), NEW t \in Tick, NEW new, new = KeepNew(kept, t)
    PROVE  /\ new \in Seq(Tick) /\ BeginsWith(kept, new)
           /\ new # <<>> /\ Last(new) = t
           /\ \A i \in 1 .. Len(new) : i <= Len(kept) \/ (i = Len(kept) + 1 /\ new[i] = t)
<1>1. CASE kept # <<>> /\ Last(kept) = t
  BY <1>1 DEF KeepNew, IdenticalTicks, BeginsWith
<1>2. CASE ~(kept # <<>> /\ Last(kept) = t)
  <2>1. new = Append(kept, t)
    BY <1>2 DEF KeepNew, IdenticalTicks
  <2>2. Len(new) = Len(kept) + 1 /\ new[Len(kept) + 1] = t /\ \A i \in 1 .. Len(kept) : new[i] = kept[i]
    BY <2>1
  <2> QED
    BY <2>1, <2>2 DEF BeginsWith, Last
<1> QED
  BY <1>1, <1>2

\* What was kept up to a place is a prefix of what is kept in the end.
LEMMA ThinningExtends ==
    ASSUME NEW n \in Nat, NEW seq, \A i \in 1 .. n : seq[i] \in Tick,
           NEW D, Thins(D, seq, n), NEW m \in 0 .. n
    PROVE  D[m] \in Seq(Tick) /\ IsPrefix(D[m], D[n])
<1>1. \A k \in 0 .. n : D[k] \in Seq(Tick)
  <2> DEFINE Bad == {k \in 0 .. n : D[k] \notin Seq(Tick)}
  <2> SUFFICES ASSUME Bad # {} PROVE FALSE
    OBVIOUS
  <2>1. Bad \subseteq Int /\ Skipping!IsFiniteSet(Bad)
    <3>1. IsFiniteSet(0 .. n) /\ Bad \in SUBSET (0 .. n)
      BY FS_Interval
    <3> HIDE DEF Bad
    <3>2. IsFiniteSet(Bad)
      BY <3>1, FS_Subset
    <3> QED
      BY <3>1, <3>2 DEF Skipping!IsFiniteSet, IsFiniteSet
  <2>2. PICK k \in Bad : \A j \in Bad : k <= j
    <3> HIDE DEF Bad
    <3> QED
      BY <2>1, Skipping!LeastExists
  <2>3. k # 0
    BY <2>2, EmptySeq DEF Thins
  <2>4. k - 1 \in 0 .. n /\ k - 1 \notin Bad /\ k \in 1 .. n
    BY <2>2, <2>3
  <2>5. D[k] = KeepNew(D[k - 1], seq[k]) /\ seq[k] \in Tick /\ D[k - 1] \in Seq(Tick)
    BY <2>4 DEF Thins
  <2> QED
    BY <2>2, <2>5, KeepingExtends
<1>2. \A k \in m .. n : BeginsWith(D[m], D[k])
  <2> DEFINE Bad == {k \in m .. n : ~BeginsWith(D[m], D[k])}
  <2> SUFFICES ASSUME Bad # {} PROVE FALSE
    OBVIOUS
  <2>1. Bad \subseteq Int /\ Skipping!IsFiniteSet(Bad)
    <3>1. IsFiniteSet(m .. n) /\ Bad \in SUBSET (m .. n)
      BY FS_Interval
    <3> HIDE DEF Bad
    <3>2. IsFiniteSet(Bad)
      BY <3>1, FS_Subset
    <3> QED
      BY <3>1, <3>2 DEF Skipping!IsFiniteSet, IsFiniteSet
  <2>2. PICK k \in Bad : \A j \in Bad : k <= j
    <3> HIDE DEF Bad
    <3> QED
      BY <2>1, Skipping!LeastExists
  <2>3. k # m
    BY <1>1, <2>2 DEF BeginsWith
  <2>4. k - 1 \in m .. n /\ k - 1 \notin Bad /\ k \in 1 .. n
    BY <2>2, <2>3
  <2>5. PICK s \in Seq(Tick), t \in Seq(Tick), u \in Seq(Tick) : s = D[m] /\ t = D[k - 1] /\ u = D[k]
    BY <1>1, <2>4
  <2>6. u = KeepNew(t, seq[k]) /\ seq[k] \in Tick
    BY <2>4, <2>5 DEF Thins
  <2>7. BeginsWith(t, u)
    BY <2>6, KeepingExtends
  <2>8. BeginsWith(s, t)
    BY <2>4, <2>5
  <2>9. BeginsWith(s, u)
    BY <2>7, <2>8 DEF BeginsWith
  <2> QED
    BY <2>2, <2>5, <2>9
<1>3. PICK s \in Seq(Tick), t \in Seq(Tick) : s = D[m] /\ t = D[n]
  BY <1>1
<1>4. BeginsWith(s, t)
  BY <1>2, <1>3
<1>5. SubSeq(s, 1, Len(s)) = SubSeq(t, 1, Len(s))
  <2>1. Len(s) \in Nat /\ \A i \in 1 .. Len(s) : s[i] \in Tick /\ t[i] \in Tick
    BY <1>4 DEF BeginsWith
  <2>2. /\ SubSeq(s, 1, Len(s)) \in Seq(Tick) /\ SubSeq(t, 1, Len(s)) \in Seq(Tick)
        /\ Len(SubSeq(s, 1, Len(s))) = Len(s) /\ Len(SubSeq(t, 1, Len(s))) = Len(s)
        /\ \A i \in 1 .. Len(s) : SubSeq(s, 1, Len(s))[i] = s[i] /\ SubSeq(t, 1, Len(s))[i] = t[i]
    BY <2>1, SubSeqProperties
  <2> QED
    BY <1>4, <2>2, SeqEqual DEF BeginsWith
<1> QED
  BY <1>3, <1>4, <1>5 DEF IsPrefix, BeginsWith

-----------------------------------------------------------------------------
(* The plan of files, and the order of everything they hold.                *)

\* Every file of a listing is a file, and its ticks are ticks of its day.
LEMMA ListingTyped ==
    ASSUME listing \in Listings
    PROVE  /\ Len(listing) \in Nat /\ DOMAIN listing = 1 .. Len(listing)
           /\ \A k \in 1 .. Len(listing) :
                 /\ listing[k] \in File /\ listing[k].day \in Nat
                 /\ Ticks(listing[k]) \in Seq(TicksOf(listing[k].day))
<1>1. listing \in Seq(File)
  BY ListingsAssumption
<1>2. \A k \in 1 .. Len(listing) : listing[k] \in File
  BY <1>1, ElementOfSeq
<1> QED
  BY <1>1, <1>2, LenProperties, TicksTyped DEF File

\* A plan opens every file once, by day, files of one day as they were found.
IsPlan(src) ==
    /\ src \in [1 .. Len(listing) -> 1 .. Len(listing)]
    /\ \A k \in 1 .. Len(listing) : \E n \in 1 .. Len(listing) : src[n] = k
    /\ \A i, j \in 1 .. Len(listing) : i < j =>
          \/ listing[src[i]].day < listing[src[j]].day
          \/ listing[src[i]].day = listing[src[j]].day /\ src[i] < src[j]

\* The sources of the plan are one.
LEMMA PlanHolds ==
    ASSUME listing \in Listings
    PROVE  IsPlan(Sources)
<1>0. PICK n \in Nat : n = Len(listing)
  BY ListingTyped
<1>1. PICK S : S = DOMAIN listing /\ n = Len(listing) /\ S = 1 .. n
  BY <1>0, ListingTyped
<1>2. IsFiniteSet(S) /\ Cardinality(S) = n
  <2>1. IsFiniteSet(1 .. n) /\ Cardinality(1 .. n) = IF 1 > n THEN 0 ELSE n - 1 + 1
    BY FS_Interval, 1 \in Int, n \in Int
  <2> QED
    BY <1>1, <2>1
<1>3. \A j, k \in S : <<j, k>> \in PlannedBefore <=>
         \/ listing[j].day < listing[k].day
         \/ listing[j].day = listing[k].day /\ j < k
  BY <1>1 DEF PlannedBefore
<1>4. \A k \in S : listing[k].day \in Nat
  BY <1>1, ListingTyped
<1>5. StrictOrder(S, PlannedBefore)
  BY <1>1, <1>3, <1>4 DEF StrictOrder
<1>6. PICK src : src = Sources
  OBVIOUS
<1>7. PutsInOrder(src, S, PlannedBefore)
  BY <1>1, <1>2, <1>5, <1>6, SortingWorks DEF Sources
<1>8. src \in [1 .. n -> 1 .. n] /\ DOMAIN src = 1 .. n
  BY <1>1, <1>2, <1>7 DEF PutsInOrder
<1>9. \A k \in 1 .. n : \E m \in 1 .. n : src[m] = k
  BY <1>1, <1>7, <1>8 DEF PutsInOrder
<1>10. \A i, j \in 1 .. n : i < j => <<src[i], src[j]>> \in PlannedBefore
  BY <1>7, <1>8 DEF PutsInOrder
<1> QED
  BY <1>1, <1>3, <1>6, <1>8, <1>9, <1>10 DEF IsPlan

\* A row is a file and a place in it.
LEMMA RowsTyped ==
    ASSUME listing \in Listings, NEW row
    PROVE  /\ row \in Rows <=> \E k \in 1 .. Len(listing) : \E i \in 1 .. Len(Ticks(listing[k])) : row = <<k, i>>
           /\ row \in Rows =>
                 /\ row = <<row[1], row[2]>>
                 /\ row[1] \in 1 .. Len(listing) /\ row[2] \in 1 .. Len(Ticks(listing[row[1]]))
                 /\ RowTick(row) \in Tick /\ RowTick(row).day = listing[row[1]].day
<1>1. \A k \in DOMAIN listing : DOMAIN Ticks(listing[k]) = 1 .. Len(Ticks(listing[k]))
  BY ListingTyped
<1>2. row \in Rows <=> \E k \in DOMAIN listing : \E i \in DOMAIN Ticks(listing[k]) : row = <<k, i>>
  <2>1. row \in Rows <=> \E k \in DOMAIN listing : row \in {k} \X (DOMAIN Ticks(listing[k]))
    BY DEF Rows
  <2> QED
    BY <2>1
<1>3. row \in Rows <=> \E k \in 1 .. Len(listing) : \E i \in 1 .. Len(Ticks(listing[k])) : row = <<k, i>>
  BY <1>1, <1>2, ListingTyped
<1>4. ASSUME row \in Rows
      PROVE  /\ row = <<row[1], row[2]>>
             /\ row[1] \in 1 .. Len(listing) /\ row[2] \in 1 .. Len(Ticks(listing[row[1]]))
             /\ RowTick(row) \in Tick /\ RowTick(row).day = listing[row[1]].day
  <2>1. PICK k \in 1 .. Len(listing) : \E j \in 1 .. Len(Ticks(listing[k])) : row = <<k, j>>
    BY <1>3, <1>4
  <2>0. PICK i \in 1 .. Len(Ticks(listing[k])) : row = <<k, i>>
    BY <2>1
  <2>2. PICK ticks \in Seq(TicksOf(listing[k].day)) : ticks = Ticks(listing[k])
    BY ListingTyped
  <2>3. ticks[i] \in TicksOf(listing[k].day)
    BY <2>0, <2>2, ElementOfSeq
  <2>4. RowTick(row) = ticks[i]
    BY <2>0, <2>2 DEF RowTick
  <2> QED
    BY <2>0, <2>3, <2>4 DEF TicksOf
<1> QED
  BY <1>3, <1>4

\* There are finitely many rows.
LEMMA RowsAreFinite ==
    ASSUME listing \in Listings
    PROVE  IsFiniteSet(Rows)
<1>1. PICK n \in Nat : n = Len(listing)
  BY ListingTyped
<1>2. PICK len : len = [k \in 1 .. n |-> Len(Ticks(listing[k]))]
  OBVIOUS
<1>3. PICK part : part = [k \in 1 .. n |-> {k} \X (1 .. len[k])]
  OBVIOUS
<1>4. \A k \in 1 .. n : IsFiniteSet(part[k])
  <2> SUFFICES ASSUME NEW k \in 1 .. n PROVE IsFiniteSet({k} \X (1 .. len[k]))
    BY <1>3
  <2>1. PICK m \in Nat : m = len[k]
    BY <1>1, <1>2, ListingTyped
  <2>2. IsFiniteSet({k})
    BY FS_Singleton
  <2>3. IsFiniteSet(1 .. len[k])
    BY <2>1, FS_Interval
  <2> QED
    BY <2>2, <2>3, FS_Product
<1>5. PICK parts : parts = {part[k] : k \in 1 .. n}
  OBVIOUS
<1>6. IsFiniteSet(parts)
  <2>1. part \in Surjection(1 .. n, parts)
    BY <1>3, <1>5 DEF Surjection
  <2> QED
    BY <2>1, FS_Interval, FS_Surjection
<1>7. IsFiniteSet(UNION parts)
  BY <1>4, <1>5, <1>6, FS_UNION
<1>8. Rows \subseteq UNION parts
  <2> SUFFICES ASSUME NEW row \in Rows PROVE row \in UNION parts
    OBVIOUS
  <2>0. PICK k \in 1 .. n : \E i \in 1 .. Len(Ticks(listing[k])) : row = <<k, i>>
    BY <1>1, RowsTyped
  <2>1. PICK i \in 1 .. len[k] : row = <<k, i>>
    BY <1>2, <2>0
  <2>2. row \in part[k]
    BY <1>3, <2>1
  <2> QED
    BY <1>5, <2>2
<1> QED
  BY <1>7, <1>8, FS_Subset

\* Of two rows one sorts before the other, and the order is transitive.
LEMMA RowsAreOrdered ==
    ASSUME listing \in Listings
    PROVE  StrictOrder(Rows, RowsBefore)
<1>1. \A p, q \in Rows : <<p, q>> \in RowsBefore <=>
         \/ SortsBefore(RowTick(p), RowTick(q))
         \/ ~SortsBefore(RowTick(q), RowTick(p)) /\ StoredBefore(p, q)
  BY DEF RowsBefore
<1>2. PICK at, sym : at = [p \in Rows |-> RowTick(p).at] /\ sym = [p \in Rows |-> RowTick(p).sym]
  OBVIOUS
<1>3. \A p \in Rows : at[p] \in Nat /\ sym[p] \in Nat /\ p[1] \in Nat /\ p[2] \in Nat /\ p = <<p[1], p[2]>>
  <2> SUFFICES ASSUME NEW p \in Rows
               PROVE  at[p] \in Nat /\ sym[p] \in Nat /\ p[1] \in Nat /\ p[2] \in Nat /\ p = <<p[1], p[2]>>
    OBVIOUS
  <2>1. PICK t \in Tick : t = RowTick(p)
    BY RowsTyped
  <2> QED
    BY <1>2, <2>1, RowsTyped, ListingTyped DEF Tick
<1>4. \A p, q \in Rows : <<p, q>> \in RowsBefore <=>
         \/ at[p] < at[q]
         \/ at[p] = at[q] /\ sym[p] < sym[q]
         \/ at[p] = at[q] /\ sym[p] = sym[q] /\ (p[1] < q[1] \/ (p[1] = q[1] /\ p[2] < q[2]))
  <2> SUFFICES ASSUME NEW p \in Rows, NEW q \in Rows
               PROVE  <<p, q>> \in RowsBefore <=>
                         \/ at[p] < at[q]
                         \/ at[p] = at[q] /\ sym[p] < sym[q]
                         \/ at[p] = at[q] /\ sym[p] = sym[q] /\ (p[1] < q[1] \/ (p[1] = q[1] /\ p[2] < q[2]))
    OBVIOUS
  <2>1. PICK t \in Tick, u \in Tick : t = RowTick(p) /\ u = RowTick(q)
    BY RowsTyped
  <2>2. at[p] = t.at /\ at[q] = u.at /\ sym[p] = t.sym /\ sym[q] = u.sym
    BY <1>2, <2>1
  <2>3. t.at \in Nat /\ u.at \in Nat /\ t.sym \in Nat /\ u.sym \in Nat
    BY DEF Tick
  <2>4. StoredBefore(p, q) <=> (p[1] < q[1] \/ (p[1] = q[1] /\ p[2] < q[2]))
    BY DEF StoredBefore
  <2>5. SortsBefore(t, u) <=> (t.at < u.at \/ (t.at = u.at /\ t.sym < u.sym))
    BY DEF SortsBefore
  <2>6. SortsBefore(u, t) <=> (u.at < t.at \/ (u.at = t.at /\ u.sym < t.sym))
    BY DEF SortsBefore
  <2>7. <<p, q>> \in RowsBefore <=> (SortsBefore(t, u) \/ (~SortsBefore(u, t) /\ StoredBefore(p, q)))
    BY <1>1, <2>1
  <2> QED
    BY <2>2, <2>3, <2>4, <2>5, <2>6, <2>7
<1>5. \A p \in Rows : <<p, p>> \notin RowsBefore
  BY <1>3, <1>4
<1>6. \A p, q \in Rows : p # q => <<p, q>> \in RowsBefore \/ <<q, p>> \in RowsBefore
  <2> SUFFICES ASSUME NEW p \in Rows, NEW q \in Rows, p # q
               PROVE  <<p, q>> \in RowsBefore \/ <<q, p>> \in RowsBefore
    OBVIOUS
  <2>1. PICK i \in Nat, j \in Nat, k \in Nat, m \in Nat : i = p[1] /\ j = p[2] /\ k = q[1] /\ m = q[2]
    BY <1>3
  <2>2. i # k \/ j # m
    BY <1>3, <2>1
  <2>3. PICK t \in Nat, u \in Nat, a \in Nat, b \in Nat : t = at[p] /\ u = at[q] /\ a = sym[p] /\ b = sym[q]
    BY <1>3
  <2> QED
    BY <1>4, <2>1, <2>2, <2>3
<1>7. \A p, q, r \in Rows : <<p, q>> \in RowsBefore /\ <<q, r>> \in RowsBefore => <<p, r>> \in RowsBefore
  <2> SUFFICES ASSUME NEW p \in Rows, NEW q \in Rows, NEW r \in Rows,
                      <<p, q>> \in RowsBefore, <<q, r>> \in RowsBefore
               PROVE  <<p, r>> \in RowsBefore
    OBVIOUS
  <2> QED
    BY <1>3, <1>4
<1> QED
  BY <1>5, <1>6, <1>7 DEF StrictOrder

-----------------------------------------------------------------------------
(* The stream itself: whole days are opened, the heap has a top.            *)

StreamSpec == StreamInit /\ [][StreamNext]_streamVars

Reader == [source : Nat, left : Seq(Tick)]

\* What a reader has not handed out is the end of what its file holds.
EndOf(left, all) ==
    /\ Len(left) <= Len(all)
    /\ \A i \in 1 .. Len(left) : left[i] = all[Len(all) - Len(left) + i]

\* The open readers are those of the last files planned, in their order.
IsOpen(r) ==
    /\ Len(readers) - r \in 0 .. nextSource - 2
    /\ readers[r].source = Sources[nextSource - 1 - (Len(readers) - r)]
    /\ EndOf(readers[r].left, Ticks(listing[readers[r].source]))

StreamTyped ==
    /\ listing \in Listings
    /\ nextSource \in 1 .. Len(listing) + 1
    /\ readers \in Seq(Reader)
    /\ \A r \in 1 .. Len(readers) : IsOpen(r)
    /\ heap = {r \in 1 .. Len(readers) : readers[r].left # <<>>}
    /\ emitted \in Seq(Tick)

\* The files of the next trading day are the next ones of the plan.
GroupIs(m) ==
    /\ m \in 1 .. Len(listing) - nextSource + 1
    /\ Group = nextSource .. nextSource + m - 1 /\ Cardinality(Group) = m
    /\ \A k \in nextSource .. nextSource + m - 1 : Planned(k).day = Planned(nextSource).day
    /\ \A k \in nextSource + m .. Len(listing) : Planned(k).day > Planned(nextSource).day

\* The day does not fall along the plan.
LEMMA DaysRise ==
    ASSUME listing \in Listings
    PROVE  /\ \A k \in 1 .. Len(listing) : Planned(k) \in File /\ Planned(k).day \in Nat
           /\ \A j, k \in 1 .. Len(listing) : j <= k => Planned(j).day <= Planned(k).day
<1>1. PICK n \in Nat : n = Len(listing)
  BY ListingTyped
<1>2. PICK src : src = Sources /\ IsPlan(src)
  BY PlanHolds
<1>3. src \in [1 .. n -> 1 .. n]
  BY <1>1, <1>2 DEF IsPlan
<1>4. \A k \in 1 .. n : src[k] \in 1 .. n /\ Planned(k) = listing[src[k]]
  BY <1>2, <1>3 DEF Planned
<1>5. \A k \in 1 .. n : Planned(k) \in File /\ Planned(k).day \in Nat
  BY <1>1, <1>4, ListingTyped
<1>6. ASSUME NEW j \in 1 .. n, NEW k \in 1 .. n, j <= k PROVE Planned(j).day <= Planned(k).day
  <2>1. CASE j = k
    BY <1>5, <2>1
  <2>2. CASE j < k
    <3>1. \/ listing[src[j]].day < listing[src[k]].day
          \/ listing[src[j]].day = listing[src[k]].day
      BY <1>1, <1>2, <2>2 DEF IsPlan
    <3> QED
      BY <1>4, <1>5, <3>1
  <2> QED
    BY <1>6, <2>1, <2>2
<1> QED
  BY <1>1, <1>5, <1>6

\* There is a next trading day as long as a file is unopened.
LEMMA GroupHolds ==
    ASSUME listing \in Listings, nextSource \in 1 .. Len(listing)
    PROVE  \E m \in Nat : GroupIs(m)
<1>0. PICK n \in Nat : n = Len(listing)
  BY ListingTyped
<1>1. PICK s \in 1 .. n : n = Len(listing) /\ s = nextSource
  BY <1>0
<1>2. PICK day : day = [k \in 1 .. n |-> Planned(k).day]
  OBVIOUS
<1>3. /\ \A k \in 1 .. n : day[k] \in Nat
      /\ \A j, k \in 1 .. n : j <= k => day[j] <= day[k]
  BY <1>1, <1>2, DaysRise
<1>4. PICK S : S = {k \in s .. n : day[k] = day[s]}
  OBVIOUS
<1>5. Skipping!IsFiniteSet(S) /\ S \subseteq Int /\ S # {}
  <2>1. S \in SUBSET (s .. n) /\ IsFiniteSet(s .. n)
    BY <1>4, FS_Interval
  <2>2. IsFiniteSet(S)
    BY <2>1, FS_Subset
  <2> QED
    BY <1>1, <1>4, <2>2 DEF Skipping!IsFiniteSet, IsFiniteSet
<1>6. PICK top \in S : \A k \in S : top >= k
  BY <1>5, Skipping!GreatestExists
<1>7. top \in s .. n /\ day[top] = day[s]
  BY <1>4
<1>8. \A k \in s .. top : day[k] = day[s]
  <2> SUFFICES ASSUME NEW k \in s .. top PROVE day[k] = day[s]
    OBVIOUS
  <2>1. s <= k /\ k <= top /\ k \in 1 .. n /\ s \in 1 .. n /\ top \in 1 .. n
    BY <1>1, <1>7
  <2>2. day[s] <= day[k] /\ day[k] <= day[top] /\ day[s] \in Nat /\ day[k] \in Nat
    BY <1>3, <2>1
  <2> QED
    BY <1>7, <2>2
<1>9. \A k \in top + 1 .. n : day[k] > day[s]
  <2> SUFFICES ASSUME NEW k \in top + 1 .. n PROVE day[k] > day[s]
    OBVIOUS
  <2>1. k \notin S /\ k \in s .. n /\ k \in 1 .. n /\ s <= k
    BY <1>1, <1>6, <1>7
  <2>2. day[k] # day[s] /\ day[s] <= day[k] /\ day[s] \in Nat /\ day[k] \in Nat
    BY <1>1, <1>3, <1>4, <2>1
  <2> QED
    BY <2>2
<1>10. Group = s .. top
  <2>1. ASSUME NEW k PROVE k \in Group <=> k \in s .. top
    <3>1. k \in Group <=> (k \in s .. n /\ \A j \in s .. k : day[j] = day[s])
      <4>1. k \in Group <=> (k \in s .. n /\ \A j \in s .. k : Planned(j).day = Planned(s).day)
        BY <1>1 DEF Group
      <4>2. k \in s .. n => \A j \in s .. k : Planned(j).day = day[j] /\ Planned(s).day = day[s]
        BY <1>1, <1>2
      <4> QED
        BY <4>1, <4>2
    <3>2. k \in s .. n /\ (\A j \in s .. k : day[j] = day[s]) => k \in S
      BY <1>1, <1>4
    <3>3. k \in S => k \in s .. top
      BY <1>4, <1>6, <1>7
    <3>4. k \in s .. top => k \in s .. n /\ \A j \in s .. k : day[j] = day[s]
      BY <1>1, <1>7, <1>8
    <3> QED
      BY <3>1, <3>2, <3>3, <3>4
  <2> QED
    BY <2>1
<1>11. PICK m \in Nat : m = top - s + 1 /\ top = s + m - 1 /\ m \in 1 .. n - s + 1
  BY <1>1, <1>7
<1>12. Cardinality(s .. top) = m
  <2>1. Cardinality(s .. top) = IF s > top THEN 0 ELSE top - s + 1
    BY <1>1, <1>7, FS_Interval
  <2> QED
    BY <1>1, <1>7, <1>11, <2>1
<1>13. \A k \in s .. s + m - 1 : Planned(k).day = Planned(s).day
  BY <1>1, <1>2, <1>7, <1>8, <1>11
<1>14. \A k \in s + m .. n : Planned(k).day > Planned(s).day
  BY <1>1, <1>2, <1>7, <1>9, <1>11
<1> QED
  BY <1>1, <1>10, <1>11, <1>12, <1>13, <1>14 DEF GroupIs

\* A plan holds no file twice.
LEMMA PlanIsInjective ==
    ASSUME listing \in Listings, NEW i \in 1 .. Len(listing), NEW j \in 1 .. Len(listing), i # j
    PROVE  Sources[i] # Sources[j]
<1>1. PICK n \in Nat : n = Len(listing)
  BY ListingTyped, ZenonT(60)
<1>2. PICK src \in [1 .. n -> 1 .. n] : src = Sources /\ IsPlan(src)
  BY <1>1, PlanHolds DEF IsPlan
<1>3. \A a, b \in 1 .. n : a < b =>
         \/ listing[src[a]].day < listing[src[b]].day
         \/ src[a] < src[b]
  BY <1>1, <1>2 DEF IsPlan
<1>4. \A a \in 1 .. n : src[a] \in 1 .. n /\ listing[src[a]].day \in Nat
  BY <1>1, ListingTyped
<1>5. ASSUME NEW a \in 1 .. n, NEW b \in 1 .. n, a < b PROVE src[a] # src[b]
  <2> SUFFICES ASSUME src[a] = src[b] PROVE FALSE
    OBVIOUS
  <2>0. src[a] \in 1 .. n /\ listing[src[a]].day \in Nat
    BY <1>4
  <2>1. PICK k \in 1 .. n, d \in Nat : k = src[a] /\ d = listing[src[a]].day
    BY <2>0
  <2>2. d < d \/ k < k
    BY <1>3, <1>5, <2>1
  <2> QED
    BY <2>2
<1>6. i < j \/ j < i
  BY <1>1
<1> QED
  BY <1>1, <1>2, <1>5, <1>6

\* No file is opened twice.
SourcesAreOpen ==
    /\ \A r \in 1 .. Len(readers) : readers[r].source \in 1 .. Len(listing)
    /\ \A q, r \in 1 .. Len(readers) : q # r => readers[q].source # readers[r].source

\* ... and what is opened is in the listing.
LEMMA SourcesDiffer ==
    ASSUME StreamTyped
    PROVE  SourcesAreOpen
<1>1. PICK n \in Nat : n = Len(listing)
  BY ListingTyped, ZenonT(60) DEF StreamTyped
<1>2. PICK src \in [1 .. n -> 1 .. n] : src = Sources
  BY <1>1, PlanHolds DEF StreamTyped, IsPlan
<1>3. \A i, j \in 1 .. n : i # j => src[i] # src[j]
  BY <1>1, <1>2, PlanIsInjective DEF StreamTyped
<1>4. PICK w \in Nat, s \in 1 .. n + 1 : w = Len(readers) /\ s = nextSource
  <2>1. nextSource \in 1 .. n + 1 /\ Len(readers) \in Nat
    BY <1>1, LenProperties DEF StreamTyped
  <2> QED
    BY <2>1
<1>5. \A r \in 1 .. w : w - r \in 0 .. s - 2 /\ readers[r].source = src[s - 1 - (w - r)]
  BY <1>2, <1>4 DEF StreamTyped, IsOpen
<1>6. \A r \in 1 .. w : s - 1 - (w - r) \in 1 .. n
  <2> SUFFICES ASSUME NEW r \in 1 .. w PROVE s - 1 - (w - r) \in 1 .. n
    OBVIOUS
  <2>1. PICK d \in 0 .. s - 2 : d = w - r
    BY <1>5
  <2>2. s - 1 - d \in 1 .. n
    OBVIOUS
  <2> QED
    BY <2>1, <2>2
<1>7. \A q, r \in 1 .. w : q # r => s - 1 - (w - q) # s - 1 - (w - r)
  BY <1>4
<1>8. \A r \in 1 .. w : readers[r].source \in 1 .. n
  BY <1>5, <1>6
<1>9. ASSUME NEW q \in 1 .. w, NEW r \in 1 .. w, q # r PROVE readers[q].source # readers[r].source
  <2>1. PICK i \in 1 .. n, j \in 1 .. n : i = s - 1 - (w - q) /\ j = s - 1 - (w - r)
    BY <1>6
  <2> QED
    BY <1>3, <1>5, <1>7, <1>9, <2>1
<1> QED
  BY <1>1, <1>4, <1>8, <1>9 DEF SourcesAreOpen

\* A finite set with an order has a first element.
LEMMA FirstExists ==
    ASSUME NEW S, IsFiniteSet(S), S # {}, NEW B, StrictOrder(S, B)
    PROVE  \E x \in S : \A y \in S \ {x} : <<x, y>> \in B
<1>1. PICK o : o = InOrder(S, B)
  OBVIOUS
<1>2. PICK n \in Nat : n = Cardinality(S)
  BY FS_CardinalityType
<1>3. PutsInOrder(o, S, B) /\ DOMAIN o = 1 .. n
  BY <1>1, <1>2, SortingWorks DEF PutsInOrder
<1>4. \A x \in S : \E m \in 1 .. n : o[m] = x
  BY <1>3 DEF PutsInOrder
<1>5. 1 \in 1 .. n
  BY <1>4
<1>6. o[1] \in S
  BY <1>2, <1>3, <1>5 DEF PutsInOrder
<1>7. ASSUME NEW y \in S \ {o[1]} PROVE <<o[1], y>> \in B
  <2>1. PICK m \in 1 .. n : o[m] = y
    BY <1>4
  <2>2. 1 < m
    BY <1>5, <2>1
  <2> QED
    BY <1>3, <1>5, <2>1, <2>2 DEF PutsInOrder
<1> QED
  BY <1>6, <1>7

\* What the reader at the top of the heap hands out next.
Holds(r) ==
    /\ r \in 1 .. Len(readers) /\ readers[r].left \in Seq(Tick) /\ readers[r].left # <<>>
    /\ Len(readers[r].left) \in Nat \ {0}
    /\ Current(r) = readers[r].left[1] /\ Current(r) \in Tick

\* A reader in the heap has a tick to hand out.
LEMMA HeapHolds ==
    ASSUME StreamTyped, NEW r \in heap
    PROVE  Holds(r)
<1>1. r \in 1 .. Len(readers) /\ readers[r].left # <<>>
  BY DEF StreamTyped
<1>2. PICK left \in Seq(Tick) : left = readers[r].left /\ left # <<>>
  <2>1. readers[r] \in Reader
    BY <1>1, ElementOfSeq DEF StreamTyped
  <2> QED
    BY <1>1, <2>1 DEF Reader
<1>3. Len(left) \in Nat \ {0} /\ 1 \in 1 .. Len(left)
  BY <1>2, EmptySeq, LenProperties
<1>4. left[1] \in Tick
  BY <1>3, ElementOfSeq
<1> QED
  BY <1>1, <1>2, <1>3, <1>4 DEF Holds, Current

TopIs(p) ==
    /\ p \in heap
    /\ \A q \in heap \ {p} : ReaderBefore(p, q)

\* The heap has a top: of two readers one comes first.
LEMMA TopExists ==
    ASSUME StreamTyped, heap # {}
    PROVE  TopIs(Top)
<1>1. PICK w \in Nat : w = Len(readers)
  BY LenProperties DEF StreamTyped
<1>2. IsFiniteSet(heap)
  <2>1. heap \in SUBSET (1 .. w) /\ IsFiniteSet(1 .. w)
    BY <1>1, FS_Interval DEF StreamTyped
  <2> QED
    BY <2>1, FS_Subset
<1>3. PICK at, sym, from : /\ at = [r \in heap |-> Current(r).at] /\ sym = [r \in heap |-> Current(r).sym]
                           /\ from = [r \in heap |-> readers[r].source]
  OBVIOUS
<1>4. /\ \A r \in heap : at[r] \in Nat /\ sym[r] \in Nat /\ from[r] \in Nat
      /\ \A q, r \in heap : q # r => from[q] # from[r]
  <2>1. ASSUME NEW r \in heap PROVE at[r] \in Nat /\ sym[r] \in Nat /\ from[r] \in Nat
    <3>1. PICK t \in Tick : t = Current(r)
      BY HeapHolds DEF Holds
    <3>2. readers[r].source \in 1 .. Len(listing) /\ Len(listing) \in Nat
      BY HeapHolds, SourcesDiffer, ListingTyped DEF Holds, SourcesAreOpen, StreamTyped
    <3> QED
      BY <1>3, <3>1, <3>2 DEF Tick
  <2>2. ASSUME NEW q \in heap, NEW r \in heap, q # r PROVE from[q] # from[r]
    BY <1>3, <2>2, HeapHolds, SourcesDiffer DEF Holds, SourcesAreOpen
  <2> QED
    BY <2>1, <2>2
<1>5. \A q, r \in heap : ReaderBefore(q, r) <=>
         \/ at[q] < at[r]
         \/ at[q] = at[r] /\ sym[q] < sym[r]
         \/ at[q] = at[r] /\ sym[q] = sym[r] /\ from[q] < from[r]
  <2> SUFFICES ASSUME NEW q \in heap, NEW r \in heap
               PROVE  ReaderBefore(q, r) <=>
                         \/ at[q] < at[r]
                         \/ at[q] = at[r] /\ sym[q] < sym[r]
                         \/ at[q] = at[r] /\ sym[q] = sym[r] /\ from[q] < from[r]
    OBVIOUS
  <2>1. PICK t, u : t = Current(q) /\ u = Current(r)
    OBVIOUS
  <2>2. /\ t.at = at[q] /\ u.at = at[r] /\ t.sym = sym[q] /\ u.sym = sym[r]
        /\ readers[q].source = from[q] /\ readers[r].source = from[r]
    BY <1>3, <2>1
  <2>3. ReaderBefore(q, r) <=> (SortsBefore(t, u) \/ (~SortsBefore(u, t) /\ from[q] < from[r]))
    BY <2>1, <2>2 DEF ReaderBefore
  <2>4. SortsBefore(t, u) <=> (at[q] < at[r] \/ (at[q] = at[r] /\ sym[q] < sym[r]))
    BY <2>2 DEF SortsBefore
  <2>5. SortsBefore(u, t) <=> (at[r] < at[q] \/ (at[r] = at[q] /\ sym[r] < sym[q]))
    BY <2>2 DEF SortsBefore
  <2> QED
    BY <1>4, <2>3, <2>4, <2>5
<1>6. PICK B : B = {qr \in heap \X heap : ReaderBefore(qr[1], qr[2])}
  OBVIOUS
<1>7. \A q, r \in heap : <<q, r>> \in B <=> ReaderBefore(q, r)
  BY <1>6
<1>8. StrictOrder(heap, B)
  <2>1. \A q \in heap : <<q, q>> \notin B
    BY <1>4, <1>5, <1>7
  <2>2. \A q, r \in heap : q # r => <<q, r>> \in B \/ <<r, q>> \in B
    BY <1>4, <1>5, <1>7
  <2>3. \A q, r, s \in heap : <<q, r>> \in B /\ <<r, s>> \in B => <<q, s>> \in B
    BY <1>4, <1>5, <1>7
  <2> QED
    BY <2>1, <2>2, <2>3 DEF StrictOrder
<1>9. \E r \in heap : \A q \in heap \ {r} : <<r, q>> \in B
  BY <1>2, <1>8, FirstExists
<1>10. \E r \in heap : \A q \in heap \ {r} : ReaderBefore(r, q)
  BY <1>7, <1>9
<1> QED
  BY <1>10 DEF Top, TopIs

\* A trading day is opened: m files, each with all its ticks.
Loaded(m) ==
    /\ heap = {} /\ listing' = listing /\ emitted' = emitted
    /\ nextSource \in 1 .. Len(listing) /\ nextSource' = nextSource + m
    /\ readers' \in Seq(Reader) /\ Len(readers') = m
    /\ \A r \in 1 .. m : /\ readers'[r].source = Sources[nextSource + r - 1]
                         /\ readers'[r].left = Ticks(Planned(nextSource + r - 1))
    /\ heap' = {r \in 1 .. m : readers'[r].left # <<>>}

\* load_next_group opens the next trading day, and whole.
LEMMA LoadStep ==
    ASSUME StreamTyped, LoadNextGroup
    PROVE  \E m \in Nat : GroupIs(m) /\ Loaded(m)
<1>1. PICK n \in Nat : n = Len(listing)
  BY ListingTyped DEF StreamTyped
<1>2. nextSource \in 1 .. n
  BY <1>1 DEF StreamTyped, LoadNextGroup
<1>3. PICK m \in Nat : GroupIs(m)
  BY <1>1, <1>2, GroupHolds DEF StreamTyped
<1>4. PICK s \in 1 .. n : s = nextSource
  BY <1>2
<1>5. m \in 1 .. n - s + 1 /\ Cardinality(Group) = m
  BY <1>1, <1>3, <1>4 DEF GroupIs
<1>6. readers' = [r \in 1 .. m |-> [source |-> Sources[s + r - 1], left |-> Ticks(Planned(s + r - 1))]]
  BY <1>4, <1>5 DEF LoadNextGroup
<1>7. \A r \in 1 .. m : readers'[r] \in Reader
  <2> SUFFICES ASSUME NEW r \in 1 .. m
               PROVE  [source |-> Sources[s + r - 1], left |-> Ticks(Planned(s + r - 1))] \in Reader
    BY <1>6
  <2>1. PICK k \in 1 .. n : k = s + r - 1
    BY <1>5
  <2>2. PICK src \in [1 .. n -> 1 .. n] : src = Sources
    BY <1>1, PlanHolds DEF StreamTyped, IsPlan
  <2>3. Sources[k] \in 1 .. n
    BY <2>2
  <2>4. Ticks(Planned(k)) \in Seq(TicksOf(listing[Sources[k]].day))
    BY <1>1, <2>3, ListingTyped DEF StreamTyped, Planned
  <2>5. Ticks(Planned(k)) \in Seq(Tick)
    BY <2>4, SeqMonotonic DEF TicksOf
  <2>6. Sources[k] \in Nat
    BY <2>3
  <2>7. [source |-> Sources[k], left |-> Ticks(Planned(k))] \in Reader
    BY <2>5, <2>6 DEF Reader
  <2> QED
    BY <2>1, <2>7
<1>8. readers' \in Seq(Reader) /\ Len(readers') = m /\ DOMAIN readers' = 1 .. m
  <2>1. readers' \in [1 .. m -> Reader]
    BY <1>6, <1>7
  <2>2. readers' \in Seq(Reader)
    BY <2>1, IsASeq
  <2>3. DOMAIN readers' = 1 .. m /\ DOMAIN readers' = 1 .. Len(readers') /\ Len(readers') \in Nat
    BY <2>1, <2>2, LenProperties
  <2> QED
    BY <2>2, <2>3
<1>9. heap' = {r \in 1 .. m : readers'[r].left # <<>>}
  BY <1>8 DEF LoadNextGroup
<1>10. \A r \in 1 .. m : /\ readers'[r].source = Sources[s + r - 1]
                         /\ readers'[r].left = Ticks(Planned(s + r - 1))
  BY <1>6
<1>11. heap = {} /\ listing' = listing /\ emitted' = emitted /\ nextSource' = nextSource + m
  BY <1>5 DEF LoadNextGroup
<1> QED
  BY <1>1, <1>3, <1>4, <1>8, <1>9, <1>10, <1>11 DEF Loaded

\* The reader p hands out its first tick.
Pulled(p) ==
    /\ TopIs(p) /\ Holds(p)
    /\ listing' = listing /\ nextSource' = nextSource
    /\ readers' \in Seq(Reader) /\ Len(readers') = Len(readers)
    /\ \A r \in 1 .. Len(readers) : r # p => readers'[r] = readers[r]
    /\ readers'[p].source = readers[p].source
    /\ Len(readers'[p].left) = Len(readers[p].left) - 1
    /\ \A i \in 1 .. Len(readers'[p].left) : readers'[p].left[i] = readers[p].left[i + 1]
    /\ heap' = {r \in 1 .. Len(readers') : readers'[r].left # <<>>}
    /\ emitted' = KeepNew(emitted, Current(p)) /\ emitted' \in Seq(Tick)

\* next() takes one tick, from the reader at the top of the heap.
LEMMA PullStep ==
    ASSUME StreamTyped, NextTick
    PROVE  \E p \in heap : Pulled(p)
<1>1. PICK p \in heap : p = Top /\ TopIs(p)
  BY TopExists DEF NextTick, TopIs
<1>2. Holds(p)
  BY HeapHolds
<1>3. PICK w \in Nat : w = Len(readers) /\ DOMAIN readers = 1 .. w /\ p \in 1 .. w
  BY <1>2, LenProperties DEF StreamTyped, Holds
<1>4. PICK old \in Seq(Tick) : old = readers[p].left /\ old # <<>>
  BY <1>2 DEF Holds
<1>5. PICK left \in Seq(Tick) : left = Tail(old) /\ Len(left) = Len(old) - 1
                                /\ \A i \in 1 .. Len(left) : left[i] = old[i + 1]
  BY <1>4, HeadTailProperties
<1>6. readers[p] \in Reader
  BY <1>3, ElementOfSeq DEF StreamTyped
<1>7. PICK new \in Reader : new = [source |-> readers[p].source, left |-> left]
  BY <1>6 DEF Reader
<1>8. readers' = [readers EXCEPT ![p] = new]
  <2>1. readers' = [readers EXCEPT ![p].left = left]
    BY <1>1, <1>4, <1>5 DEF NextTick
  <2>2. [readers[p] EXCEPT !.left = left] = new
    BY <1>6, <1>7 DEF Reader
  <2> QED
    BY <1>3, <2>1, <2>2
<1>9. /\ readers' \in Seq(Reader) /\ Len(readers') = w
      /\ readers'[p] = new /\ \A r \in 1 .. w : r # p => readers'[r] = readers[r]
  BY <1>3, <1>8, ExceptSeq DEF StreamTyped
<1>10. heap' = {r \in 1 .. w : readers'[r].left # <<>>}
  <2>1. left = <<>> <=> Len(old) = 1
    BY <1>5, EmptySeq, LenProperties
  <2>2. heap = {r \in 1 .. w : readers[r].left # <<>>}
    BY <1>3 DEF StreamTyped
  <2>3. heap' = IF Len(old) = 1 THEN heap \ {p} ELSE heap
    BY <1>1, <1>4 DEF NextTick
  <2>4. readers'[p].left = left
    BY <1>7, <1>9
  <2>5. ASSUME NEW r PROVE r \in heap' <=> (r \in 1 .. w /\ readers'[r].left # <<>>)
    <3>1. CASE r = p
      BY <1>3, <2>1, <2>3, <2>4, <3>1
    <3>2. CASE r # p
      <4>1. r \in heap' <=> r \in heap
        BY <2>3, <3>2
      <4> QED
        BY <1>9, <2>2, <3>2, <4>1
    <3> QED
      BY <3>1, <3>2
  <2> QED
    BY <2>5
<1>11. emitted' = KeepNew(emitted, Current(p)) /\ emitted' \in Seq(Tick)
  <2>1. emitted' = KeepNew(emitted, Current(p))
    BY <1>1 DEF NextTick
  <2>2. Current(p) \in Tick /\ emitted \in Seq(Tick)
    BY <1>2 DEF Holds, StreamTyped
  <2> QED
    BY <2>1, <2>2, KeepingExtends
<1>12. listing' = listing /\ nextSource' = nextSource
  BY DEF NextTick
<1>13. /\ readers'[p].source = readers[p].source /\ readers'[p].left = left
  BY <1>7, <1>9
<1> QED
  BY <1>1, <1>2, <1>3, <1>4, <1>5, <1>9, <1>10, <1>11, <1>12, <1>13 DEF Pulled

\* The stream starts with nothing open and nothing handed out.
LEMMA StreamTypedInit ==
    ASSUME StreamInit
    PROVE  StreamTyped
<1>1. readers \in Seq(Reader) /\ Len(readers) = 0 /\ emitted \in Seq(Tick)
  BY EmptySeq DEF StreamInit
<1>2. Len(listing) \in Nat
  BY ListingTyped DEF StreamInit
<1> QED
  BY <1>1, <1>2 DEF StreamInit, StreamTyped

\* Opening a day leaves the readers in step with the plan.
LEMMA LoadKeepsTypes ==
    ASSUME StreamTyped, NEW m \in Nat, GroupIs(m), Loaded(m)
    PROVE  StreamTyped'
<1>1. PICK n \in Nat : n = Len(listing)
  BY ListingTyped DEF StreamTyped
<1>2. PICK s \in 1 .. n : s = nextSource
  BY <1>1 DEF Loaded
<1>3. m \in 1 .. n - s + 1
  BY <1>1, <1>2 DEF GroupIs
<1>4. listing' = listing /\ nextSource' = s + m /\ Len(readers') = m
  BY <1>2 DEF Loaded
<1>5. ASSUME NEW r \in 1 .. m PROVE IsOpen(r)'
  <2>1. m - r \in 0 .. s + m - 2 /\ s + m - 1 - (m - r) = s + r - 1 /\ s + r - 1 \in 1 .. n
    BY <1>3
  <2>2. readers'[r].source = Sources[s + r - 1] /\ readers'[r].left = Ticks(Planned(s + r - 1))
    BY <1>2 DEF Loaded
  <2>3. Sources' = Sources
    BY <1>4 DEF Sources, PlannedBefore
  <2>4. Ticks(listing'[readers'[r].source]) = Ticks(Planned(s + r - 1))
    BY <1>4, <2>2 DEF Planned
  <2>5. readers'[r] \in Reader
    BY <1>4, ElementOfSeq DEF Loaded
  <2>6. PICK left \in Seq(Tick) : left = readers'[r].left
    BY <2>5 DEF Reader
  <2>7. EndOf(left, left)
    BY DEF EndOf
  <2>8. EndOf(readers'[r].left, Ticks(listing'[readers'[r].source]))
    BY <2>2, <2>4, <2>6, <2>7
  <2>9. readers'[r].source = Sources'[nextSource' - 1 - (Len(readers') - r)]
    BY <1>4, <2>1, <2>2, <2>3
  <2>10. Len(readers') - r \in 0 .. nextSource' - 2
    BY <1>4, <2>1
  <2> QED
    BY <2>8, <2>9, <2>10 DEF IsOpen
<1>6. nextSource' \in 1 .. Len(listing') + 1
  BY <1>1, <1>3, <1>4
<1> QED
  BY <1>4, <1>5, <1>6 DEF Loaded, StreamTyped

\* Pulling a tick leaves an end of the file behind.
LEMMA PullKeepsTypes ==
    ASSUME StreamTyped, NEW p, Pulled(p)
    PROVE  StreamTyped'
<1>1. listing' = listing /\ nextSource' = nextSource /\ Len(readers') = Len(readers)
  BY DEF Pulled
<1>2. PICK w \in Nat : w = Len(readers) /\ p \in 1 .. w
  BY LenProperties DEF StreamTyped, Pulled, Holds
<1>3. Sources' = Sources
  BY <1>1 DEF Sources, PlannedBefore
<1>4. ASSUME NEW r \in 1 .. w PROVE IsOpen(r)'
  <2>1. IsOpen(r)
    BY <1>2 DEF StreamTyped
  <2>2. readers'[r].source = readers[r].source
    BY <1>2 DEF Pulled
  <2>3. EndOf(readers'[r].left, Ticks(listing[readers[r].source]))
    <3>1. CASE r # p
      BY <1>2, <2>1, <3>1 DEF Pulled, IsOpen
    <3>2. CASE r = p
      <4>0. PICK old \in Seq(Tick) : old = readers[p].left
        BY DEF Pulled, Holds
      <4>1. PICK all : all = Ticks(listing[readers[p].source]) /\ old = readers[p].left
        BY <4>0
      <4>2. EndOf(old, all)
        BY <2>1, <3>2, <4>1 DEF IsOpen
      <4>3. PICK new : new = readers'[p].left
        OBVIOUS
      <4>4. Len(old) \in Nat \ {0} /\ Len(new) = Len(old) - 1 /\ \A i \in 1 .. Len(new) : new[i] = old[i + 1]
        BY <4>1, <4>3 DEF Pulled, Holds
      <4>5. readers[p].source \in 1 .. Len(listing)
        BY <1>2, SourcesDiffer DEF SourcesAreOpen
      <4>6. Len(all) \in Nat
        BY <4>1, <4>5, ListingTyped, LenProperties DEF StreamTyped
      <4>7. EndOf(new, all)
        <5>1. Len(new) <= Len(all)
          BY <4>2, <4>4, <4>6 DEF EndOf
        <5>2. ASSUME NEW i \in 1 .. Len(new) PROVE new[i] = all[Len(all) - Len(new) + i]
          <6>1. i + 1 \in 1 .. Len(old) /\ Len(all) - Len(old) + (i + 1) = Len(all) - Len(new) + i
            BY <4>4, <4>6
          <6> QED
            BY <4>2, <4>4, <6>1 DEF EndOf
        <5> QED
          BY <5>1, <5>2 DEF EndOf
      <4> QED
        BY <3>2, <4>1, <4>3, <4>7
    <3> QED
      BY <3>1, <3>2
  <2> QED
    BY <1>1, <1>3, <2>1, <2>2, <2>3 DEF IsOpen
<1> QED
  BY <1>1, <1>2, <1>4 DEF Pulled, StreamTyped

\* What the stream keeps is what it is made of, whatever it does.
LEMMA StreamIsTyped == StreamSpec => []StreamTyped
<1>1. StreamInit => StreamTyped
  BY StreamTypedInit
<1>2. StreamTyped /\ [StreamNext]_streamVars => StreamTyped'
  <2> SUFFICES ASSUME StreamTyped, [StreamNext]_streamVars PROVE StreamTyped'
    OBVIOUS
  <2>1. CASE LoadNextGroup
    BY <2>1, LoadStep, LoadKeepsTypes
  <2>2. CASE NextTick
    BY <2>2, PullStep, PullKeepsTypes
  <2>3. CASE UNCHANGED streamVars
    <3>1. Sources' = Sources
      BY <2>3 DEF streamVars, Sources, PlannedBefore
    <3> QED
      BY <2>3, <3>1 DEF streamVars, StreamTyped, IsOpen
  <2> QED
    BY <2>1, <2>2, <2>3 DEF StreamNext
<1> QED
  BY <1>1, <1>2, PTL DEF StreamSpec

-----------------------------------------------------------------------------
(* Nothing is lost.                                                         *)

NothingLost == Range(emitted) \cup StillToCome = Recorded

\* Every recorded tick is in a planned file.
LEMMA RecordedIsPlanned ==
    ASSUME listing \in Listings, NEW t
    PROVE  t \in Recorded <=> \E k \in 1 .. Len(listing) : t \in Range(Ticks(Planned(k)))
<1>1. PICK n \in Nat : n = Len(listing)
  BY ListingTyped
<1>2. \A k \in 1 .. n : DOMAIN Ticks(listing[k]) = 1 .. Len(Ticks(listing[k]))
  BY <1>1, ListingTyped, LenProperties
<1>3. t \in Recorded <=> \E k \in 1 .. n : t \in Range(Ticks(listing[k]))
  <2>1. ASSUME NEW k \in 1 .. n, t \in Range(Ticks(listing[k])) PROVE t \in Recorded
    <3>1. PICK i \in 1 .. Len(Ticks(listing[k])) : t = Ticks(listing[k])[i]
      BY <1>2, <2>1 DEF Range
    <3>2. PICK row : row = <<k, i>>
      OBVIOUS
    <3>3. row \in Rows
      BY <1>1, <3>2, RowsTyped
    <3>4. RowTick(row) = t
      BY <3>1, <3>2 DEF RowTick
    <3> QED
      BY <3>3, <3>4 DEF Recorded
  <2>2. ASSUME t \in Recorded PROVE \E k \in 1 .. n : t \in Range(Ticks(listing[k]))
    <3>1. PICK row \in Rows : t = RowTick(row)
      BY <2>2 DEF Recorded
    <3>0. row[1] \in 1 .. n
      BY <1>1, RowsTyped
    <3>2. PICK k \in 1 .. n : k = row[1]
      BY <3>0
    <3>4. PICK i \in 1 .. Len(Ticks(listing[k])) : i = row[2]
      BY <3>2, RowsTyped
    <3>3. t = Ticks(listing[k])[i]
      BY <3>1, <3>2, <3>4 DEF RowTick
    <3> QED
      BY <1>2, <3>2, <3>3 DEF Range
  <2> QED
    BY <2>1, <2>2
<1>4. PICK src \in [1 .. n -> 1 .. n] : src = Sources /\ \A k \in 1 .. n : \E j \in 1 .. n : src[j] = k
  BY <1>1, PlanHolds DEF IsPlan
<1>5. \A k \in 1 .. n : src[k] \in 1 .. n /\ Planned(k) = listing[src[k]]
  BY <1>4 DEF Planned
<1> QED
  BY <1>1, <1>3, <1>4, <1>5

\* The same for what is still to come.
LEMMA ComingIs ==
    ASSUME NEW t
    PROVE  t \in StillToCome <=> \/ \E r \in heap : t \in Range(readers[r].left)
                                 \/ \E k \in nextSource .. Len(listing) : t \in Range(Ticks(Planned(k)))
  BY DEF StillToCome

\* Opening a day moves ticks from unopened files to open ones.
LEMMA LoadLosesNothing ==
    ASSUME StreamTyped, NEW m \in Nat, GroupIs(m), Loaded(m)
    PROVE  StillToCome' = StillToCome
<1>1. PICK n \in Nat : n = Len(listing)
  BY ListingTyped DEF StreamTyped
<1>2. PICK s \in 1 .. n : s = nextSource
  BY <1>1 DEF Loaded
<1>3. m \in 1 .. n - s + 1
  BY <1>1, <1>2 DEF GroupIs
<1>4. listing' = listing /\ nextSource' = s + m /\ heap = {}
  BY <1>2 DEF Loaded
<1>5. \A k : Planned(k)' = Planned(k)
  BY <1>4 DEF Planned, Sources, PlannedBefore
<1>6. /\ \A r \in 1 .. m : readers'[r].left = Ticks(Planned(s + r - 1))
      /\ heap' = {r \in 1 .. m : readers'[r].left # <<>>}
  BY <1>2 DEF Loaded
<1>7. Range(<<>>) = {}
  BY DEF Range
<1>8. ASSUME NEW t PROVE t \in StillToCome' <=> t \in StillToCome
  <2>1. t \in StillToCome <=> \E k \in s .. n : t \in Range(Ticks(Planned(k)))
    BY <1>1, <1>2, <1>4, ComingIs
  <2>2. t \in StillToCome' <=> \/ \E r \in heap' : t \in Range(readers'[r].left)
                               \/ \E k \in s + m .. n : t \in Range(Ticks(Planned(k)))
    <3>1. t \in StillToCome' <=> \/ \E r \in heap' : t \in Range(readers'[r].left)
                                 \/ \E k \in nextSource' .. Len(listing') : t \in Range(Ticks(Planned(k)'))
      BY DEF StillToCome
    <3> QED
      BY <1>1, <1>4, <1>5, <3>1
  <2>3. (\E r \in heap' : t \in Range(readers'[r].left))
           <=> \E r \in 1 .. m : t \in Range(Ticks(Planned(s + r - 1)))
    BY <1>6, <1>7
  <2>4. (\E r \in 1 .. m : t \in Range(Ticks(Planned(s + r - 1))))
           <=> \E k \in s .. s + m - 1 : t \in Range(Ticks(Planned(k)))
    <3>1. \A r \in 1 .. m : s + r - 1 \in s .. s + m - 1
      BY <1>3
    <3>2. ASSUME NEW k \in s .. s + m - 1, t \in Range(Ticks(Planned(k)))
          PROVE  \E r \in 1 .. m : t \in Range(Ticks(Planned(s + r - 1)))
      <4>1. k - s + 1 \in 1 .. m /\ s + (k - s + 1) - 1 = k
        BY <1>3
      <4> QED
        BY <3>2, <4>1
    <3> QED
      BY <3>1, <3>2
  <2>5. \A k : k \in s .. n <=> k \in s .. s + m - 1 \/ k \in s + m .. n
    BY <1>3
  <2> QED
    BY <2>1, <2>2, <2>3, <2>4, <2>5
<1> QED
  BY <1>8

\* A pulled tick leaves what is to come and is now among those handed out.
LEMMA PullLosesNothing ==
    ASSUME StreamTyped, NEW p, Pulled(p)
    PROVE  /\ Range(emitted') = Range(emitted) \cup {Current(p)}
           /\ Range(emitted') \cup StillToCome' = Range(emitted) \cup StillToCome
<1>1. Current(p) \in Tick /\ emitted \in Seq(Tick) /\ emitted' = KeepNew(emitted, Current(p))
  BY DEF Pulled, Holds, StreamTyped
<1>2. PICK kept \in Seq(Tick), new \in Seq(Tick), t \in Tick :
         kept = emitted /\ new = emitted' /\ t = Current(p)
  BY <1>1 DEF Pulled
<1>3. /\ BeginsWith(kept, new) /\ new # <<>> /\ Last(new) = t
      /\ \A i \in 1 .. Len(new) : i <= Len(kept) \/ (i = Len(kept) + 1 /\ new[i] = t)
  BY <1>1, <1>2, KeepingExtends
<1>4. Range(new) = Range(kept) \cup {t}
  <2>0. /\ DOMAIN new = 1 .. Len(new) /\ DOMAIN kept = 1 .. Len(kept)
        /\ Len(new) \in Nat \ {0} /\ Len(kept) \in Nat
    BY <1>3, LenProperties, EmptySeq
  <2>1. new[Len(new)] = t /\ Len(new) \in 1 .. Len(new)
    BY <1>3, <2>0 DEF Last
  <2>2. \A i \in 1 .. Len(kept) : i \in 1 .. Len(new) /\ new[i] = kept[i]
    BY <1>3, <2>0 DEF BeginsWith
  <2>3. \A i \in 1 .. Len(new) : new[i] = t \/ (i \in 1 .. Len(kept) /\ new[i] = kept[i])
    BY <1>3, <2>0, <2>2
  <2> QED
    BY <2>0, <2>1, <2>2, <2>3 DEF Range
<1>5. PICK w \in Nat : w = Len(readers) /\ p \in 1 .. w
  BY LenProperties DEF StreamTyped, Pulled, Holds
<1>6. PICK old \in Seq(Tick), rest \in Seq(Tick) : old = readers[p].left /\ rest = readers'[p].left
  <2>1. readers'[p] \in Reader
    BY <1>5, ElementOfSeq DEF Pulled
  <2> QED
    BY <2>1 DEF Pulled, Holds, Reader
<1>7. Range(old) = Range(rest) \cup {t}
  <2>1. /\ Len(old) \in Nat \ {0} /\ Len(rest) = Len(old) - 1 /\ old[1] = t
        /\ \A i \in 1 .. Len(rest) : rest[i] = old[i + 1]
    BY <1>2, <1>6 DEF Pulled, Holds
  <2>2. DOMAIN old = 1 .. Len(old) /\ DOMAIN rest = 1 .. Len(rest)
    BY LenProperties
  <2>3. \A i \in 1 .. Len(old) : old[i] = t \/ (i - 1 \in 1 .. Len(rest) /\ old[i] = rest[i - 1])
    BY <2>1
  <2>4. \A i \in 1 .. Len(rest) : i + 1 \in 1 .. Len(old)
    BY <2>1
  <2>5. 1 \in 1 .. Len(old)
    BY <2>1
  <2>6. ASSUME NEW x PROVE x \in Range(old) <=> x \in Range(rest) \/ x = t
    <3>1. x \in Range(old) <=> \E i \in 1 .. Len(old) : x = old[i]
      BY <2>2 DEF Range
    <3>2. x \in Range(rest) <=> \E i \in 1 .. Len(rest) : x = rest[i]
      BY <2>2 DEF Range
    <3>3. ASSUME x \in Range(old) PROVE x \in Range(rest) \/ x = t
      BY <2>3, <3>1, <3>2, <3>3
    <3>4. ASSUME x \in Range(rest) \/ x = t PROVE x \in Range(old)
      BY <2>1, <2>4, <2>5, <3>1, <3>2, <3>4
    <3> QED
      BY <3>3, <3>4
  <2> QED
    BY <2>6
<1>8. /\ listing' = listing /\ nextSource' = nextSource /\ p \in heap
      /\ heap = {r \in 1 .. w : readers[r].left # <<>>}
      /\ heap' = {r \in 1 .. w : readers'[r].left # <<>>}
      /\ \A r \in 1 .. w : r # p => readers'[r] = readers[r]
  BY <1>5 DEF Pulled, TopIs, StreamTyped
<1>9. \A k : Planned(k)' = Planned(k)
  BY <1>8 DEF Planned, Sources, PlannedBefore
<1>10. Range(<<>>) = {}
  BY DEF Range
<1>11. ASSUME NEW x PROVE x \in StillToCome <=> x \in StillToCome' \/ x = t
  <2>1. x \in StillToCome <=> \/ \E r \in 1 .. w : x \in Range(readers[r].left)
                              \/ \E k \in nextSource .. Len(listing) : x \in Range(Ticks(Planned(k)))
    BY <1>8, <1>10, ComingIs
  <2>2. x \in StillToCome' <=> \/ \E r \in 1 .. w : x \in Range(readers'[r].left)
                               \/ \E k \in nextSource .. Len(listing) : x \in Range(Ticks(Planned(k)))
    <3>1. x \in StillToCome' <=> \/ \E r \in heap' : x \in Range(readers'[r].left)
                                 \/ \E k \in nextSource' .. Len(listing') : x \in Range(Ticks(Planned(k)'))
      BY DEF StillToCome
    <3> QED
      BY <1>8, <1>9, <1>10, <3>1
  <2>3. (\E r \in 1 .. w : x \in Range(readers[r].left))
           <=> (\E r \in 1 .. w : x \in Range(readers'[r].left)) \/ x = t
    BY <1>5, <1>6, <1>7, <1>8
  <2> QED
    BY <2>1, <2>2, <2>3
<1> QED
  BY <1>2, <1>4, <1>11

\* No tick of any file is lost, whatever order its rows are in.
LEMMA NothingIsLost == StreamSpec => []NothingLost
<1>1. StreamInit => NothingLost
  <2> SUFFICES ASSUME StreamInit PROVE NothingLost
    OBVIOUS
  <2>1. ASSUME NEW t PROVE t \in StillToCome <=> t \in Recorded
    BY ComingIs, RecordedIsPlanned DEF StreamInit
  <2>2. Range(emitted) = {}
    BY DEF StreamInit, Range
  <2> QED
    BY <2>1, <2>2 DEF NothingLost
<1>2. StreamTyped /\ NothingLost /\ [StreamNext]_streamVars => NothingLost'
  <2> SUFFICES ASSUME StreamTyped, NothingLost, [StreamNext]_streamVars PROVE NothingLost'
    OBVIOUS
  <2>0. listing' = listing
    BY DEF StreamNext, LoadNextGroup, NextTick, streamVars
  <2>1. Recorded' = Recorded
    BY <2>0 DEF Recorded, Rows, RowTick
  <2>2. CASE LoadNextGroup
    <3>1. PICK m \in Nat : GroupIs(m) /\ Loaded(m)
      BY <2>2, LoadStep
    <3>2. StillToCome' = StillToCome /\ emitted' = emitted
      BY <3>1, LoadLosesNothing DEF Loaded
    <3> QED
      BY <2>1, <3>2 DEF NothingLost
  <2>3. CASE NextTick
    <3>1. PICK p \in heap : Pulled(p)
      BY <2>3, PullStep
    <3>2. Range(emitted') \cup StillToCome' = Range(emitted) \cup StillToCome
      BY <3>1, PullLosesNothing
    <3> QED
      BY <2>1, <3>2 DEF NothingLost
  <2>4. CASE UNCHANGED streamVars
    <3>1. StillToCome' = StillToCome /\ emitted' = emitted
      BY <2>4 DEF streamVars, StillToCome, Planned, Sources, PlannedBefore
    <3> QED
      BY <2>1, <3>1 DEF NothingLost
  <2> QED
    BY <2>2, <2>3, <2>4 DEF StreamNext
<1> QED
  BY <1>1, <1>2, StreamIsTyped, PTL DEF StreamSpec

-----------------------------------------------------------------------------
(* Days go in turn, and over clean files no tick comes twice.               *)

\* A stream opens whole trading days, and what it has handed out is not of a
\* later day than what is open.
DaysInTurn ==
    /\ \A r \in 1 .. Len(readers) : listing[readers[r].source].day = Planned(nextSource - 1).day
    /\ \A k \in nextSource .. Len(listing) :
          nextSource > 1 => Planned(k).day > Planned(nextSource - 1).day
    /\ \A e \in Range(emitted) : nextSource > 1 /\ e.day <= Planned(nextSource - 1).day

\* What is in the file a reader has open.
LEMMA OpenFile ==
    ASSUME StreamTyped, NEW r \in 1 .. Len(readers)
    PROVE  /\ readers[r].source \in 1 .. Len(listing)
           /\ Ticks(listing[readers[r].source]) \in Seq(TicksOf(listing[readers[r].source].day))
           /\ EndOf(readers[r].left, Ticks(listing[readers[r].source]))
           /\ readers[r].left \in Seq(TicksOf(listing[readers[r].source].day))
<1>1. PICK k \in 1 .. Len(listing) : k = readers[r].source
  BY SourcesDiffer DEF SourcesAreOpen
<1>2. PICK all \in Seq(TicksOf(listing[k].day)) : all = Ticks(listing[k])
  BY ListingTyped DEF StreamTyped
<1>3. readers[r] \in Reader
  BY ElementOfSeq DEF StreamTyped
<1>4. PICK left \in Seq(Tick) : left = readers[r].left
  BY <1>3 DEF Reader
<1>5. EndOf(left, all)
  BY <1>1, <1>2, <1>4 DEF StreamTyped, IsOpen
<1>6. PICK n \in Nat, m \in Nat : n = Len(left) /\ m = Len(all) /\ left \in [1 .. n -> Tick] /\ DOMAIN left = 1 .. n
  BY LenProperties
<1>7. \A i \in 1 .. n : left[i] \in TicksOf(listing[k].day)
  <2> SUFFICES ASSUME NEW i \in 1 .. n PROVE left[i] \in TicksOf(listing[k].day)
    OBVIOUS
  <2>0. n <= m
    BY <1>5, <1>6 DEF EndOf
  <2>1. PICK j \in 1 .. m : j = m - n + i
    <3>1. m - n + i \in 1 .. m
      BY <2>0
    <3> QED
      BY <3>1
  <2>2. left[i] = all[j]
    BY <1>5, <1>6, <2>1 DEF EndOf
  <2> QED
    BY <1>6, <2>2, ElementOfSeq
<1>8. left \in [1 .. n -> TicksOf(listing[k].day)]
  BY <1>6, <1>7
<1>9. left \in Seq(TicksOf(listing[k].day))
  BY <1>8, IsASeq
<1> QED
  BY <1>1, <1>2, <1>4, <1>5, <1>9

\* What a sorted file has left is sorted.
LEMMA LeftIsSorted ==
    ASSUME StreamTyped, FilesAreSorted, NEW r \in 1 .. Len(readers), NEW left, left = readers[r].left,
           NEW i \in 1 .. Len(left), NEW j \in 1 .. Len(left), i < j
    PROVE  ~SortsBefore(left[j], left[i])
<1>1. PICK k \in 1 .. Len(listing) : k = readers[r].source
  BY OpenFile
<1>2. PICK all \in Seq(TicksOf(listing[k].day)) : all = Ticks(listing[k]) /\ EndOf(left, all)
  BY <1>1, OpenFile
<1>3. PICK n \in Nat, m \in Nat : n = Len(left) /\ m = Len(all) /\ DOMAIN all = 1 .. m
  BY OpenFile, LenProperties
<1>4. PICK a \in 1 .. m, b \in 1 .. m : a = m - n + i /\ b = m - n + j /\ a < b
  <2>1. n <= m /\ i \in 1 .. n /\ j \in 1 .. n
    BY <1>2, <1>3 DEF EndOf
  <2>2. m - n + i \in 1 .. m /\ m - n + j \in 1 .. m /\ m - n + i < m - n + j
    BY <2>1
  <2> QED
    BY <2>2
<1>5. left[i] = all[a] /\ left[j] = all[b]
  BY <1>2, <1>3, <1>4 DEF EndOf
<1>6. k \in DOMAIN listing
  BY ListingTyped DEF StreamTyped
<1>7. ~SortsBefore(all[b], all[a])
  BY <1>2, <1>3, <1>4, <1>6 DEF FilesAreSorted
<1> QED
  BY <1>5, <1>7

\* No other tick that open readers hold comes before the one pulled.
LEMMA PulledIsFirst ==
    ASSUME StreamTyped, FilesAreSorted, NEW p, TopIs(p),
           NEW r \in heap, NEW i \in 1 .. Len(readers[r].left), r # p \/ i # 1,
           NEW u, u = readers[r].left[i], NEW t, t = Current(p)
    PROVE  /\ t \in Tick /\ u \in Tick
           /\ \/ SortsBefore(t, u)
              \/ ~SortsBefore(u, t) /\ (r = p \/ readers[p].source < readers[r].source)
<1>1. Holds(p) /\ Holds(r) /\ t \in Tick
  BY HeapHolds DEF TopIs, Holds
<1>2. PICK left \in Seq(Tick) : left = readers[r].left
  BY <1>1 DEF Holds
<1>3. u \in Tick /\ i \in Nat \ {0}
  BY <1>2, ElementOfSeq, LenProperties
<1>4. PICK c \in Tick : c = Current(r) /\ c = left[1]
  BY <1>1, <1>2 DEF Holds
<1>5. ~SortsBefore(u, c)
  <2>1. CASE i = 1
    <3>1. u = c /\ c.at \in Nat /\ c.sym \in Nat
      BY <1>2, <1>4, <2>1 DEF Tick
    <3> QED
      BY <3>1 DEF SortsBefore
  <2>2. CASE i # 1
    <3>1. Len(left) \in Nat /\ i \in 1 .. Len(left) /\ r \in 1 .. Len(readers)
      BY <1>1, <1>2, LenProperties DEF Holds
    <3>2. 1 \in 1 .. Len(left) /\ 1 < i
      BY <2>2, <3>1
    <3>3. ~SortsBefore(left[i], left[1])
      BY <1>2, <3>1, <3>2, LeftIsSorted
    <3> QED
      BY <1>2, <1>4, <3>3
  <2> QED
    BY <2>1, <2>2
<1>6. CASE r = p
  BY <1>1, <1>3, <1>4, <1>5, <1>6
<1>7. CASE r # p
  <2>1. SortsBefore(t, c) \/ (~SortsBefore(c, t) /\ readers[p].source < readers[r].source)
    BY <1>4, <1>7 DEF TopIs, ReaderBefore
  <2>2. /\ SortsBefore(t, c) => SortsBefore(t, u)
        /\ ~SortsBefore(c, t) => ~SortsBefore(u, t)
    <3>1. /\ t.at \in Nat /\ t.sym \in Nat /\ u.at \in Nat /\ u.sym \in Nat
          /\ c.at \in Nat /\ c.sym \in Nat
      BY <1>1, <1>3 DEF Tick
    <3> QED
      BY <1>5, <3>1 DEF SortsBefore
  <2> QED
    BY <1>1, <1>3, <2>1, <2>2
<1> QED
  BY <1>6, <1>7

\* The day opened is later than all that were handed out.
LEMMA LoadKeepsDays ==
    ASSUME StreamTyped, DaysInTurn, NEW m \in Nat, GroupIs(m), Loaded(m)
    PROVE  DaysInTurn'
<1>1. PICK n \in Nat : n = Len(listing)
  BY ListingTyped DEF StreamTyped
<1>2. PICK s \in 1 .. n : s = nextSource
  BY <1>1 DEF Loaded
<1>3. m \in 1 .. n - s + 1
  BY <1>1, <1>2 DEF GroupIs
<1>4. listing' = listing /\ nextSource' = s + m /\ emitted' = emitted /\ Len(readers') = m
  BY <1>2 DEF Loaded
<1>5. \A k : Planned(k)' = Planned(k)
  BY <1>4 DEF Planned, Sources, PlannedBefore
<1>6. PICK d \in Nat : d = Planned(s).day
  BY <1>1, <1>2, DaysRise DEF StreamTyped
<1>7. /\ \A k \in s .. s + m - 1 : Planned(k).day = d
      /\ \A k \in s + m .. n : Planned(k).day > d
  BY <1>1, <1>2, <1>6 DEF GroupIs
<1>8. s + m - 1 \in s .. s + m - 1 /\ nextSource' - 1 = s + m - 1
  BY <1>3, <1>4
<1>9. Planned(s + m - 1).day = d
  BY <1>7, <1>8
<1>10. ASSUME NEW r \in 1 .. m PROVE listing[readers'[r].source].day = d
  <2>1. readers'[r].source = Sources[s + r - 1] /\ s + r - 1 \in s .. s + m - 1
    BY <1>2, <1>3 DEF Loaded
  <2> QED
    BY <1>7, <2>1 DEF Planned
<1>11. ASSUME NEW e \in Range(emitted) PROVE e.day <= d
  <2>1. s > 1 /\ e.day <= Planned(s - 1).day
    BY <1>2 DEF DaysInTurn
  <2>2. Planned(s - 1).day <= d /\ Planned(s - 1).day \in Nat
    <3>1. s - 1 \in 1 .. n /\ s - 1 <= s
      BY <2>1
    <3> QED
      BY <1>1, <1>6, <3>1, DaysRise DEF StreamTyped
  <2>3. e.day \in Nat
    <3>1. emitted \in Seq(Tick) /\ DOMAIN emitted = 1 .. Len(emitted)
      BY LenProperties DEF StreamTyped
    <3>2. e \in Tick
      BY <3>1, ElementOfSeq DEF Range
    <3> QED
      BY <3>2 DEF Tick
  <2> QED
    BY <2>1, <2>2, <2>3
<1>12. s + m > 1
  BY <1>3
<1> QED
  BY <1>1, <1>4, <1>5, <1>7, <1>8, <1>9, <1>10, <1>11, <1>12 DEF DaysInTurn

\* The tick pulled is of the day that is open.
LEMMA PullKeepsDays ==
    ASSUME StreamTyped, DaysInTurn, NEW p, Pulled(p)
    PROVE  DaysInTurn'
<1>1. /\ listing' = listing /\ nextSource' = nextSource /\ Len(readers') = Len(readers)
      /\ p \in 1 .. Len(readers)
  BY DEF Pulled, Holds
<1>2. \A k : Planned(k)' = Planned(k)
  BY <1>1 DEF Planned, Sources, PlannedBefore
<1>3. \A r \in 1 .. Len(readers) : readers'[r].source = readers[r].source
  BY DEF Pulled
<1>4. Range(emitted') = Range(emitted) \cup {Current(p)}
  BY PullLosesNothing
<1>5. PICK d \in Nat : d = Planned(nextSource - 1).day /\ d = listing[readers[p].source].day
  BY <1>1, OpenFile, ListingTyped DEF DaysInTurn, StreamTyped
<1>6. Current(p).day = d
  <2>1. PICK left \in Seq(TicksOf(d)) : left = readers[p].left
    BY <1>1, <1>5, OpenFile
  <2>2. Current(p) = left[1] /\ 1 \in 1 .. Len(left)
    BY <2>1 DEF Pulled, Holds
  <2> QED
    BY <2>2, ElementOfSeq DEF TicksOf
<1>7. nextSource > 1
  <2>1. PICK w \in Nat, s \in Nat : w = Len(readers) /\ s = nextSource
    BY ListingTyped, LenProperties DEF StreamTyped
  <2>2. w - p \in 0 .. s - 2 /\ p \in 1 .. w
    BY <1>1, <2>1 DEF StreamTyped, IsOpen
  <2> QED
    BY <2>1, <2>2
<1> QED
  BY <1>1, <1>2, <1>3, <1>4, <1>5, <1>6, <1>7 DEF DaysInTurn

\* The days are handed out in turn.
LEMMA DaysGoInTurn == StreamSpec => []DaysInTurn
<1>1. StreamInit => DaysInTurn
  <2> SUFFICES ASSUME StreamInit PROVE DaysInTurn
    OBVIOUS
  <2>1. Len(readers) = 0 /\ nextSource = 1 /\ Range(emitted) = {}
    BY EmptySeq DEF StreamInit, Range
  <2> QED
    BY <2>1 DEF DaysInTurn
<1>2. StreamTyped /\ DaysInTurn /\ [StreamNext]_streamVars => DaysInTurn'
  <2> SUFFICES ASSUME StreamTyped, DaysInTurn, [StreamNext]_streamVars PROVE DaysInTurn'
    OBVIOUS
  <2>1. CASE LoadNextGroup
    BY <2>1, LoadStep, LoadKeepsDays
  <2>2. CASE NextTick
    BY <2>2, PullStep, PullKeepsDays
  <2>3. CASE UNCHANGED streamVars
    BY <2>3 DEF streamVars, DaysInTurn, Planned, Sources, PlannedBefore
  <2> QED
    BY <2>1, <2>2, <2>3 DEF StreamNext
<1> QED
  BY <1>1, <1>2, StreamIsTyped, PTL DEF StreamSpec

Clean == MomentsAreDistinct /\ FilesAgree

\* What open readers still hold does not come before what was handed out of
\* the same day, and what was handed out rises by day, moment and symbol.
NoneBehind ==
    \A e \in Range(emitted) : \A r \in heap : \A u \in Range(readers[r].left) :
        e.day = u.day => ~SortsBefore(u, e)

Precedes(t, u) == t.day <= u.day /\ (t.day = u.day => SortsBefore(t, u))

Rising == \A i, j \in 1 .. Len(emitted) : i < j => Precedes(emitted[i], emitted[j])

RisesIfClean == Clean => NoneBehind /\ Rising

\* A file without two rows of a symbol for one moment is sorted.
LEMMA CleanFilesAreSorted ==
    ASSUME listing \in Listings, MomentsAreDistinct
    PROVE  FilesAreSorted
<1> SUFFICES ASSUME NEW k \in DOMAIN listing, NEW ticks, ticks = Ticks(listing[k]),
                    NEW i \in DOMAIN ticks, NEW j \in DOMAIN ticks, i < j
             PROVE  ~SortsBefore(ticks[j], ticks[i])
  BY DEF FilesAreSorted
<1>1. SortsBefore(ticks[i], ticks[j])
  BY DEF MomentsAreDistinct
<1>2. ticks \in Seq(TicksOf(listing[k].day)) /\ DOMAIN ticks = 1 .. Len(ticks)
  BY ListingTyped, LenProperties
<1>3. ticks[i] \in Tick /\ ticks[j] \in Tick
  BY <1>2, ElementOfSeq DEF TicksOf
<1>4. /\ ticks[i].at \in Nat /\ ticks[i].sym \in Nat
      /\ ticks[j].at \in Nat /\ ticks[j].sym \in Nat
  BY <1>3 DEF Tick
<1> QED
  BY <1>1, <1>4 DEF SortsBefore

\* What only depends on the files does not change while they do not.
LEMMA FrozenFiles ==
    ASSUME listing' = listing
    PROVE  /\ Clean' <=> Clean
           /\ FilesAreSorted' <=> FilesAreSorted
           /\ DaysFollowTime' <=> DaysFollowTime
           /\ Rows' = Rows /\ RowsBefore' = RowsBefore /\ Recorded' = Recorded
           /\ sort_ticks_chronologically' = sort_ticks_chronologically
           /\ load_backtest_ticks' = load_backtest_ticks
<1>1. Rows' = Rows
  BY DEF Rows
<1>2. RowsBefore' = RowsBefore
  BY <1>1 DEF RowsBefore, RowTick
<1>3. Recorded' = Recorded
  BY <1>1 DEF Recorded, RowTick
<1>4. Clean' <=> Clean
  BY <1>3 DEF Clean, MomentsAreDistinct, FilesAgree
<1>5. FilesAreSorted' <=> FilesAreSorted
  BY DEF FilesAreSorted
<1>6. DaysFollowTime' <=> DaysFollowTime
  BY <1>3 DEF DaysFollowTime
<1>7. sort_ticks_chronologically' = sort_ticks_chronologically
  BY <1>1, <1>2 DEF sort_ticks_chronologically, RowTick
<1>8. load_backtest_ticks' = load_backtest_ticks
  BY <1>7 DEF load_backtest_ticks
<1> QED
  BY <1>1, <1>2, <1>3, <1>4, <1>5, <1>6, <1>7, <1>8

\* What was handed out is ticks.
LEMMA EmittedTyped ==
    ASSUME StreamTyped
    PROVE  /\ Len(emitted) \in Nat /\ DOMAIN emitted = 1 .. Len(emitted)
           /\ \A e \in Range(emitted) : e \in Tick /\ \E i \in 1 .. Len(emitted) : e = emitted[i]
           /\ \A i \in 1 .. Len(emitted) : emitted[i] \in Range(emitted)
<1>1. emitted \in Seq(Tick) /\ DOMAIN emitted = 1 .. Len(emitted) /\ Len(emitted) \in Nat
  BY LenProperties DEF StreamTyped
<1> QED
  BY <1>1, ElementOfSeq DEF Range

\* A new day comes after everything handed out.
LEMMA LoadKeepsRising ==
    ASSUME StreamTyped, DaysInTurn, RisesIfClean, NEW m \in Nat, GroupIs(m), Loaded(m)
    PROVE  RisesIfClean'
<1> SUFFICES ASSUME Clean PROVE NoneBehind' /\ Rising'
  BY FrozenFiles DEF Loaded, RisesIfClean
<1>1. Rising'
  BY DEF RisesIfClean, Rising, Loaded
<1>2. StreamTyped' /\ DaysInTurn'
  BY LoadKeepsTypes, LoadKeepsDays
<1>3. PICK n \in Nat, d \in Nat : n = Len(listing) /\ d = Planned(nextSource).day
  <2>1. nextSource \in 1 .. Len(listing)
    BY DEF Loaded
  <2> QED
    BY <2>1, ListingTyped, DaysRise DEF StreamTyped
<1>4. PICK s \in 1 .. n : s = nextSource
  BY <1>3 DEF Loaded
<1>5. m \in 1 .. n - s + 1
  BY <1>3, <1>4 DEF GroupIs
<1>6. \A e \in Range(emitted) : e.day < d
  <2> SUFFICES ASSUME NEW e \in Range(emitted) PROVE e.day < d
    OBVIOUS
  <2>1. s > 1 /\ e.day <= Planned(s - 1).day /\ d > Planned(s - 1).day
    BY <1>3, <1>4 DEF DaysInTurn
  <2>2. e.day \in Nat /\ Planned(s - 1).day \in Nat
    <3>1. e \in Tick /\ s - 1 \in 1 .. n
      BY <2>1, EmittedTyped
    <3> QED
      BY <1>3, <3>1, DaysRise DEF StreamTyped, Tick
  <2> QED
    BY <2>1, <2>2
<1>7. ASSUME NEW r \in 1 .. m, NEW u \in Range(readers'[r].left) PROVE u.day = d
  <2>1. PICK k \in 1 .. n : k = s + r - 1 /\ k \in s .. s + m - 1
    BY <1>5
  <2>2. readers'[r].left = Ticks(Planned(k)) /\ Planned(k).day = d
    BY <1>3, <1>4, <2>1 DEF Loaded, GroupIs
  <2>3. Planned(k) \in File
    BY <1>3, DaysRise DEF StreamTyped
  <2>4. PICK left \in Seq(TicksOf(d)) : left = readers'[r].left
    BY <2>2, <2>3, TicksTyped
  <2>5. u \in TicksOf(d)
    BY <2>4, ElementOfSeq, LenProperties DEF Range
  <2> QED
    BY <2>5 DEF TicksOf
<1>8. NoneBehind'
  <2> SUFFICES ASSUME NEW e \in Range(emitted'), NEW r \in heap', NEW u \in Range(readers'[r].left), e.day = u.day
               PROVE  FALSE
    BY DEF NoneBehind
  <2>1. e \in Range(emitted) /\ r \in 1 .. m
    BY DEF Loaded
  <2>2. e.day < d /\ u.day = d
    BY <1>6, <1>7, <2>1
  <2> QED
    BY <2>2
<1> QED
  BY <1>1, <1>8

\* The tick pulled comes after all that was handed out, unless it repeats the last.
LEMMA PulledRises ==
    ASSUME StreamTyped, NothingLost, DaysInTurn, Clean, NoneBehind, Rising, NEW p, TopIs(p),
           NEW t, t = Current(p), ~(emitted # <<>> /\ Last(emitted) = t),
           NEW i \in 1 .. Len(emitted)
    PROVE  Precedes(emitted[i], t)
<1>1. Holds(p) /\ t \in Tick
  BY HeapHolds DEF TopIs, Holds
<1>2. t \in Range(readers[p].left)
  BY <1>1, LenProperties DEF Holds, Range
<1>3. PICK n \in Nat, e \in Tick : n = Len(emitted) /\ e = emitted[i] /\ e \in Range(emitted)
  BY EmittedTyped
<1>4. PICK z \in Tick : z = emitted[n] /\ z \in Range(emitted)
  BY <1>3, EmittedTyped
<1>5. e # t \/ i < n
  <2> SUFFICES ASSUME e = t, ~(i < n) PROVE FALSE
    OBVIOUS
  <2>1. i = n
    BY <1>3
  <2>2. Last(emitted) = t /\ emitted # <<>>
    BY <1>3, <2>1, EmptySeq DEF Last
  <2> QED
    BY <2>2
<1>6. \A x \in Range(emitted) : x.day <= t.day /\ (x.day = t.day => ~SortsBefore(t, x))
  <2> SUFFICES ASSUME NEW x \in Range(emitted)
               PROVE  x.day <= t.day /\ (x.day = t.day => ~SortsBefore(t, x))
    OBVIOUS
  <2>1. x.day <= Planned(nextSource - 1).day
    BY DEF DaysInTurn
  <2>2. PICK d \in Nat : d = listing[readers[p].source].day /\ d = Planned(nextSource - 1).day
    BY <1>1, OpenFile, ListingTyped DEF DaysInTurn, StreamTyped, Holds
  <2>3. PICK left \in Seq(TicksOf(d)) : left = readers[p].left
    BY <1>1, <2>2, OpenFile DEF Holds
  <2>4. t.day = d
    BY <1>2, <2>3, ElementOfSeq, LenProperties DEF TicksOf, Range
  <2>5. x.day = t.day => ~SortsBefore(t, x)
    BY <1>2 DEF NoneBehind, TopIs
  <2> QED
    BY <2>1, <2>2, <2>4, <2>5
<1>7. e \in Recorded /\ t \in Recorded
  <2>1. t \in StillToCome
    BY <1>2, ComingIs DEF TopIs
  <2> QED
    BY <1>3, <2>1 DEF NothingLost
<1>8. SameMoment(e, t) => e = t
  BY <1>7 DEF Clean, FilesAgree
<1>9. i < n => Precedes(e, z)
  BY <1>3, <1>4 DEF Rising
<1>10. /\ e.day \in Nat /\ e.at \in Nat /\ e.sym \in Nat /\ t.day \in Nat /\ t.at \in Nat /\ t.sym \in Nat
       /\ z.day \in Nat /\ z.at \in Nat /\ z.sym \in Nat
  BY <1>1 DEF Tick
<1>11. e.day <= t.day /\ (e.day = t.day => ~SortsBefore(t, e))
  BY <1>3, <1>6
<1>12. z.day <= t.day /\ (z.day = t.day => ~SortsBefore(t, z))
  BY <1>4, <1>6
<1>13. ASSUME e.day = t.day PROVE SortsBefore(e, t)
  <2> SUFFICES ASSUME ~SortsBefore(e, t) PROVE FALSE
    OBVIOUS
  <2>1. e.at = t.at /\ e.sym = t.sym
    BY <1>10, <1>11, <1>13 DEF SortsBefore
  <2>2. e = t
    BY <1>8, <1>13, <2>1 DEF SameMoment
  <2>3. Precedes(e, z)
    BY <1>5, <1>9, <2>2
  <2>4. z.day = t.day
    BY <1>10, <1>12, <1>13, <2>3 DEF Precedes
  <2>5. SortsBefore(t, z)
    BY <1>13, <2>2, <2>3, <2>4 DEF Precedes
  <2> QED
    BY <1>12, <2>4, <2>5
<1> QED
  BY <1>3, <1>11, <1>13 DEF Precedes

\* A tick handed out comes after those before it, and before those behind it.
LEMMA PullKeepsRising ==
    ASSUME StreamTyped, NothingLost, DaysInTurn, RisesIfClean, NEW p, Pulled(p)
    PROVE  RisesIfClean'
<1> SUFFICES ASSUME Clean PROVE NoneBehind' /\ Rising'
  BY FrozenFiles DEF Pulled, RisesIfClean
<1>1. TopIs(p) /\ Holds(p) /\ Current(p) \in Tick /\ NoneBehind /\ Rising
  BY DEF Pulled, RisesIfClean, Holds
<1>2. FilesAreSorted
  BY CleanFilesAreSorted DEF StreamTyped, Clean
<1>3. PICK t \in Tick : t = Current(p)
  BY <1>1
<1>4. Rising'
  <2>1. CASE emitted # <<>> /\ Last(emitted) = t
    <3>1. emitted' = emitted
      BY <1>3, <2>1 DEF Pulled, KeepNew, IdenticalTicks
    <3> QED
      BY <1>1, <3>1 DEF Rising
  <2>2. CASE ~(emitted # <<>> /\ Last(emitted) = t)
    <3>1. emitted' = Append(emitted, t)
      BY <1>3, <2>2 DEF Pulled, KeepNew, IdenticalTicks
    <3>2. PICK kept \in Seq(Tick), n \in Nat : kept = emitted /\ n = Len(kept)
      BY LenProperties DEF StreamTyped
    <3>3. PICK new : new = emitted' /\ Len(new) = n + 1 /\ new[n + 1] = t
                     /\ \A i \in 1 .. n : new[i] = kept[i]
      BY <3>1, <3>2, AppendProperties
    <3>4. \A i \in 1 .. n : Precedes(kept[i], t)
      BY <1>1, <1>3, <2>2, <3>2, PulledRises
    <3>5. \A i, j \in 1 .. n : i < j => Precedes(kept[i], kept[j])
      BY <1>1, <3>2 DEF Rising
    <3>6. ASSUME NEW i \in 1 .. n + 1, NEW j \in 1 .. n + 1, i < j PROVE Precedes(new[i], new[j])
      <4>1. i \in 1 .. n /\ (j = n + 1 \/ j \in 1 .. n)
        BY <3>6
      <4>2. CASE j = n + 1
        BY <3>3, <3>4, <4>1, <4>2
      <4>3. CASE j \in 1 .. n
        BY <3>3, <3>5, <3>6, <4>1, <4>3
      <4> QED
        BY <4>1, <4>2, <4>3
    <3> QED
      BY <3>3, <3>6 DEF Rising
  <2> QED
    BY <2>1, <2>2
<1>5. Range(emitted') = Range(emitted) \cup {t}
  BY <1>3, PullLosesNothing
<1>6. NoneBehind'
  <2> SUFFICES ASSUME NEW e \in Range(emitted'), NEW r \in heap', NEW u \in Range(readers'[r].left), e.day = u.day
               PROVE  ~SortsBefore(u, e)
    BY DEF NoneBehind
  <2>1. r \in 1 .. Len(readers) /\ readers'[r] \in Reader
    <3>1. r \in 1 .. Len(readers') /\ Len(readers') = Len(readers) /\ readers' \in Seq(Reader)
      BY DEF Pulled
    <3> QED
      BY <3>1, ElementOfSeq
  <2>2. PICK i \in 1 .. Len(readers'[r].left) : u = readers'[r].left[i]
    BY <2>1, LenProperties DEF Range, Reader
  <2>3. r \in heap /\ \E j \in 1 .. Len(readers[r].left) : (r # p \/ j # 1) /\ u = readers[r].left[j]
    <3>1. CASE r = p
      <4>1. PICK n \in Nat : n + 1 = Len(readers[p].left) /\ n = Len(readers'[p].left)
        BY <3>1 DEF Pulled, Holds
      <4>2. i + 1 \in 1 .. n + 1 /\ i + 1 # 1
        BY <2>2, <3>1, <4>1
      <4>3. u = readers[p].left[i + 1]
        BY <2>2, <3>1 DEF Pulled
      <4> QED
        BY <1>1, <3>1, <4>1, <4>2, <4>3 DEF TopIs
    <3>2. CASE r # p
      <4>1. readers'[r] = readers[r]
        BY <2>1, <3>2 DEF Pulled
      <4>2. r \in heap
        BY <2>1, <4>1 DEF Pulled, StreamTyped
      <4> QED
        BY <2>2, <3>2, <4>1, <4>2
    <3> QED
      BY <3>1, <3>2
  <2>4. PICK j \in 1 .. Len(readers[r].left) : (r # p \/ j # 1) /\ u = readers[r].left[j]
    BY <2>3
  <2>5. CASE e = t
    <3>1. /\ t \in Tick /\ u \in Tick
          /\ \/ SortsBefore(t, u)
             \/ ~SortsBefore(u, t) /\ (r = p \/ readers[p].source < readers[r].source)
      BY <1>1, <1>2, <1>3, <2>3, <2>4, PulledIsFirst
    <3>2. t.at \in Nat /\ t.sym \in Nat /\ u.at \in Nat /\ u.sym \in Nat
      BY <3>1 DEF Tick
    <3>3. SortsBefore(t, u) => ~SortsBefore(u, t)
      BY <3>2 DEF SortsBefore
    <3> QED
      BY <2>5, <3>1, <3>3
  <2>6. CASE e \in Range(emitted)
    <3>1. u \in Range(readers[r].left)
      BY <2>3, <2>4, HeapHolds, LenProperties DEF Holds, Range
    <3> QED
      BY <1>1, <2>3, <2>6, <3>1 DEF NoneBehind
  <2> QED
    BY <1>5, <2>5, <2>6
<1> QED
  BY <1>4, <1>6

\* Over clean files that agree, what is handed out rises.
LEMMA StreamRises == StreamSpec => []RisesIfClean
<1>1. StreamInit => RisesIfClean
  <2> SUFFICES ASSUME StreamInit PROVE RisesIfClean
    OBVIOUS
  <2>1. Len(emitted) = 0 /\ Range(emitted) = {}
    BY EmptySeq DEF StreamInit, Range
  <2> QED
    BY <2>1 DEF RisesIfClean, NoneBehind, Rising
<1>2. StreamTyped /\ NothingLost /\ DaysInTurn /\ RisesIfClean /\ [StreamNext]_streamVars => RisesIfClean'
  <2> SUFFICES ASSUME StreamTyped, NothingLost, DaysInTurn, RisesIfClean, [StreamNext]_streamVars
               PROVE  RisesIfClean'
    OBVIOUS
  <2>1. CASE LoadNextGroup
    BY <2>1, LoadStep, LoadKeepsRising
  <2>2. CASE NextTick
    BY <2>2, PullStep, PullKeepsRising
  <2>3. CASE UNCHANGED streamVars
    BY <2>3, FrozenFiles DEF streamVars, RisesIfClean, NoneBehind, Rising
  <2> QED
    BY <2>1, <2>2, <2>3 DEF StreamNext
<1> QED
  BY <1>1, <1>2, StreamIsTyped, NothingIsLost, DaysGoInTurn, PTL DEF StreamSpec

\* EveryTickOnce: however many files of however many days overlap, the stream
\* (BacktestDirectoryTickStream, platform.cpp 3790-3890) loses no tick of any of
\* them, and over files that agree where they overlap it hands out none twice.
THEOREM TicksComeOnce == StreamSpec => []EveryTickOnce
<1>1. StreamTyped /\ NothingLost /\ RisesIfClean => EveryTickOnce
  <2> SUFFICES ASSUME StreamTyped, NothingLost, RisesIfClean PROVE EveryTickOnce
    OBVIOUS
  <2>1. ASSUME Clean PROVE IsInjective(emitted)
    <3>1. Rising
      BY <2>1 DEF RisesIfClean
    <3>2. PICK n \in Nat : n = Len(emitted) /\ DOMAIN emitted = 1 .. n
      BY EmittedTyped
    <3>3. \A i \in 1 .. n : emitted[i].at \in Nat /\ emitted[i].sym \in Nat
      BY <3>2, EmittedTyped DEF Tick
    <3>4. ASSUME NEW i \in 1 .. n, NEW j \in 1 .. n, i < j PROVE emitted[i] # emitted[j]
      <4>1. Precedes(emitted[i], emitted[j])
        BY <3>1, <3>2, <3>4 DEF Rising
      <4> QED
        BY <3>3, <4>1 DEF Precedes, SortsBefore
    <3> QED
      BY <3>2, <3>4 DEF IsInjective
  <2> QED
    BY <2>1 DEF EveryTickOnce, Clean, NothingLost
<1> QED
  BY <1>1, StreamIsTyped, NothingIsLost, StreamRises, PTL

-----------------------------------------------------------------------------
(* The merge follows the sort.                                              *)

\* What a recorder's files are like: sorted, and days follow time.
Recorder == FilesAreSorted /\ DaysFollowTime

\* The rows that open readers hold and unopened files will bring.
Unopened(k) == \E j \in nextSource .. Len(listing) : k = Sources[j]
Unread(r, row) ==
    /\ row[1] = readers[r].source
    /\ row[2] > Len(Ticks(listing[row[1]])) - Len(readers[r].left)
ToCome == {row \in Rows : Unopened(row[1]) \/ \E r \in 1 .. Len(readers) : Unread(r, row)}
HandedOut == Rows \ ToCome

\* What was handed out is the beginning of everything in order, thinned out.
ThinnedSoFar(D) ==
    /\ Thins(D, sort_ticks_chronologically, Cardinality(Rows))
    /\ load_backtest_ticks = D[Cardinality(Rows)]
    /\ emitted = D[Cardinality(HandedOut)]

MergesInOrder ==
    Recorder => /\ \A p \in HandedOut, q \in ToCome : <<p, q>> \in RowsBefore
                /\ \E D : ThinnedSoFar(D)

\* Opening a day hands nothing out.
LEMMA LoadKeepsRows ==
    ASSUME StreamTyped, NEW m \in Nat, GroupIs(m), Loaded(m)
    PROVE  ToCome' = ToCome
<1>1. PICK n \in Nat : n = Len(listing)
  BY ListingTyped DEF StreamTyped
<1>2. PICK s \in 1 .. n : s = nextSource
  BY <1>1 DEF Loaded
<1>3. m \in 1 .. n - s + 1
  BY <1>1, <1>2 DEF GroupIs
<1>4. listing' = listing /\ nextSource' = s + m /\ Len(readers') = m /\ heap = {}
  BY <1>2 DEF Loaded
<1>5. Sources' = Sources /\ Rows' = Rows
  BY <1>4, FrozenFiles DEF Sources, PlannedBefore
<1>6. ASSUME NEW row \in Rows PROVE row \in ToCome' <=> row \in ToCome
  <2>0. row[1] \in 1 .. n
    BY <1>1, RowsTyped DEF StreamTyped
  <2>1. PICK k \in 1 .. n : k = row[1]
    BY <2>0
  <2>2. PICK len \in Nat : len = Len(Ticks(listing[k]))
    BY <1>1, ListingTyped, LenProperties DEF StreamTyped
  <2>3. row[2] \in 1 .. len
    BY <2>1, <2>2, RowsTyped DEF StreamTyped
  <2>4. \A r \in 1 .. Len(readers) : ~Unread(r, row)
    <3> SUFFICES ASSUME NEW r \in 1 .. Len(readers), Unread(r, row) PROVE FALSE
      OBVIOUS
    <3>1. readers[r].left = <<>>
      BY <1>4 DEF StreamTyped
    <3>2. Len(readers[r].left) = 0
      BY <3>1, EmptySeq
    <3> QED
      BY <2>1, <2>2, <2>3, <3>2 DEF Unread
  <2>5. row \in ToCome <=> \E j \in s .. n : k = Sources[j]
    BY <1>1, <1>2, <2>1, <2>4 DEF ToCome, Unopened
  <2>6. ASSUME NEW r \in 1 .. m PROVE Unread(r, row)' <=> k = Sources[s + r - 1]
    <3>1. readers'[r].source = Sources[s + r - 1] /\ readers'[r].left = Ticks(Planned(s + r - 1))
      BY <1>2 DEF Loaded
    <3>2. k = Sources[s + r - 1] => Len(readers'[r].left) = len
      BY <2>2, <3>1 DEF Planned
    <3>3. Unread(r, row)' <=> (k = readers'[r].source /\ row[2] > len - Len(readers'[r].left))
      BY <1>4, <2>1, <2>2 DEF Unread
    <3> QED
      BY <2>3, <3>1, <3>2, <3>3
  <2>7. row \in ToCome' <=> \/ \E j \in s + m .. n : k = Sources[j]
                            \/ \E r \in 1 .. m : k = Sources[s + r - 1]
    <3>1. row \in ToCome' <=> \/ \E j \in nextSource' .. Len(listing') : row[1] = Sources'[j]
                              \/ \E r \in 1 .. Len(readers') : Unread(r, row)'
      BY <1>5 DEF ToCome, Unopened
    <3> QED
      BY <1>1, <1>4, <1>5, <2>1, <2>6, <3>1
  <2>8. \A r \in 1 .. m : s + r - 1 \in s .. n
    BY <1>3
  <2>9. \A j \in s .. n : j \in s + m .. n \/ (j - s + 1 \in 1 .. m /\ s + (j - s + 1) - 1 = j)
    BY <1>3
  <2>10. \A j \in s + m .. n : j \in s .. n
    BY <1>3
  <2>11. ASSUME NEW j \in s .. n, k = Sources[j]
         PROVE  \/ \E i \in s + m .. n : k = Sources[i]
                \/ \E r \in 1 .. m : k = Sources[s + r - 1]
    BY <2>9, <2>11
  <2> QED
    BY <2>5, <2>7, <2>8, <2>10, <2>11
<1> QED
  BY <1>5, <1>6 DEF ToCome

\* The row of the tick that the reader p hands out.
PulledRow(p, row) ==
    /\ row \in Rows /\ row \in ToCome /\ Unread(p, row) /\ ~Unopened(row[1])
    /\ row = <<readers[p].source,
               Len(Ticks(listing[readers[p].source])) - Len(readers[p].left) + 1>>
    /\ RowTick(row) = Current(p)

\* What a reader hands out is a row that was still to come.
LEMMA PulledRowExists ==
    ASSUME StreamTyped, NEW p, TopIs(p)
    PROVE  \E row : PulledRow(p, row)
<1>1. Holds(p)
  BY HeapHolds DEF TopIs
<1>2. PICK k \in 1 .. Len(listing) : k = readers[p].source
  BY <1>1, OpenFile DEF Holds
<1>3. PICK all \in Seq(TicksOf(listing[k].day)) : all = Ticks(listing[k]) /\ EndOf(readers[p].left, all)
  BY <1>1, <1>2, OpenFile DEF Holds
<1>4. PICK n \in Nat \ {0}, len \in Nat : n = Len(readers[p].left) /\ len = Len(all)
  BY <1>1, LenProperties DEF Holds
<1>5. n <= len /\ len - n + 1 \in 1 .. len /\ len - n + 1 > len - n
  <2>1. n <= len
    BY <1>3, <1>4 DEF EndOf
  <2>2. len - n + 1 \in 1 .. len /\ len - n + 1 > len - n
    BY <2>1
  <2> QED
    BY <2>1, <2>2
<1>6. readers[p].left[1] = all[len - n + 1]
  <2>1. 1 \in 1 .. n
    OBVIOUS
  <2> QED
    BY <1>3, <1>4, <2>1 DEF EndOf
<1>7. PICK row : row = <<k, len - n + 1>>
  OBVIOUS
<1>8. row \in Rows
  BY <1>3, <1>4, <1>5, <1>7, RowsTyped DEF StreamTyped
<1>9. Unread(p, row)
  BY <1>2, <1>3, <1>4, <1>5, <1>7 DEF Unread
<1>10. RowTick(row) = Current(p)
  BY <1>1, <1>3, <1>6, <1>7 DEF RowTick, Holds
<1>11. ~Unopened(k)
  <2> SUFFICES ASSUME NEW j \in nextSource .. Len(listing), k = Sources[j] PROVE FALSE
    BY DEF Unopened
  <2>0. Len(readers) \in Nat /\ Len(listing) \in Nat /\ nextSource \in Nat
    BY ListingTyped, LenProperties DEF StreamTyped
  <2>1. PICK w \in Nat, s \in Nat, m \in Nat : w = Len(readers) /\ s = nextSource /\ m = Len(listing)
    BY <2>0
  <2>2. w - p \in 0 .. s - 2 /\ k = Sources[s - 1 - (w - p)] /\ s \in 1 .. m + 1 /\ p \in 1 .. w
    BY <1>1, <1>2, <2>1 DEF StreamTyped, IsOpen, Holds
  <2>3. s - 1 - (w - p) \in 1 .. m /\ s - 1 - (w - p) # j /\ j \in 1 .. m
    BY <2>1, <2>2
  <2> QED
    BY <2>1, <2>2, <2>3, PlanIsInjective DEF StreamTyped
<1>12. row \in ToCome
  BY <1>1, <1>8, <1>9 DEF ToCome, Holds
<1> QED
  BY <1>2, <1>3, <1>4, <1>7, <1>8, <1>9, <1>10, <1>11, <1>12 DEF PulledRow

\* Pulling a tick moves its row, and no other one.
LEMMA PullMovesRow ==
    ASSUME StreamTyped, NEW p, Pulled(p), NEW moved, PulledRow(p, moved)
    PROVE  /\ ToCome' = ToCome \ {moved}
           /\ HandedOut' = HandedOut \cup {moved}
<1>1. /\ listing' = listing /\ nextSource' = nextSource /\ Len(readers') = Len(readers)
      /\ \A r \in 1 .. Len(readers) : r # p => readers'[r] = readers[r]
      /\ readers'[p].source = readers[p].source
      /\ Len(readers'[p].left) = Len(readers[p].left) - 1
      /\ p \in 1 .. Len(readers)
  BY DEF Pulled, Holds
<1>2. Rows' = Rows /\ Sources' = Sources
  BY <1>1, FrozenFiles DEF Sources, PlannedBefore
<1>3. ASSUME NEW row \in Rows PROVE row \in ToCome' <=> (row \in ToCome /\ row # moved)
  <2>1. Unopened(row[1])' <=> Unopened(row[1])
    BY <1>1, <1>2 DEF Unopened
  <2>2. \A r \in 1 .. Len(readers) : r # p => (Unread(r, row)' <=> Unread(r, row))
    BY <1>1 DEF Unread
  <2>3. PICK len \in Nat, n \in Nat \ {0} :
           len = Len(Ticks(listing[readers[p].source])) /\ n = Len(readers[p].left)
    BY <1>1, OpenFile, LenProperties DEF Pulled, Holds
  <2>4. moved[1] = readers[p].source /\ moved[2] = len - n + 1 /\ moved = <<moved[1], moved[2]>>
    BY <2>3 DEF PulledRow
  <2>5. row = <<row[1], row[2]>> /\ row[2] \in Nat
    <3>1. /\ row = <<row[1], row[2]>> /\ row[1] \in 1 .. Len(listing)
          /\ row[2] \in 1 .. Len(Ticks(listing[row[1]]))
      BY RowsTyped DEF StreamTyped
    <3>2. Len(Ticks(listing[row[1]])) \in Nat
      BY <3>1, ListingTyped, LenProperties DEF StreamTyped
    <3> QED
      BY <3>1, <3>2
  <2>6. Unread(p, row) <=> (row[1] = readers[p].source /\ row[2] > len - n)
    BY <2>3 DEF Unread
  <2>7. Unread(p, row)' <=> (row[1] = readers[p].source /\ row[2] > len - (n - 1))
    BY <1>1, <2>3 DEF Unread
  <2>8. row[2] > len - (n - 1) <=> (row[2] > len - n /\ row[2] # len - n + 1)
    BY <2>5
  <2>9. Unread(p, row)' <=> (Unread(p, row) /\ row # moved)
    BY <2>4, <2>5, <2>6, <2>7, <2>8
  <2>10. row = moved => ~Unopened(row[1]) /\ \A r \in 1 .. Len(readers) : r # p => ~Unread(r, row)
    <3> SUFFICES ASSUME row = moved, NEW r \in 1 .. Len(readers), r # p, Unread(r, row) PROVE FALSE
      BY DEF PulledRow
    <3>1. readers[r].source # readers[p].source
      BY <1>1, SourcesDiffer DEF SourcesAreOpen
    <3> QED
      BY <2>4, <3>1 DEF Unread
  <2>11. row \in ToCome <=> Unopened(row[1]) \/ \E r \in 1 .. Len(readers) : Unread(r, row)
    BY DEF ToCome
  <2>12. row \in ToCome' <=> Unopened(row[1])' \/ \E r \in 1 .. Len(readers) : Unread(r, row)'
    BY <1>1, <1>2 DEF ToCome
  <2> QED
    BY <1>1, <2>1, <2>2, <2>9, <2>10, <2>11, <2>12
<1>4. ToCome' = ToCome \ {moved}
  BY <1>2, <1>3 DEF ToCome
<1> QED
  BY <1>2, <1>4 DEF HandedOut, PulledRow

\* A row holds a recorded tick.
LEMMA RowsAreRecorded ==
    ASSUME NEW row \in Rows
    PROVE  RowTick(row) \in Recorded
  BY DEF Recorded

\* Of the rows still to come, none sorts before the one pulled.
LEMMA PulledRowIsFirst ==
    ASSUME StreamTyped, DaysInTurn, Recorder, NEW p, TopIs(p), NEW moved, PulledRow(p, moved),
           NEW row \in ToCome, row # moved
    PROVE  <<moved, row>> \in RowsBefore
<1>1. Holds(p)
  BY HeapHolds DEF TopIs
<1>2. PICK t \in Tick : t = RowTick(moved) /\ t = Current(p)
  BY <1>1 DEF Holds, PulledRow
<1>3. row \in Rows /\ moved \in Rows
  BY DEF ToCome, PulledRow
<1>4. PICK k \in 1 .. Len(listing) : k = row[1]
  BY <1>3, RowsTyped DEF StreamTyped
<1>5. PICK all \in Seq(TicksOf(listing[k].day)), len \in Nat : all = Ticks(listing[k]) /\ len = Len(all)
  BY ListingTyped, LenProperties DEF StreamTyped
<1>6. row[2] \in 1 .. len /\ row = <<k, row[2]>>
  BY <1>3, <1>4, <1>5, RowsTyped DEF StreamTyped
<1>7. PICK i \in 1 .. len : i = row[2]
  BY <1>6
<1>8. PICK u \in TicksOf(listing[k].day) : u = RowTick(row) /\ u = all[i]
  BY <1>4, <1>5, <1>7, ElementOfSeq DEF RowTick
<1>9. /\ t.day \in Nat /\ t.at \in Nat /\ t.sym \in Nat
      /\ u \in Tick /\ u.day = listing[k].day /\ u.day \in Nat /\ u.at \in Nat /\ u.sym \in Nat
  BY <1>2, <1>8 DEF TicksOf, Tick
<1>10. <<moved, row>> \in RowsBefore <=>
          \/ SortsBefore(t, u)
          \/ ~SortsBefore(u, t) /\ StoredBefore(moved, row)
  BY <1>2, <1>3, <1>8 DEF RowsBefore
<1>11. CASE Unopened(k)
  <2>1. PICK j \in nextSource .. Len(listing) : k = Sources[j]
    BY <1>11 DEF Unopened
  <2>2. t.day = Planned(nextSource - 1).day /\ nextSource > 1
    <3>1. p \in 1 .. Len(readers)
      BY <1>1 DEF Holds
    <3>2. PICK left \in Seq(TicksOf(listing[readers[p].source].day)) : left = readers[p].left
      BY <3>1, OpenFile
    <3>3. t = left[1] /\ 1 \in 1 .. Len(left)
      BY <1>1, <1>2, <3>2 DEF Holds
    <3>4. t.day = listing[readers[p].source].day
      BY <3>2, <3>3, ElementOfSeq DEF TicksOf
    <3>5. Len(readers) \in Nat /\ nextSource \in Nat
      BY ListingTyped, LenProperties DEF StreamTyped
    <3>6. Len(readers) - p \in 0 .. nextSource - 2
      BY <3>1 DEF StreamTyped, IsOpen
    <3> QED
      BY <3>1, <3>4, <3>5, <3>6 DEF DaysInTurn
  <2>3. u.day > t.day
    BY <1>9, <2>1, <2>2 DEF DaysInTurn, Planned
  <2>4. t \in Recorded /\ u \in Recorded
    BY <1>2, <1>3, <1>8, RowsAreRecorded
  <2>5. t.at < u.at
    BY <1>9, <2>3, <2>4 DEF Recorder, DaysFollowTime
  <2> QED
    BY <1>10, <2>5 DEF SortsBefore
<1>12. ASSUME NEW r \in 1 .. Len(readers), Unread(r, row)
       PROVE  <<moved, row>> \in RowsBefore
  <2>1. k = readers[r].source /\ i > len - Len(readers[r].left)
    BY <1>4, <1>5, <1>7, <1>12 DEF Unread
  <2>2. EndOf(readers[r].left, all) /\ readers[r].left \in Seq(Tick)
    <3>1. readers[r] \in Reader
      BY ElementOfSeq DEF StreamTyped
    <3>2. EndOf(readers[r].left, all)
      BY <1>5, <2>1, OpenFile
    <3> QED
      BY <3>1, <3>2 DEF Reader
  <2>3. PICK n \in Nat : n = Len(readers[r].left)
    BY <2>2, LenProperties
  <2>4. n <= len /\ i > len - n
    BY <1>5, <2>1, <2>2, <2>3 DEF EndOf
  <2>5. PICK j \in 1 .. n : j = i - (len - n) /\ i = len - n + j
    <3>1. i - (len - n) \in 1 .. n /\ i = len - n + (i - (len - n))
      BY <2>4
    <3> QED
      BY <3>1
  <2>6. u = readers[r].left[j]
    BY <1>5, <1>8, <2>2, <2>3, <2>5 DEF EndOf
  <2>7. r \in heap
    <3>1. readers[r].left # <<>>
      BY <2>3, <2>5, EmptySeq
    <3> QED
      BY <3>1 DEF StreamTyped
  <2>8. r # p \/ j # 1
    <3> SUFFICES ASSUME r = p, j = 1 PROVE FALSE
      OBVIOUS
    <3>1. moved = <<k, len - n + 1>>
      BY <1>5, <2>1, <2>3 DEF PulledRow
    <3> QED
      BY <1>6, <1>7, <2>5, <3>1
  <2>9. \/ SortsBefore(t, u)
        \/ ~SortsBefore(u, t) /\ (r = p \/ readers[p].source < readers[r].source)
    BY <1>2, <2>3, <2>6, <2>7, <2>8, PulledIsFirst DEF Recorder
  <2>10. ASSUME r = p \/ readers[p].source < readers[r].source
         PROVE  StoredBefore(moved, row)
    <3>1. CASE readers[p].source < readers[r].source
      <4>1. moved[1] < row[1]
        BY <1>4, <2>1, <3>1 DEF PulledRow
      <4> QED
        BY <4>1 DEF StoredBefore
    <3>2. CASE r = p
      <4>1. moved = <<k, len - n + 1>>
        BY <1>5, <2>1, <2>3, <3>2 DEF PulledRow
      <4>2. moved[1] = row[1] /\ moved[2] = len - n + 1 /\ row[2] = len - n + j
        BY <1>4, <1>7, <2>5, <4>1
      <4>3. j > 1
        BY <2>8, <3>2
      <4>4. moved[2] < row[2]
        BY <2>4, <4>2, <4>3
      <4> QED
        BY <4>2, <4>4 DEF StoredBefore
    <3> QED
      BY <2>10, <3>1, <3>2
  <2> QED
    BY <1>10, <2>9, <2>10
<1> QED
  BY <1>4, <1>11, <1>12 DEF ToCome

\* The place of the row pulled: as many rows were handed out as sort before it.
LEMMA PulledRowIsNext ==
    ASSUME StreamTyped, DaysInTurn, Recorder, \A q \in HandedOut, r \in ToCome : <<q, r>> \in RowsBefore,
           NEW p, TopIs(p), NEW moved, PulledRow(p, moved)
    PROVE  Rank(Rows, RowsBefore, moved) = Cardinality(HandedOut)
<1>1. StrictOrder(Rows, RowsBefore)
  BY RowsAreOrdered DEF StreamTyped
<1>2. moved \in Rows /\ moved \in ToCome
  BY DEF PulledRow
<1>3. ASSUME NEW q \in Rows PROVE <<q, moved>> \in RowsBefore <=> q \in HandedOut
  <2>1. CASE q \in HandedOut
    BY <1>2, <2>1
  <2>2. CASE q \notin HandedOut
    <3>1. q \in ToCome
      BY <2>2 DEF HandedOut
    <3>2. CASE q = moved
      BY <1>1, <1>2, <2>2, <3>2 DEF StrictOrder
    <3>3. CASE q # moved
      <4>1. <<moved, q>> \in RowsBefore
        BY <3>1, <3>3, PulledRowIsFirst
      <4> QED
        BY <1>1, <1>2, <2>2, <4>1 DEF StrictOrder
    <3> QED
      BY <3>2, <3>3
  <2> QED
    BY <2>1, <2>2
<1>4. Earlier(Rows, RowsBefore, moved) = HandedOut
  BY <1>3 DEF Earlier, HandedOut
<1> QED
  BY <1>4 DEF Rank

\* Everything sorted, place by place.
SortedBy(sorted, place, n) ==
    /\ n = Cardinality(Rows) /\ n \in Nat
    /\ DOMAIN sorted = 1 .. n
    /\ PutsInOrder(place, Rows, RowsBefore)
    /\ \A m \in 1 .. n : sorted[m] = RowTick(place[m]) /\ sorted[m] \in Tick

\* Loading sorts the ticks of all rows.
LEMMA SortingIs ==
    ASSUME listing \in Listings
    PROVE  \E place : SortedBy(sort_ticks_chronologically, place, Cardinality(Rows))
<1>1. IsFiniteSet(Rows) /\ StrictOrder(Rows, RowsBefore)
  BY RowsAreFinite, RowsAreOrdered
<1>2. PICK n \in Nat : n = Cardinality(Rows)
  BY <1>1, FS_CardinalityType
<1>3. PICK place : place = InOrder(Rows, RowsBefore)
  OBVIOUS
<1>4. PutsInOrder(place, Rows, RowsBefore)
  BY <1>1, <1>3, SortingWorks
<1>5. DOMAIN place = 1 .. n /\ \A m \in 1 .. n : place[m] \in Rows
  BY <1>2, <1>4 DEF PutsInOrder
<1>6. PICK sorted : sorted = sort_ticks_chronologically /\ sorted = [m \in 1 .. n |-> RowTick(place[m])]
  BY <1>3, <1>5 DEF sort_ticks_chronologically
<1>7. \A m \in 1 .. n : sorted[m] = RowTick(place[m]) /\ sorted[m] \in Tick
  BY <1>5, <1>6, RowsTyped
<1> QED
  BY <1>2, <1>4, <1>6, <1>7 DEF SortedBy

\* The rows handed out can be counted.
LEMMA HandedOutIsFinite ==
    ASSUME listing \in Listings
    PROVE  /\ IsFiniteSet(HandedOut) /\ Cardinality(HandedOut) \in 0 .. Cardinality(Rows)
           /\ Cardinality(Rows) \in Nat
<1>1. IsFiniteSet(Rows) /\ HandedOut \in SUBSET Rows
  BY RowsAreFinite DEF HandedOut
<1>2. IsFiniteSet(HandedOut) /\ Cardinality(HandedOut) <= Cardinality(Rows)
  BY <1>1, FS_Subset
<1> QED
  BY <1>1, <1>2, FS_CardinalityType

\* The tick pulled is the next one of everything sorted.
LEMMA PullKeepsMerge ==
    ASSUME StreamTyped, DaysInTurn, MergesInOrder, NEW p, Pulled(p)
    PROVE  MergesInOrder'
<1>1. listing' = listing /\ TopIs(p) /\ listing \in Listings
  BY DEF Pulled, StreamTyped
<1> SUFFICES ASSUME Recorder
             PROVE  /\ \A q \in HandedOut', r \in ToCome' : <<q, r>> \in RowsBefore
                    /\ (\E D : ThinnedSoFar(D))'
  BY <1>1, FrozenFiles DEF MergesInOrder, Recorder
<1>2. PICK moved : PulledRow(p, moved)
  BY <1>1, PulledRowExists
<1>3. ToCome' = ToCome \ {moved} /\ HandedOut' = HandedOut \cup {moved} /\ moved \in ToCome
  BY <1>2, PullMovesRow DEF PulledRow
<1>4. \A q \in HandedOut, r \in ToCome : <<q, r>> \in RowsBefore
  BY DEF MergesInOrder
<1>5. \A r \in ToCome' : <<moved, r>> \in RowsBefore
  BY <1>1, <1>2, <1>3, PulledRowIsFirst
<1>6. \A q \in HandedOut', r \in ToCome' : <<q, r>> \in RowsBefore
  BY <1>3, <1>4, <1>5
<1>7. PICK D : ThinnedSoFar(D)
  BY DEF MergesInOrder
<1>8. PICK place, sorted : SortedBy(sorted, place, Cardinality(Rows)) /\ sorted = sort_ticks_chronologically
  BY <1>1, SortingIs
<1>9. PICK n \in Nat, c \in Nat : n = Cardinality(Rows) /\ c = Cardinality(HandedOut)
  BY <1>1, HandedOutIsFinite
<1>10. c + 1 \in 1 .. n /\ place[c + 1] = moved
  <2>1. Rank(Rows, RowsBefore, moved) = c
    BY <1>1, <1>2, <1>4, <1>9, PulledRowIsNext
  <2>2. PutsInOrder(place, Rows, RowsBefore) /\ moved \in Rows
    BY <1>2, <1>8 DEF SortedBy, PulledRow
  <2> QED
    BY <1>9, <2>1, <2>2 DEF PutsInOrder
<1>11. sorted[c + 1] = Current(p)
  BY <1>2, <1>8, <1>9, <1>10 DEF SortedBy, PulledRow
<1>12. D[c + 1] = KeepNew(D[c], sorted[c + 1])
  <2>1. (c + 1) - 1 = c
    OBVIOUS
  <2> QED
    BY <1>7, <1>8, <1>9, <1>10, <2>1 DEF ThinnedSoFar, Thins
<1>13. emitted' = D[c + 1]
  BY <1>7, <1>9, <1>11, <1>12 DEF ThinnedSoFar, Pulled
<1>14. Cardinality(HandedOut') = c + 1
  <2>1. moved \notin HandedOut /\ IsFiniteSet(HandedOut)
    BY <1>1, <1>3, HandedOutIsFinite DEF HandedOut
  <2> QED
    BY <1>3, <1>9, <2>1, FS_AddElement
<1>15. ThinnedSoFar(D)'
  <2>1. /\ Rows' = Rows /\ sort_ticks_chronologically' = sort_ticks_chronologically
        /\ load_backtest_ticks' = load_backtest_ticks
    BY <1>1, FrozenFiles
  <2>2. Thins(D, sort_ticks_chronologically, Cardinality(Rows)) /\ load_backtest_ticks = D[Cardinality(Rows)]
    BY <1>7 DEF ThinnedSoFar
  <2> QED
    BY <1>13, <1>14, <2>1, <2>2 DEF ThinnedSoFar
<1> QED
  BY <1>6, <1>15

\* The merge of open files follows the order of everything sorted.
LEMMA MergeIsInOrder == StreamSpec => []MergesInOrder
<1>1. StreamInit => MergesInOrder
  <2> SUFFICES ASSUME StreamInit PROVE MergesInOrder
    OBVIOUS
  <2>1. listing \in Listings /\ nextSource = 1 /\ emitted = <<>>
    BY DEF StreamInit
  <2>2. PICK n \in Nat : n = Len(listing)
    BY <2>1, ListingTyped
  <2>3. ASSUME NEW row \in Rows PROVE row \in ToCome
    <3>1. row[1] \in 1 .. n
      BY <2>1, <2>2, RowsTyped
    <3>2. PICK k \in 1 .. n : k = row[1]
      BY <3>1
    <3>3. PICK j \in 1 .. n : k = Sources[j]
      BY <2>1, <2>2, PlanHolds DEF IsPlan
    <3> QED
      BY <2>1, <2>2, <3>2, <3>3 DEF ToCome, Unopened
  <2>4. HandedOut = {}
    BY <2>3 DEF HandedOut
  <2>5. Cardinality(HandedOut) = 0
    BY <2>4, FS_EmptySet
  <2>6. PICK place, sorted : SortedBy(sorted, place, Cardinality(Rows)) /\ sorted = sort_ticks_chronologically
    BY <2>1, SortingIs
  <2>7. PICK D : Thins(D, sorted, Cardinality(Rows)) /\ dedupe_ticks(sorted) = D[Cardinality(Rows)]
    BY <2>6, DedupeThins DEF SortedBy
  <2>8. ThinnedSoFar(D)
    BY <2>1, <2>5, <2>6, <2>7 DEF ThinnedSoFar, Thins, load_backtest_ticks
  <2> QED
    BY <2>4, <2>8 DEF MergesInOrder
<1>2. StreamTyped /\ DaysInTurn /\ MergesInOrder /\ [StreamNext]_streamVars => MergesInOrder'
  <2> SUFFICES ASSUME StreamTyped, DaysInTurn, MergesInOrder, [StreamNext]_streamVars PROVE MergesInOrder'
    OBVIOUS
  <2>0. listing' = listing
    BY DEF StreamNext, LoadNextGroup, NextTick, streamVars
  <2>1. ASSUME ToCome' = ToCome, emitted' = emitted PROVE MergesInOrder'
    <3>1. HandedOut' = HandedOut
      BY <2>0, <2>1, FrozenFiles DEF HandedOut
    <3>2. \A D : ThinnedSoFar(D)' <=> ThinnedSoFar(D)
      BY <2>0, <2>1, <3>1, FrozenFiles DEF ThinnedSoFar
    <3>3. (Recorder' <=> Recorder) /\ RowsBefore' = RowsBefore
      BY <2>0, FrozenFiles DEF Recorder
    <3> QED
      BY <2>1, <3>1, <3>2, <3>3 DEF MergesInOrder
  <2>2. CASE LoadNextGroup
    <3>1. PICK m \in Nat : GroupIs(m) /\ Loaded(m)
      BY <2>2, LoadStep
    <3> QED
      BY <2>1, <3>1, LoadKeepsRows DEF Loaded
  <2>3. CASE NextTick
    BY <2>3, PullStep, PullKeepsMerge
  <2>4. CASE UNCHANGED streamVars
    <3>1. ToCome' = ToCome
      BY <2>4, FrozenFiles DEF streamVars, ToCome, Unopened, Unread, Sources, PlannedBefore
    <3> QED
      BY <2>1, <2>4, <3>1 DEF streamVars
  <2> QED
    BY <2>2, <2>3, <2>4 DEF StreamNext
<1> QED
  BY <1>1, <1>2, StreamIsTyped, DaysGoInTurn, PTL DEF StreamSpec

\* LoadersAgree: over files a recorder writes, what the engine streams is at any
\* moment the beginning of what the chart loads, sorts and frees of repetitions
\* (load_backtest_ticks, platform.cpp 3363-3433), and in the end the whole of it.
THEOREM StreamAndLoaderAgree == StreamSpec => []LoadersAgree
<1>1. StreamTyped /\ MergesInOrder => LoadersAgree
  <2> SUFFICES ASSUME StreamTyped, MergesInOrder, Recorder
               PROVE  /\ IsPrefix(emitted, load_backtest_ticks)
                      /\ Exhausted => emitted = load_backtest_ticks
    BY DEF LoadersAgree, Recorder
  <2>1. PICK D : ThinnedSoFar(D)
    BY DEF MergesInOrder
  <2>2. PICK place, sorted : SortedBy(sorted, place, Cardinality(Rows)) /\ sorted = sort_ticks_chronologically
    BY SortingIs DEF StreamTyped
  <2>0. PICK n \in Nat : n = Cardinality(Rows)
    BY HandedOutIsFinite DEF StreamTyped
  <2>3. PICK c \in 0 .. n : c = Cardinality(HandedOut) /\ n = Cardinality(Rows)
    BY <2>0, HandedOutIsFinite DEF StreamTyped
  <2>4. Thins(D, sorted, n) /\ load_backtest_ticks = D[n] /\ emitted = D[c]
    BY <2>1, <2>2, <2>3 DEF ThinnedSoFar
  <2>5. \A i \in 1 .. n : sorted[i] \in Tick
    BY <2>2, <2>3 DEF SortedBy
  <2>6. IsPrefix(emitted, load_backtest_ticks)
    BY <2>4, <2>5, ThinningExtends
  <2>7. ASSUME Exhausted PROVE emitted = load_backtest_ticks
    <3>1. ASSUME NEW row \in ToCome PROVE FALSE
      <4>1. PICK r \in 1 .. Len(readers) : Unread(r, row)
        <5>1. Len(listing) \in Nat /\ nextSource \in Nat /\ nextSource > Len(listing)
          BY <2>7, ListingTyped DEF StreamTyped, Exhausted
        <5>2. nextSource .. Len(listing) = {}
          BY <5>1
        <5> QED
          BY <3>1, <5>2 DEF ToCome, Unopened
      <4>2. readers[r].left = <<>>
        BY <2>7 DEF StreamTyped, Exhausted
      <4>3. Len(readers[r].left) = 0
        BY <4>2, EmptySeq
      <4>4. row \in Rows
        BY <3>1 DEF ToCome
      <4>5. row[2] \in 1 .. Len(Ticks(listing[row[1]])) /\ row[1] \in 1 .. Len(listing)
        BY <4>4, RowsTyped DEF StreamTyped
      <4>6. Len(Ticks(listing[row[1]])) \in Nat
        BY <4>5, ListingTyped, LenProperties DEF StreamTyped
      <4> QED
        BY <4>1, <4>3, <4>5, <4>6 DEF Unread
    <3>2. HandedOut = Rows
      BY <3>1 DEF HandedOut
    <3> QED
      BY <2>3, <2>4, <3>2
  <2> QED
    BY <2>6, <2>7
<1> QED
  BY <1>1, StreamIsTyped, MergeIsInOrder, PTL
=============================================================================
