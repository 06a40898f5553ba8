----------------------------- MODULE ReplayJobs -----------------------------
(* The replay jobs of the control center (src/src/ui_api_server.cpp): a      *)
(* request starts a job and its worker thread, another one asks it to stop,  *)
(* and the dashboard polls.  Only the newest job can be found again, so a    *)
(* job that is replaced while it runs can neither be polled nor cancelled.   *)
EXTENDS Naturals, Sequences

CONSTANTS
    Cancellers,     \* request threads of /api/backtest-run-cancel
    MaxJobs         \* bound: jobs started in one life of the server

ASSUME ReplayJobsAssumption == MaxJobs \in Nat \ {0}

VARIABLES
    jobs,           \* every BacktestReplayJob, in order of its number
    current,        \* g_backtest_job: the number of the newest job, 0 for none
    cancelling      \* what each cancel request holds between its steps

jobVars == <<jobs, current, cancelling>>

Ended == {"completed", "cancelled", "failed"}

NewJob == [status |-> "queued", cancel |-> FALSE, worker |-> "starting"]
NoRequest == [pc |-> "idle", job |-> 0]

JobsInit == jobs = <<>> /\ current = 0 /\ cancelling = [c \in Cancellers |-> NoRequest]

(* A job that waits or replays is handed back instead of starting another. *)
ReturnsTheOneThatReplays == current # 0 /\ jobs[current].status = "running"

ReturnsExisting == current # 0 /\ jobs[current].status \in {"queued", "running"}

start_backtest_replay_job ==
    /\ Len(jobs) < MaxJobs
    /\ ~ReturnsExisting
    /\ jobs' = Append(jobs, NewJob)
    /\ current' = Len(jobs) + 1
    /\ UNCHANGED cancelling

(* The worker: it says that it runs, whatever was asked meanwhile, reports   *)
(* progress, and at its end finds out under the job's lock how it ended.     *)
WorkerBegins(j) ==
    /\ jobs[j].worker = "starting"
    /\ jobs' = [jobs EXCEPT ![j].worker = "replaying", ![j].status = "running"]
    /\ UNCHANGED <<current, cancelling>>

on_progress(j) ==
    /\ jobs[j].worker = "replaying"
    /\ jobs[j].status # "cancelled"
    /\ jobs' = [jobs EXCEPT ![j].status = IF jobs[j].cancel THEN "cancelling" ELSE "running"]
    /\ UNCHANGED <<current, cancelling>>

WorkerEnds(j) ==
    /\ jobs[j].worker = "replaying"
    /\ \E outcome \in {"completed", "failed"} :
        jobs' = [jobs EXCEPT ![j].worker = "over",
                             ![j].status = IF jobs[j].cancel THEN "cancelled" ELSE outcome]
    /\ UNCHANGED <<current, cancelling>>

(* A cancel request: the job is found under the table's lock, then flagged   *)
(* without a lock, then its status is moved under its own lock.              *)
find_backtest_job(c) ==
    /\ cancelling[c].pc = "idle"
    /\ current # 0
    /\ cancelling' = [cancelling EXCEPT ![c] = [pc |-> "found", job |-> current]]
    /\ UNCHANGED <<jobs, current>>

request_cancel(c) ==
    /\ cancelling[c].pc = "found"
    /\ jobs' = [jobs EXCEPT ![cancelling[c].job].cancel = TRUE]
    /\ cancelling' = [cancelling EXCEPT ![c].pc = "requested"]
    /\ UNCHANGED current

CancelledWhateverItsStatus(job) == [job EXCEPT !.status = "cancelling"]

Cancelled(job) ==
    IF job.status \in {"queued", "running"} THEN [job EXCEPT !.status = "cancelling"] ELSE job

cancel_backtest_replay_job(c) ==
    /\ cancelling[c].pc = "requested"
    /\ jobs' = [jobs EXCEPT ![cancelling[c].job] = Cancelled(jobs[cancelling[c].job])]
    /\ cancelling' = [cancelling EXCEPT ![c] = NoRequest]
    /\ UNCHANGED current

Worker(j) == WorkerBegins(j) \/ on_progress(j) \/ WorkerEnds(j)

JobsNext ==
    \/ start_backtest_replay_job
    \/ \E j \in 1..Len(jobs) : Worker(j)
    \/ \E c \in Cancellers :
        find_backtest_job(c) \/ request_cancel(c) \/ cancel_backtest_replay_job(c)

JobsSpec == JobsInit /\ [][JobsNext]_jobVars

----------------------------------------------------------------------------

(* A worker that nobody asked to stop works for the job the server would     *)
(* hand out: a second start, however it races a cancel and the worker's own  *)
(* reports, never leaves a replay running that no request can reach.         *)
RunningIsReachable ==
    \A j \in 1..Len(jobs) :
        jobs[j].worker # "over" /\ ~jobs[j].cancel => j = current

(* A job whose worker is gone says how it ended, so a dashboard that polls   *)
(* it stops polling: a cancel that arrives as the replay ends must not put   *)
(* the job back into a state nobody will ever move it out of.                *)
EndedJobsSaySo ==
    \A j \in 1..Len(jobs) : jobs[j].worker = "over" => jobs[j].status \in Ended

(* The dashboard loses no replay: what runs it can find, what ended says so. *)
NoJobIsLost == RunningIsReachable /\ EndedJobsSaySo
=============================================================================
