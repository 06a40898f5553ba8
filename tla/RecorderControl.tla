--------------------------- MODULE RecorderControl ---------------------------
(* The control center's hold on the market-data recorder                     *)
(* (src/src/ui_api_server.cpp): requests start and stop it, every poll may   *)
(* restart one that died, and other recorders come and go under the          *)
(* scheduled task or by hand.  One record describes the recorder the         *)
(* dashboard launched; its mutex is given up between the steps of a request. *)
EXTENDS Naturals, FiniteSets

CONSTANTS
    RecorderPids,           \* process ids; the system gives a free one to each process
    RecorderClients,        \* request threads
    ManagedTask,    \* whether a scheduled task of the recorder exists
    NoRecorderId

ASSUME RecorderAssumption == ManagedTask \in BOOLEAN /\ NoRecorderId \notin RecorderPids

VARIABLES
    procs,          \* recorder processes of the system, by who launched them
    rec,            \* g_recorder_runtime_process
    reqs,           \* start and stop requests between their steps
    off             \* history: the last word answered to a user was a stop

controlVars == <<procs, rec, reqs, off>>

RecordersAlive == {p \in RecorderPids : procs[p] # "none"}
Dashboard == {p \in RecorderPids : procs[p] \in {"user", "watchdog"}}

(* Windows gives no id away while a handle to its process is open.           *)
FreeRecorderIds == {p \in RecorderPids : procs[p] = "none" /\ ~(rec.running /\ rec.pid = p)}

NoRecorder == [pid |-> NoRecorderId, running |-> FALSE, stopping |-> FALSE, auto |-> FALSE,
               managed |-> "dashboard", restarted |-> FALSE, started |-> FALSE]
NoControl == [pc |-> "idle", pid |-> NoRecorderId]

ControlInit ==
    /\ procs = [p \in RecorderPids |-> "none"]
    /\ rec = NoRecorder
    /\ reqs = [c \in RecorderClients |-> NoControl]
    /\ off = TRUE

refresh_recorder_runtime_process(r) ==
    IF r.running /\ procs[r.pid] = "none"
    THEN [r EXCEPT !.running = FALSE, !.stopping = FALSE]
    ELSE r

(* current_recorder_runtime: the dashboard's own while it runs, else any     *)
(* process of the recorder's binary, else what the record remembers.         *)
Running(r) == r.running \/ RecordersAlive # {}
detect_external_recorder_runtime == RecordersAlive
current_recorder_runtime(r) ==
    IF r.running THEN {r.pid} ELSE detect_external_recorder_runtime

(* launch_dashboard_recorder_process: no process when the log cannot be      *)
(* opened (the record is left alone) or CreateProcess fails, else a new one. *)
Launched(r, pid, auto, restarted) ==
    [pid |-> pid, running |-> pid # NoRecorderId, stopping |-> FALSE, auto |-> auto,
     managed |-> "dashboard", restarted |-> restarted, started |-> TRUE]

launch_dashboard_recorder_process(r, auto, restarted, by) ==
    \/ rec' = r /\ UNCHANGED procs
    \/ rec' = Launched(r, NoRecorderId, auto, restarted) /\ UNCHANGED procs
    \/ \E p \in FreeRecorderIds :
        /\ rec' = Launched(r, p, auto, restarted)
        /\ procs' = [procs EXCEPT ![p] = by]

should_auto_restart_recorder(r) ==
    /\ ~r.running /\ ~r.stopping
    /\ r.auto
    /\ r.managed = "dashboard"
    /\ r.started
    /\ r.pid # NoRecorderId \/ r.restarted

(* make_recorder_runtime_json, the answer to every poll: a recorder that     *)
(* died is restarted, unless the last restart is not five seconds old, the   *)
(* configuration says no, or its paths cannot be found.                      *)
make_recorder_runtime_json ==
    LET r == refresh_recorder_runtime_process(rec) IN
    \/ rec' = r /\ UNCHANGED procs
    \/ /\ should_auto_restart_recorder(r)
       /\ launch_dashboard_recorder_process(r, TRUE, TRUE, "watchdog")

PollRecorder == make_recorder_runtime_json /\ UNCHANGED <<reqs, off>>

Answer(c) == reqs' = [reqs EXCEPT ![c] = NoControl]

(* POST /api/recorder-run: the recorder is looked for under the lock, the    *)
(* task is run without it, and the dashboard launches one of its own under   *)
(* the lock only after it looked again.                                      *)
start_recorder_runtime(c) ==
    /\ reqs[c] = NoControl
    /\ LET r == refresh_recorder_runtime_process(rec) IN
       /\ rec' = r
       /\ reqs' = IF Running(r) THEN reqs ELSE [reqs EXCEPT ![c].pc = "start"]
    /\ UNCHANGED <<procs, off>>

run_schtasks_action(c) ==
    /\ ManagedTask
    /\ reqs[c].pc = "start"
    /\ make_recorder_runtime_json
    /\ Answer(c)
    /\ off' = FALSE

LaunchAsChecked(c) ==
    /\ reqs[c].pc = "start"
    /\ LET r == refresh_recorder_runtime_process(rec) IN
       \E auto \in BOOLEAN : launch_dashboard_recorder_process(r, auto, FALSE, "user")
    /\ off' = FALSE
    /\ Answer(c)

LaunchUnlessRunning(c) ==
    /\ reqs[c].pc = "start"
    /\ LET r == refresh_recorder_runtime_process(rec) IN
       \/ /\ Running(r)
          /\ rec' = r
          /\ UNCHANGED <<procs, off>>
       \/ /\ ~Running(r)
          /\ \E auto \in BOOLEAN : launch_dashboard_recorder_process(r, auto, FALSE, "user")
          /\ off' = FALSE
    /\ Answer(c)

(* An exception of a start (no binary, no configuration, no credentials)     *)
(* forgets the process the record described, running or not.                 *)
RecorderStartFails(c) ==
    /\ reqs[c] \in {NoControl, [NoControl EXCEPT !.pc = "start"]}
    /\ rec' = [NoRecorder EXCEPT !.started = TRUE]
    /\ Answer(c)
    /\ UNCHANGED <<procs, off>>

(* POST /api/recorder-run-stop with nothing to stop.                         *)
NothingToStop(c) ==
    /\ reqs[c] = NoControl
    /\ LET r == refresh_recorder_runtime_process(rec) IN
       /\ ~Running(r)
       /\ rec' = [r EXCEPT !.running = FALSE, !.stopping = FALSE, !.auto = FALSE]
    /\ off' = TRUE
    /\ UNCHANGED <<procs, reqs>>

(* The dashboard's own recorder is asked to end.  It ends within three       *)
(* seconds, or keeps ending after the answer, or cannot even be terminated.  *)
StopAsksOnly(r) == [r EXCEPT !.stopping = TRUE]
StopAsks(r) == [r EXCEPT !.stopping = TRUE, !.auto = FALSE]

stop_recorder_runtime(c) ==
    /\ reqs[c] = NoControl
    /\ LET r == refresh_recorder_runtime_process(rec) IN
       /\ r.running
       /\ \/ /\ procs' = [procs EXCEPT ![r.pid] = "none"]
             /\ rec' = [StopAsks(r) EXCEPT !.running = FALSE, !.stopping = FALSE]
          \/ rec' = StopAsks(r) /\ UNCHANGED procs
          \/ rec' = [StopAsks(r) EXCEPT !.stopping = FALSE] /\ UNCHANGED procs
    /\ off' = TRUE
    /\ UNCHANGED reqs

(* A recorder the dashboard did not launch: the process is remembered under  *)
(* the lock and stopped without it.                                          *)
StopForeign(c) ==
    /\ reqs[c] = NoControl
    /\ LET r == refresh_recorder_runtime_process(rec) IN
       /\ ~r.running
       /\ rec' = r
       /\ \E p \in current_recorder_runtime(r) : reqs' = [reqs EXCEPT ![c] = [pc |-> "stop", pid |-> p]]
    /\ UNCHANGED <<procs, off>>

(* The process list is searched again: when the first recorder found is the  *)
(* remembered one it is terminated, when another is found nothing more is    *)
(* done.  A process that cannot be terminated ends the request.              *)
terminate_process_by_id(c) ==
    /\ reqs[c].pc = "stop"
    /\ \/ /\ \/ reqs[c].pid \in RecordersAlive /\ procs' = [procs EXCEPT ![reqs[c].pid] = "none"]
             \/ reqs[c].pid \notin RecordersAlive /\ UNCHANGED procs
             \/ RecordersAlive \ {reqs[c].pid} # {} /\ UNCHANGED procs
          /\ reqs' = [reqs EXCEPT ![c].pc = "stopped"]
       \/ reqs[c].pid \in RecordersAlive /\ Answer(c) /\ UNCHANGED procs
    /\ UNCHANGED <<rec, off>>

(* Whatever the record holds by then, it is overwritten as stopped.          *)
ForeignStopped(c) ==
    /\ reqs[c].pc = "stopped"
    /\ rec' = [NoRecorder EXCEPT !.managed = "external", !.started = TRUE]
    /\ Answer(c)
    /\ off' = TRUE
    /\ UNCHANGED procs

(* The system: recorders end on their own, and the task or a user starts     *)
(* one beside the dashboard.                                                 *)
RecorderExits(p) == procs[p] # "none" /\ procs' = [procs EXCEPT ![p] = "none"] /\ UNCHANGED <<rec, reqs, off>>
StartForeign(p) == p \in FreeRecorderIds /\ procs' = [procs EXCEPT ![p] = "foreign"] /\ UNCHANGED <<rec, reqs, off>>

Handler(c) ==
    \/ start_recorder_runtime(c) \/ run_schtasks_action(c) \/ LaunchUnlessRunning(c) \/ RecorderStartFails(c)
    \/ NothingToStop(c) \/ stop_recorder_runtime(c) \/ StopForeign(c)
    \/ terminate_process_by_id(c) \/ ForeignStopped(c)

ControlNext ==
    \/ PollRecorder
    \/ \E c \in RecorderClients : Handler(c)
    \/ \E p \in RecorderPids : RecorderExits(p) \/ StartForeign(p)

ControlSpec == ControlInit /\ [][ControlNext]_controlVars

----------------------------------------------------------------------------

(* The dashboard never has two recorders of its own, which would write the   *)
(* same rows twice: whatever races between the checks of two starts, a stop  *)
(* that works on an old snapshot, and polls that restart.                    *)
OneDashboardRecorder == Cardinality(Dashboard) <= 1

(* A stop is final: from its answer until a start goes through, no poll      *)
(* brings a recorder back, also when the stopped one was still ending or     *)
(* could not be terminated.                                                  *)
StopIsFinal == [][off => \A p \in RecorderPids : procs'[p] = "watchdog" => procs[p] = "watchdog"]_controlVars
=============================================================================
