---------------------------- MODULE LiveRuntimes ----------------------------
(* The control center's table of live trading processes                      *)
(* (src/src/ui_api_server.cpp).  A process trades one configuration, either  *)
(* with all its strategies or with the ones of a generated, strategy-scoped  *)
(* copy of the configuration file.  The table is rebuilt under one mutex from *)
(* the processes the system lists and from the copies on disk, while starts  *)
(* rewrite those copies outside the mutex, processes die and their ids are   *)
(* given away again, and users start itrader.exe by hand.                    *)
EXTENDS Naturals, FiniteSets, FiniteSetsExt, SequencesExt

CONSTANTS
    Strategies,     \* strategies of every configuration
    Runs,           \* <<configuration, set of strategies>> a request may name; {} is all
    ByHand,         \* runs a user starts without the dashboard
    TraderPids,
    Starters,        \* request threads
    MaxStarts,      \* bound: start requests, and processes started by hand
    NoPid

ASSUME RuntimesAssumption ==
    /\ \A run \in Runs : run[2] \subseteq Strategies
    /\ ByHand \subseteq Runs
    /\ NoPid \notin TraderPids /\ IsFiniteSet(TraderPids)
    /\ MaxStarts \in Nat

VARIABLES
    os,             \* processes: the run they trade, who started them, what was known then
    files,          \* strategies of the scoped copy of each run; none when absent or torn
    slots,          \* g_live_runtime_processes: by key, a process and its run
    starts,         \* start requests between their steps
    started,        \* start requests and processes started by hand so far
    answer          \* the last answer to a stop

runtimeVars == <<os, files, slots, starts, started, answer>>

Gone == [alive |-> FALSE, run |-> <<>>, by |-> "none", blind |-> FALSE]
NoAnswer == [ok |-> FALSE, run |-> <<>>, blind |-> FALSE]
NoStart == [pc |-> "idle", run |-> <<>>]

TradersAlive == {p \in TraderPids : os[p].alive}

(* Windows gives no id away while a handle to its process is open.           *)
FreeTraderIds == {p \in TraderPids : ~os[p].alive /\ \A k \in DOMAIN slots : ~(slots[k].running /\ slots[k].pid = p)}

RuntimesInit ==
    /\ os = [p \in TraderPids |-> Gone]
    /\ files = [run \in Runs |-> {}]
    /\ slots = <<>>
    /\ starts = [c \in Starters |-> NoStart]
    /\ started = 0
    /\ answer = NoAnswer

(* A key is a configuration and its strategies, and a process id where that  *)
(* alone would be taken.                                                     *)
live_runtime_key(run) == <<run[1], run[2], NoPid>>

ids_share_a_strategy(left, right) == left \cap right # {}
live_runtime_strategy_ids_overlap(left, right) == left = {} \/ right = {} \/ left \cap right # {}
live_runtime_config_matches_requested(slot, run) == slot.config = run[1]
live_runtime_strategy_ids_match_requested(slot, run) == run[2] = {} \/ slot.ids = run[2]

(* What the system tells of a process: its configuration from the command    *)
(* line, its strategies from the scoped copy as it is on disk right now.     *)
strategy_ids_for_live_process_config(run) == IF run[2] = {} THEN {} ELSE files[run]

Found(p) ==
    [pid |-> p, running |-> TRUE, config |-> os[p].run[1],
     ids |-> strategy_ids_for_live_process_config(os[p].run)]

(* The process list answers with every process, or with none when it cannot  *)
(* be queried.                                                               *)
discover_live_runtime_processes(listed) == IF listed THEN [i \in 1..Cardinality(TradersAlive) |->
    Found(SetToSeq(TradersAlive)[i])] ELSE <<>>

Blind(listed) == ~listed \/ \E p \in TradersAlive : strategy_ids_for_live_process_config(os[p].run) # os[p].run[2]

(* g_live_runtime_processes[key] = slot.                                     *)
Put(table, key, slot) ==
    [k \in DOMAIN table \cup {key} |-> IF k = key THEN slot ELSE table[k]]

(* A process the table knows by its id is refreshed where it is; another one *)
(* takes the slot of its run, or one of its own when a different process     *)
(* runs there.                                                               *)
AdoptOver(table, found) ==
    LET known == {k \in DOMAIN table : table[k].pid = found.pid}
        key == live_runtime_key(<<found.config, found.ids>>)
    IN  Put(table, IF known # {} THEN CHOOSE k \in known : TRUE ELSE key, found)

adopt_live_runtime_process(table, found) ==
    LET known == {k \in DOMAIN table : table[k].pid = found.pid}
        key == live_runtime_key(<<found.config, found.ids>>)
        taken == key \in DOMAIN table /\ table[key].running /\ table[key].pid # found.pid
    IN  Put(table, IF known # {} THEN CHOOSE k \in known : TRUE
                   ELSE IF taken THEN <<found.config, found.ids, found.pid>> ELSE key, found)

refresh_live_runtime_process(slot) == [slot EXCEPT !.running = @ /\ os[slot.pid].alive]

refresh_live_runtime_processes(listed) ==
    LET table == FoldLeft(adopt_live_runtime_process, slots, discover_live_runtime_processes(listed))
    IN  [k \in DOMAIN table |-> refresh_live_runtime_process(table[k])]

(* Every poll refreshes the table; the answer to a state request asks the    *)
(* process list too, the marker of the state stream does not.                *)
make_live_runtime_json ==
    /\ \E listed \in BOOLEAN : slots' = refresh_live_runtime_processes(listed)
    /\ answer' = NoAnswer
    /\ UNCHANGED <<os, files, starts, started>>

(* A start writes the scoped copy first, in place and outside the mutex: for *)
(* a while the file holds any part of its strategies.                        *)
write_text_file(c) ==
    /\ starts[c].pc = "idle"
    /\ started < MaxStarts
    /\ started' = started + 1
    /\ \E run \in Runs :
        /\ starts' = [starts EXCEPT ![c] = [pc |-> IF run[2] = {} THEN "launch" ELSE "writing", run |-> run]]
        /\ \E part \in SUBSET run[2] :
            /\ part # run[2] \/ run[2] = {}
            /\ files' = [files EXCEPT ![run] = part]
    /\ answer' = NoAnswer
    /\ UNCHANGED <<os, slots>>

Written(c) ==
    /\ starts[c].pc = "writing"
    /\ files' = [files EXCEPT ![starts[c].run] = starts[c].run[2]]
    /\ starts' = [starts EXCEPT ![c].pc = "launch"]
    /\ answer' = NoAnswer
    /\ UNCHANGED <<os, slots, started>>

NoProcess(run) == [pid |-> NoPid, running |-> FALSE, config |-> run[1], ids |-> run[2]]

AlreadyRuns(table, run) == live_runtime_key(run) \in DOMAIN table /\ table[live_runtime_key(run)].running

Overlaps(table, run) ==
    \E k \in DOMAIN table :
        /\ table[k].running
        /\ live_runtime_config_matches_requested(table[k], run)
        /\ live_runtime_strategy_ids_overlap(table[k].ids, run[2])

(* The locked part of a start: the same run answers that it runs, an         *)
(* overlapping one refuses, else a process is created, or fails to be.       *)
start_live_runtime(c) ==
    /\ starts[c].pc = "launch"
    /\ LET run == starts[c].run IN
       \E listed \in BOOLEAN :
        LET table == refresh_live_runtime_processes(listed) IN
        \/ /\ AlreadyRuns(table, run) \/ Overlaps(table, run)
           /\ slots' = table
           /\ UNCHANGED os
        \/ /\ ~AlreadyRuns(table, run) /\ ~Overlaps(table, run)
           /\ \/ slots' = Put(table, live_runtime_key(run), NoProcess(run)) /\ UNCHANGED os
              \/ \E p \in FreeTraderIds :
                /\ os' = [os EXCEPT ![p] = [alive |-> TRUE, run |-> run, by |-> "dashboard",
                                            blind |-> Blind(listed)]]
                /\ slots' = Put(table, live_runtime_key(run), [NoProcess(run) EXCEPT !.pid = p, !.running = TRUE])
    /\ starts' = [starts EXCEPT ![c] = NoStart]
    /\ answer' = NoAnswer
    /\ UNCHANGED <<files, started>>

(* An exception of a start (an unknown strategy, no binary, no log file)     *)
(* forgets the process of its slot, running or not.                          *)
TraderStartFails(c) ==
    /\ \E run \in Runs :
        /\ \/ starts[c] = NoStart /\ started < MaxStarts /\ started' = started + 1
           \/ starts[c] = [pc |-> "launch", run |-> run] /\ UNCHANGED started
        /\ slots' = Put(slots, live_runtime_key(run), NoProcess(run))
    /\ starts' = [starts EXCEPT ![c] = NoStart]
    /\ answer' = NoAnswer
    /\ UNCHANGED <<os, files>>

(* A stop: every running slot that matches the request exactly, or all of    *)
(* the configuration, is asked to end and then terminated; it may survive    *)
(* both.  The answer is ok when all of them ended.                           *)
Targets(table, run) ==
    {k \in DOMAIN table :
        /\ table[k].running
        /\ live_runtime_config_matches_requested(table[k], run)
        /\ live_runtime_strategy_ids_match_requested(table[k], run)}

stop_live_runtime_process(table, ended) ==
    [k \in DOMAIN table |-> [table[k] EXCEPT !.running = @ /\ table[k].pid \notin ended]]

stop_live_runtime(run) ==
    \E listed \in BOOLEAN :
    LET table == refresh_live_runtime_processes(listed)
        targets == {table[k].pid : k \in Targets(table, run)}
    IN  /\ \E ended \in SUBSET targets :
            /\ os' = [p \in TraderPids |-> IF p \in ended THEN Gone ELSE os[p]]
            /\ slots' = stop_live_runtime_process(table, ended)
            /\ answer' = [ok |-> ended = targets, run |-> run, blind |-> Blind(listed)]
        /\ UNCHANGED <<files, starts, started>>

TraderExits(p) ==
    /\ os[p].alive
    /\ os' = [os EXCEPT ![p] = Gone]
    /\ answer' = NoAnswer
    /\ UNCHANGED <<files, slots, starts, started>>

StartByHand(p) ==
    /\ p \in FreeTraderIds
    /\ started < MaxStarts
    /\ started' = started + 1
    /\ \E run \in ByHand : os' = [os EXCEPT ![p] = [alive |-> TRUE, run |-> run, by |-> "hand", blind |-> FALSE]]
    /\ answer' = NoAnswer
    /\ UNCHANGED <<files, slots, starts>>

RuntimesNext ==
    \/ make_live_runtime_json
    \/ \E c \in Starters : write_text_file(c) \/ Written(c) \/ start_live_runtime(c) \/ TraderStartFails(c)
    \/ \E run \in Runs : stop_live_runtime(run)
    \/ \E p \in TraderPids : TraderExits(p) \/ StartByHand(p)

----------------------------------------------------------------------------

Traded(run) == IF run[2] = {} THEN Strategies ELSE run[2]

(* Two processes the dashboard started never trade the same strategy of a    *)
(* configuration, however starts, failed starts, deaths and processes        *)
(* started by hand interleave; the one way to it is a start that could not   *)
(* see: the process list was unavailable or a scoped copy was being written. *)
NoOverlap ==
    \A p, q \in TradersAlive :
        /\ p # q
        /\ os[p].by = "dashboard" /\ os[q].by = "dashboard"
        /\ os[p].run[1] = os[q].run[1]
        /\ Traded(os[p].run) \cap Traded(os[q].run) # {}
        => os[p].blind \/ os[q].blind

(* A stop that answers ok and could see leaves no process of its target      *)
(* alive, whatever became of their slots since they were started.            *)
StopTells ==
    answer.ok /\ ~answer.blind =>
        \A p \in TradersAlive :
            ~ /\ os[p].run[1] = answer.run[1]
              /\ answer.run[2] = {} \/ answer.run[2] = os[p].run[2]
=============================================================================
