----------------------------- MODULE StateStream -----------------------------
(* The state stream of the control center (src/src/ui_api_server.cpp): one   *)
(* thread per browser compares a marker of everything the state is made of   *)
(* with the marker of the last state it sent, builds and sends a new state   *)
(* when they differ, and sleeps until a directory changes or a heartbeat is  *)
(* due.  Files and process tables change under its hands: neither the marker *)
(* nor the state is read at one moment.                                      *)
EXTENDS Naturals

CONSTANTS
    Sources,        \* files and process tables the marker covers
    Watched,        \* those whose directory existed when the stream opened
    MaxChanges      \* bound: changes per source

ASSUME StateStreamAssumption == Watched \subseteq Sources /\ MaxChanges \in Nat

VARIABLES
    content,        \* version of each source
    stream          \* the thread: its step, what it has read, what it sent

streamVars == <<content, stream>>

Unread == [s \in Sources |-> 0]

StreamInit ==
    /\ content = [s \in Sources |-> 1]
    /\ stream = [pc |-> "marker", left |-> Sources, current |-> Unread, previous |-> Unread,
                 built |-> Unread, view |-> Unread, signal |-> FALSE]

(* A source changes; the change handle of its directory is signalled, and    *)
(* stays so until the next wait consumes it.                                 *)
Change(s) ==
    /\ content[s] <= MaxChanges
    /\ content' = [content EXCEPT ![s] = @ + 1]
    /\ stream' = [stream EXCEPT !.signal = @ \/ s \in Watched]

compute_state_stream_change_marker ==
    /\ stream.pc = "marker"
    /\ \E s \in stream.left :
        stream' = [stream EXCEPT !.left = @ \ {s}, !.current[s] = content[s],
                                 !.pc = IF stream.left = {s} THEN "compare" ELSE "marker"]
    /\ UNCHANGED content

Compare ==
    /\ stream.pc = "compare"
    /\ stream' = [stream EXCEPT !.left = Sources,
                                !.pc = IF stream.current # stream.previous THEN "build" ELSE "wait"]
    /\ UNCHANGED content

make_ui_state ==
    /\ stream.pc = "build"
    /\ \E s \in stream.left :
        stream' = [stream EXCEPT !.left = @ \ {s}, !.built[s] = content[s],
                                 !.pc = IF stream.left = {s} THEN "send" ELSE "build"]
    /\ UNCHANGED content

SendMarkedAfterwards ==
    /\ stream.pc = "send"
    /\ stream' = [stream EXCEPT !.view = stream.built, !.previous = content,
                                !.left = Sources, !.pc = "wait"]
    /\ UNCHANGED content

Send ==
    /\ stream.pc = "send"
    /\ stream' = [stream EXCEPT !.view = stream.built, !.previous = stream.current,
                                !.left = Sources, !.pc = "wait"]
    /\ UNCHANGED content

(* The wait ends with a signalled directory or when the heartbeat is due;    *)
(* either way the marker is computed again.                                  *)
wait_for_change ==
    /\ stream.pc = "wait"
    /\ \E woken \in {stream.signal, FALSE} :
        stream' = [stream EXCEPT !.pc = "marker", !.signal = @ /\ ~woken]
    /\ UNCHANGED content

Stream == compute_state_stream_change_marker \/ Compare \/ make_ui_state \/ Send \/ wait_for_change

StreamNext == Stream \/ \E s \in Sources : Change(s)

----------------------------------------------------------------------------

(* A browser is never left behind for good: sources change a bounded number *)
(* of times, and in the end every open stream shows their last versions,     *)
(* also when a change fell between the marker and the state, while the state *)
(* was put together, or in a directory that nobody watches.                  *)
StreamCatchesUp == <>[](stream.view = content)
=============================================================================
