-------------------------- MODULE MarketData_proofs --------------------------
(***************************************************************************)
(* Market data, for any number of instruments, labels, events and process  *)
(* ids.  The live loop never sleeps on a tick or an event whose callback   *)
(* has finished, and the lots it calls today's were opened on the day of   *)
(* the last tick: the first needs to know what a late login answer finds,  *)
(* for the gateway becomes ready without reporting activity, which loses   *)
(* nothing only because no tick of an older session is left in it.  The    *)
(* recorder the dashboard keeps is one at most and stays stopped.  A       *)
(* browser is never left behind a change the state stream has marked.  The *)
(* recorders' files hold what was queued, in its order, and all of it once *)
(* the program has ended: the invariant accounts for every accepted row as *)
(* written, in the writer's hands or waiting.  The CSV recorder files a    *)
(* row under its trading day, and the arbitrage recorder knows every       *)
(* wanted combination before it subscribes.                                *)
(***************************************************************************)
EXTENDS LiveMarketData, RecorderControl, StateStream, MdRecorder, ArbitrageRecorder,
        SequenceTheorems, FiniteSetTheorems, TLAPS

Tick == [n : Nat, day : Nat]

Gateway == [latest : [Instruments -> Tick], sent : Nat, events : Nat, filled : Nat,
            reporting : SUBSET {"md", "trader"}]

Loop == [pc : {"first", "reset", "ensure", "ticks", "wait"}, active : BOOLEAN, tried : BOOLEAN,
         batch : SUBSET (Instruments \X Tick), day : Nat, seen : [Instruments -> Nat],
         lots : SUBSET Nat, stop : BOOLEAN]

LiveTypeOK ==
    /\ md \in Session /\ step \in Steps /\ phase \in Phases
    /\ gateway \in Gateway
    /\ loop \in Loop

\* A login that may still be answered found no tick of an older session.
LateLoginFindsNothing ==
    /\ step = "front" => ~md.asked
    /\ md.asked \/ step = "front" => ~md.ready /\ gateway.latest = NoTicks

\* Between the drain and the wait, whoever stored a tick is about to report it.
TicksAreReported ==
    loop.pc \in {"ticks", "wait"} /\ ~loop.active /\ "md" \notin gateway.reporting /\ md.ready
        => gateway.latest = NoTicks

EventsAreReported ==
    loop.pc = "wait" /\ ~loop.active /\ "trader" \notin gateway.reporting => gateway.events = 0

\* A tick has a day, and so has the loop once it runs.
TicksAreDated ==
    /\ \A i \in Instruments : gateway.latest[i].n > 0 => gateway.latest[i].day # NoDay
    /\ \A tick \in loop.batch : tick[2].day # NoDay
    /\ loop.pc # "first" => loop.day # NoDay

LotsAreTodays ==
    /\ loop.lots \subseteq {loop.day}
    /\ phase \in {"startup", "waiting"} => loop.lots = {}
    /\ phase = "running" => loop.pc # "first"

LiveInv == /\ LiveTypeOK
           /\ LateLoginFindsNothing
           /\ TicksAreReported
           /\ EventsAreReported
           /\ TicksAreDated
           /\ LotsAreTodays

-----------------------------------------------------------------------------

LEMMA NoTicksTyped == NoTicks \in [Instruments -> Tick] /\ \A i \in Instruments : NoTicks[i].n = 0
  BY DEF NoTicks, Tick, NoDay

\* The later of two labels is one of them, and no label is NoDay.
LEMMA LaterLabel ==
    ASSUME NEW reported \in Labels \union {NoDay}, NEW inferred \in Labels
    PROVE  /\ trading_day_label_from_tick(reported, inferred) \in Nat
           /\ trading_day_label_from_tick(reported, inferred) # NoDay
<1>1. inferred \in Nat \ {0} /\ reported \in Nat
  BY LabelsAssumption DEF NoDay
<1>2. \E x \in {reported, inferred} : \A y \in {reported, inferred} : x >= y
  <2>1. CASE reported >= inferred
    BY <1>1, <2>1
  <2>2. CASE inferred >= reported
    BY <1>1, <2>2
  <2> QED
    BY <1>1, <2>1, <2>2
<1>3. Max({reported, inferred}) \in {reported, inferred}
     /\ Max({reported, inferred}) >= inferred
  BY <1>2 DEF Max
<1> QED
  BY <1>1, <1>3 DEF trading_day_label_from_tick, NoDay

LEMMA LiveStarts == LiveInit => LiveInv
<1> SUFFICES ASSUME LiveInit PROVE LiveInv
  OBVIOUS
<1>1. md \in Session /\ ~md.asked /\ ~md.ready
  BY LimitsAssumption, BoundsAssumption DEF LiveInit, SessionInit, NoSession, Session
<1>2. LiveTypeOK
  BY <1>1, NoTicksTyped
  DEF LiveInit, SessionInit, LiveTypeOK, Gateway, Loop, Steps, Phases, NoDay
<1> QED
  BY <1>1, <1>2, NoTicksTyped
  DEF LiveInit, SessionInit, LiveInv, LateLoginFindsNothing, TicksAreReported, EventsAreReported,
      TicksAreDated, LotsAreTodays

\* What a step of the session leaves true when the gateway keeps its ticks or
\* forgets them and the loop only marks that it tried or that something moved.
SessionMoves ==
    /\ md' \in Session /\ step' \in Steps /\ phase' \in Phases
    /\ step' = "front" => ~md'.asked
    /\ md'.asked \/ step' = "front" => ~md'.ready /\ gateway'.latest = NoTicks
    /\ md'.ready => md.ready \/ gateway'.latest = NoTicks
    /\ phase' = "running" => phase = "running"
    /\ phase' \in {"startup", "waiting"} => phase \in {"startup", "waiting"}
    /\ gateway' \in {gateway, [gateway EXCEPT !.latest = NoTicks]}
    /\ loop' \in {loop, [loop EXCEPT !.active = TRUE], [loop EXCEPT !.tried = TRUE],
                  [loop EXCEPT !.stop = TRUE]}

LEMMA SessionMovesKeep == ASSUME LiveInv, SessionMoves PROVE LiveInv'
<1>1. gateway' \in Gateway
  BY NoTicksTyped DEF SessionMoves, LiveInv, LiveTypeOK, Gateway
<1>2. loop' \in Loop
  BY DEF SessionMoves, LiveInv, LiveTypeOK, Loop
<1>3. /\ gateway'.latest \in {gateway.latest, NoTicks}
      /\ gateway'.events = gateway.events /\ gateway'.reporting = gateway.reporting
  BY DEF SessionMoves, LiveInv, LiveTypeOK, Gateway
<1>4. /\ loop'.pc = loop.pc /\ loop'.batch = loop.batch /\ loop'.day = loop.day
      /\ loop'.lots = loop.lots /\ (loop.active => loop'.active)
  BY DEF SessionMoves, LiveInv, LiveTypeOK, Loop
<1>5. LiveTypeOK' /\ LateLoginFindsNothing'
  BY <1>1, <1>2 DEF SessionMoves, LiveTypeOK, LateLoginFindsNothing
<1>6. TicksAreReported' /\ EventsAreReported'
  BY <1>3, <1>4 DEF SessionMoves, LiveInv, TicksAreReported, EventsAreReported
<1>7. TicksAreDated'
  BY <1>3, <1>4, NoTicksTyped DEF LiveInv, TicksAreDated
<1>8. LotsAreTodays'
  BY <1>4 DEF SessionMoves, LiveInv, LotsAreTodays
<1> QED
  BY <1>5, <1>6, <1>7, <1>8 DEF LiveInv

-----------------------------------------------------------------------------
(* The session: connect, its callbacks, starts and stops.                  *)

LEMMA ReleaseMoves ==
    ASSUME LiveInv
    PROVE  Released(md) \in Session /\ ~Released(md).asked /\ ~Released(md).ready
  BY DEF LiveInv, LiveTypeOK, Released, Session

LEMMA CreationMoves ==
    ASSUME LiveInv
    PROVE  Created(md) \in Session /\ ~Created(md).asked /\ ~Created(md).ready
<1>1. 0 \in 0 .. Batches
  BY BoundsAssumption
<1> QED
  BY <1>1, ReleaseMoves DEF Created, Session

LEMMA ConnectMoves == ASSUME LiveInv, live_connect PROVE SessionMoves
<1>1. loop' = loop /\ phase' = phase
  BY DEF live_connect, Connect, StartConnect, CreateFails, FrontAwaited, LoginAwaited, WaitTimesOut,
         CheckReady, SubscribeBatch, SubscribeFails, FinishConnect
<1>2. CASE StartConnect \/ CreateFails
  <2>1. md' \in Session /\ ~md'.asked /\ ~md'.ready
    BY <1>2, ReleaseMoves, CreationMoves DEF StartConnect, CreateFails
  <2>2. step' \in Steps /\ gateway' = [gateway EXCEPT !.latest = NoTicks]
    BY <1>2 DEF live_connect, StartConnect, CreateFails, Return, Steps, Outcomes
  <2>3. gateway'.latest = NoTicks
    BY <2>2 DEF LiveInv, LiveTypeOK, Gateway
  <2> QED
    BY <1>1, <2>1, <2>2, <2>3 DEF SessionMoves, LiveInv, LiveTypeOK
<1>3. CASE FrontAwaited
  <2>1. md' \in Session /\ md'.ready = md.ready
    BY <1>3 DEF LiveInv, LiveTypeOK, FrontAwaited, Session
  <2>2. step = "front" /\ step' = "login" /\ gateway' = gateway
    BY <1>3 DEF live_connect, FrontAwaited
  <2> QED
    BY <1>1, <2>1, <2>2
    DEF SessionMoves, LiveInv, LiveTypeOK, LateLoginFindsNothing, Steps
<1>4. CASE LoginAwaited \/ WaitTimesOut \/ CheckReady \/ SubscribeFails
  <2>1. md' = md /\ step' \in Steps \ {"front"} /\ gateway' = gateway
    BY <1>4 DEF live_connect, LoginAwaited, WaitTimesOut, CheckReady, SubscribeFails, ConnectFails,
                Return, Steps, Outcomes
  <2> QED
    BY <1>1, <2>1 DEF SessionMoves, LiveInv, LiveTypeOK, LateLoginFindsNothing
<1>5. CASE SubscribeBatch \/ FinishConnect
  <2>1. md' \in Session /\ md'.ready = md.ready /\ md'.asked = md.asked
    <3>1. CASE SubscribeBatch
      <4>1. md \in Session /\ md.subscribed + 1 \in 0 .. Batches
        BY <3>1, BoundsAssumption DEF LiveInv, LiveTypeOK, SubscribeBatch, Session
      <4> QED
        BY <3>1, <4>1 DEF SubscribeBatch, Session
    <3>2. CASE FinishConnect
      BY <3>2 DEF LiveInv, LiveTypeOK, FinishConnect, Session
    <3> QED
      BY <1>5, <3>1, <3>2
  <2>2. step' \in Steps \ {"front"} /\ gateway' = gateway
    BY <1>5 DEF live_connect, SubscribeBatch, FinishConnect, Return, Steps, Outcomes
  <2> QED
    BY <1>1, <2>1, <2>2 DEF SessionMoves, LiveInv, LiveTypeOK, LateLoginFindsNothing
<1> QED
  BY <1>2, <1>3, <1>4, <1>5 DEF live_connect, Connect

LEMMA CallbackMoves == ASSUME LiveInv, LiveCallback PROVE SessionMoves
<1>1. /\ step' = step /\ phase' = phase /\ gateway' = gateway
      /\ loop' \in {loop, [loop EXCEPT !.active = TRUE]}
  BY DEF LiveCallback, KeepGateway, OnFrontConnected, OnFrontDisconnected, OnRspUserLogin, OnRspError
<1>2. CASE OnFrontConnected \/ OnFrontDisconnected \/ OnRspError
  <2>1. md' \in Session /\ (md'.ready => md.ready) /\ (md'.asked => md.asked)
        /\ (~md.ready => ~md'.ready)
    BY <1>2 DEF LiveInv, LiveTypeOK, OnFrontConnected, OnFrontDisconnected, OnRspError, Session
  <2> QED
    BY <1>1, <2>1 DEF SessionMoves, LiveInv, LiveTypeOK, LateLoginFindsNothing
<1>3. CASE OnRspUserLogin
  <2>1. md' \in Session /\ md.asked /\ ~md'.asked
    BY <1>3 DEF LiveInv, LiveTypeOK, OnRspUserLogin, Session
  <2> QED
    BY <1>1, <2>1 DEF SessionMoves, LiveInv, LiveTypeOK, LateLoginFindsNothing
<1> QED
  BY <1>2, <1>3 DEF LiveCallback

LEMMA ProgramMoves ==
    ASSUME LiveInv,
           \/ live_ensure_ready \/ StartWaiting \/ StartupThrows \/ AttemptReturns
           \/ live_signal \/ LoopStops \/ (Rested /\ UNCHANGED <<gateway, loop>>)
    PROVE  SessionMoves
<1>1. gateway' = gateway
  BY DEF live_ensure_ready, StartWaiting, StartupThrows, AttemptReturns, live_signal, LoopStops,
         KeepGateway
<1>2. loop' \in {loop, [loop EXCEPT !.tried = TRUE], [loop EXCEPT !.stop = TRUE]}
  BY DEF live_ensure_ready, StartWaiting, StartupThrows, AttemptReturns, live_signal, LoopStops
<1>3. CASE live_ensure_ready \/ Rested
  <2>1. /\ md' \in Session /\ md'.ready = md.ready /\ md'.asked = md.asked
        /\ phase' = phase /\ step' \in {step, "connect"}
    <3>1. CASE live_ensure_ready
      <4>1. md \in Session /\ md.attempts + 1 \in Nat
        BY DEF LiveInv, LiveTypeOK, Session
      <4>2. /\ md' = [md EXCEPT !.attempts = md.attempts + 1, !.resting = TRUE]
            /\ phase' = phase /\ step' = "connect"
        BY <3>1 DEF live_ensure_ready, EnsureReady
      <4> QED
        BY <4>1, <4>2 DEF Session
    <3>2. CASE Rested
      BY <3>2 DEF Rested, LiveInv, LiveTypeOK, Session
    <3> QED
      BY <1>3, <3>1, <3>2
  <2> QED
    BY <1>1, <1>2, <2>1
    DEF SessionMoves, LiveInv, LiveTypeOK, LateLoginFindsNothing, Steps
<1>4. CASE StartWaiting \/ AttemptReturns \/ live_signal
  <2>1. /\ md' = md /\ step' \in {step, "idle"}
        /\ phase' = phase \/ (phase = "startup" /\ phase' = "waiting")
    BY <1>4 DEF StartWaiting, AttemptReturns, live_signal, KeepSession, sessionVars
  <2> QED
    BY <1>1, <1>2, <2>1
    DEF SessionMoves, LiveInv, LiveTypeOK, LateLoginFindsNothing, Steps, Phases
<1>5. CASE StartupThrows \/ LoopStops
  <2>1. md' = Released(md) /\ step' \in {step, "idle"} /\ phase' \in {"failed", "stopped"}
    BY <1>5 DEF StartupThrows, LoopStops
  <2> QED
    BY <1>1, <1>2, <2>1, ReleaseMoves, <1>5
    DEF SessionMoves, LiveInv, LiveTypeOK, LateLoginFindsNothing, Steps, Phases, Outcomes,
        StartupThrows, LoopStops, At
<1> QED
  BY <1>3, <1>4, <1>5

-----------------------------------------------------------------------------
(* The callbacks that store, and their reports.                            *)

LEMMA TickArrives == ASSUME LiveInv, live_OnRtnDepthMarketData PROVE LiveInv'
<1>1. PICK i \in Instruments, reported \in Labels \union {NoDay}, inferred \in Labels :
        gateway' = [gateway EXCEPT
            !.sent = gateway.sent + 1, !.reporting = gateway.reporting \union {"md"},
            !.latest[i] = [n |-> gateway.sent + 1,
                           day |-> trading_day_label_from_tick(reported, inferred)]]
  BY DEF live_OnRtnDepthMarketData
<1>2. PICK day \in Nat : day = trading_day_label_from_tick(reported, inferred) /\ day # NoDay
  BY LaterLabel
<1>s. gateway \in Gateway /\ gateway.sent \in Nat /\ gateway.sent + 1 \in Nat
  BY DEF LiveInv, LiveTypeOK, Gateway
<1>t. [n |-> gateway.sent + 1, day |-> day] \in Tick
  BY <1>s DEF Tick
<1>3. PICK tick \in Tick : tick = [n |-> gateway.sent + 1, day |-> day] /\ tick.day # NoDay
  BY <1>2, <1>t
<1>4. md' = md /\ step' = step /\ phase' = phase /\ loop' = loop /\ md.ready
  BY DEF live_OnRtnDepthMarketData, KeepSession, sessionVars
<1>u. gateway' = [gateway EXCEPT !.sent = gateway.sent + 1,
                                !.reporting = gateway.reporting \union {"md"},
                                !.latest = [gateway.latest EXCEPT ![i] = tick]]
  BY <1>1, <1>2, <1>3, <1>s DEF Gateway
<1>5. /\ gateway' \in Gateway /\ gateway'.events = gateway.events
      /\ gateway'.reporting = gateway.reporting \union {"md"}
      /\ gateway'.latest = [gateway.latest EXCEPT ![i] = tick]
  BY <1>s, <1>u DEF Gateway
<1>6. LiveTypeOK' /\ LateLoginFindsNothing' /\ TicksAreReported' /\ EventsAreReported'
  BY <1>4, <1>5
  DEF LiveInv, LiveTypeOK, LateLoginFindsNothing, TicksAreReported, EventsAreReported
<1>7. TicksAreDated'
  BY <1>3, <1>4, <1>5 DEF LiveInv, LiveTypeOK, Gateway, TicksAreDated
<1> QED
  BY <1>4, <1>6, <1>7 DEF LiveInv, LotsAreTodays

LEMMA EventArrives == ASSUME LiveInv, OrderEventQueued PROVE LiveInv'
<1>1. /\ gateway' \in Gateway /\ gateway'.latest = gateway.latest
      /\ gateway'.reporting = gateway.reporting \union {"trader"}
  <2>1. gateway \in Gateway /\ gateway.events + 1 \in Nat /\ gateway.filled + 1 \in Nat
    BY DEF LiveInv, LiveTypeOK, Gateway
  <2>2. gateway' = [gateway EXCEPT !.events = gateway.events + 1, !.filled = gateway.filled + 1,
                                  !.reporting = gateway.reporting \union {"trader"}]
    BY DEF OrderEventQueued
  <2> QED
    BY <2>1, <2>2 DEF Gateway
<1>2. md' = md /\ step' = step /\ phase' = phase /\ loop' = loop
  BY DEF OrderEventQueued, KeepSession, sessionVars
<1> QED
  BY <1>1, <1>2 DEF LiveInv, LiveTypeOK, LateLoginFindsNothing, TicksAreReported,
                    EventsAreReported, TicksAreDated, LotsAreTodays

LEMMA ReportMade == ASSUME LiveInv, notify_live_activity PROVE LiveInv'
<1>1. /\ gateway' \in Gateway /\ gateway'.latest = gateway.latest
      /\ gateway'.events = gateway.events
  BY DEF notify_live_activity, LiveInv, LiveTypeOK, Gateway
<1>2. /\ loop' \in Loop /\ loop'.active /\ loop'.pc = loop.pc /\ loop'.batch = loop.batch
      /\ loop'.day = loop.day /\ loop'.lots = loop.lots
  BY DEF notify_live_activity, LiveInv, LiveTypeOK, Loop
<1>3. md' = md /\ step' = step /\ phase' = phase
  BY DEF notify_live_activity, KeepSession, sessionVars
<1> QED
  BY <1>1, <1>2, <1>3 DEF LiveInv, LiveTypeOK, LateLoginFindsNothing, TicksAreReported,
                          EventsAreReported, TicksAreDated, LotsAreTodays

-----------------------------------------------------------------------------
(* The main loop.                                                          *)

LEMMA FirstTick == ASSUME LiveInv, wait_for_initial_live_market_data PROVE LiveInv'
<1>1. PICK i \in Instruments :
        /\ gateway.latest[i].n > 0
        /\ loop' = [loop EXCEPT !.pc = "reset", !.day = gateway.latest[i].day,
                          !.seen = [j \in Instruments |-> gateway.latest[j].n]]
  BY DEF wait_for_initial_live_market_data
<1>2. /\ md' = md /\ step' = step /\ phase' = "running"
      /\ gateway' = [gateway EXCEPT !.latest = NoTicks] /\ step = "idle"
      /\ phase = "waiting"
  BY DEF wait_for_initial_live_market_data
<1>3. gateway' \in Gateway /\ gateway'.latest = NoTicks
  BY <1>2, NoTicksTyped DEF LiveInv, LiveTypeOK, Gateway
<1>4. gateway.latest \in [Instruments -> Tick]
  BY DEF LiveInv, LiveTypeOK, Gateway
<1>5. [j \in Instruments |-> gateway.latest[j].n] \in [Instruments -> Nat]
  BY <1>4 DEF Tick
<1>6. gateway.latest[i].day \in Nat /\ gateway.latest[i].day # NoDay
  BY <1>1, <1>4 DEF Tick, LiveInv, TicksAreDated
<1>7. /\ loop' \in Loop /\ loop'.pc = "reset" /\ loop'.batch = loop.batch
      /\ loop'.day # NoDay /\ loop'.lots = loop.lots
  BY <1>1, <1>5, <1>6 DEF LiveInv, LiveTypeOK, Loop
<1> QED
  BY <1>2, <1>3, <1>7, NoTicksTyped
  DEF LiveInv, LiveTypeOK, LateLoginFindsNothing, TicksAreReported, EventsAreReported,
      TicksAreDated, LotsAreTodays, Phases

LEMMA LoopResets == ASSUME LiveInv, reset_live_activity PROVE LiveInv'
<1>1. /\ md' = md /\ step' = step /\ phase' = phase /\ gateway' = gateway
      /\ loop' = [loop EXCEPT !.pc = "ensure", !.active = FALSE, !.tried = FALSE]
      /\ loop.pc = "reset"
  BY DEF reset_live_activity, KeepGateway, KeepSession, sessionVars, At
<1>2. /\ loop' \in Loop /\ loop'.pc = "ensure" /\ loop'.batch = loop.batch
      /\ loop'.day = loop.day /\ loop'.lots = loop.lots
  BY <1>1 DEF LiveInv, LiveTypeOK, Loop
<1> QED
  BY <1>1, <1>2 DEF LiveInv, LiveTypeOK, LateLoginFindsNothing, TicksAreReported,
                    EventsAreReported, TicksAreDated, LotsAreTodays

LEMMA TicksDrained == ASSUME LiveInv, drain_ticks PROVE LiveInv'
<1>1. md' = md /\ step' = step /\ phase' = phase /\ loop.pc = "ensure" /\ step = "idle"
  BY DEF drain_ticks, KeepSession, sessionVars, At
<1>2. ASSUME gateway' \in Gateway, gateway'.latest \in {gateway.latest, NoTicks},
             md.ready => gateway'.latest = NoTicks,
             NEW batch \in SUBSET (Instruments \X Tick), \A tick \in batch : tick[2].day # NoDay,
             loop' = [loop EXCEPT !.pc = "ticks", !.batch = batch]
      PROVE  LiveInv'
  <2>1. /\ loop' \in Loop /\ loop'.pc = "ticks" /\ loop'.batch = batch
        /\ loop'.day = loop.day /\ loop'.lots = loop.lots
    BY <1>2 DEF LiveInv, LiveTypeOK, Loop
  <2>2. LiveTypeOK' /\ LateLoginFindsNothing' /\ TicksAreReported' /\ EventsAreReported'
    BY <1>1, <1>2, <2>1
    DEF LiveInv, LiveTypeOK, LateLoginFindsNothing, TicksAreReported, EventsAreReported
  <2>3. TicksAreDated' /\ LotsAreTodays'
    BY <1>1, <1>2, <2>1, NoTicksTyped DEF LiveInv, TicksAreDated, LotsAreTodays
  <2> QED
    BY <2>2, <2>3 DEF LiveInv
<1>3. gateway \in Gateway /\ gateway.latest \in [Instruments -> Tick] /\ gateway.sent \in Nat
  BY DEF LiveInv, LiveTypeOK, Gateway
<1>4. CASE md.ready
  <2> DEFINE batch == {<<i, gateway.latest[i]>> : i \in {j \in Instruments : gateway.latest[j].n > 0}}
  <2>1. batch \in SUBSET (Instruments \X Tick) /\ \A tick \in batch : tick[2].day # NoDay
    BY <1>3 DEF LiveInv, TicksAreDated
  <2>2. /\ loop' = [loop EXCEPT !.pc = "ticks", !.batch = batch]
        /\ gateway' = [gateway EXCEPT !.latest = NoTicks]
    BY <1>4 DEF drain_ticks
  <2>3. gateway' \in Gateway /\ gateway'.latest = NoTicks
    BY <1>3, <2>2, NoTicksTyped DEF Gateway
  <2> HIDE DEF batch
  <2> QED
    BY <1>2, <2>1, <2>2, <2>3
<1>5. CASE ~md.ready
  <2>1. PICK known \in SUBSET Instruments, day \in Labels :
          /\ gateway' = IF known = {} THEN gateway ELSE [gateway EXCEPT !.sent = gateway.sent + 1]
          /\ loop' = [loop EXCEPT !.pc = "ticks",
                 !.batch = {<<i, [n |-> gateway.sent + 1, day |-> day]>> : i \in known}]
    BY <1>5 DEF drain_ticks
  <2> DEFINE batch == {<<i, [n |-> gateway.sent + 1, day |-> day]>> : i \in known}
  <2>2. gateway.sent + 1 \in Nat /\ day \in Nat /\ day # NoDay
    BY <1>3, LabelsAssumption DEF NoDay
  <2>3. [n |-> gateway.sent + 1, day |-> day] \in Tick
    BY <2>2 DEF Tick
  <2>4. batch \in SUBSET (Instruments \X Tick) /\ \A tick \in batch : tick[2].day # NoDay
    BY <2>2, <2>3
  <2>5. gateway' \in Gateway /\ gateway'.latest = gateway.latest
    BY <1>3, <2>1, <2>2 DEF Gateway
  <2>6. loop' = [loop EXCEPT !.pc = "ticks", !.batch = batch]
    BY <2>1
  <2> HIDE DEF batch
  <2> QED
    BY <1>2, <1>5, <2>4, <2>5, <2>6
<1> QED
  BY <1>4, <1>5

\* A tick of another day rolls the books before the day becomes its own.
LEMMA TickDispatched == ASSUME LiveInv, dispatch_tick PROVE LiveInv'
<1>1. /\ md' = md /\ step' = step /\ phase' = phase /\ gateway' = gateway
      /\ loop.pc = "ticks"
  BY DEF dispatch_tick, KeepGateway, KeepSession, sessionVars, At
<1>2. PICK tick \in loop.batch :
        loop' = [loop EXCEPT !.batch = loop.batch \ {tick},
                   !.seen[tick[1]] = tick[2].n,
                   !.day = IF tick[2].day # NoDay THEN tick[2].day ELSE loop.day,
                   !.lots = IF tick[2].day # NoDay /\ loop.day # NoDay /\ tick[2].day # loop.day
                            THEN {} ELSE loop.lots]
  BY DEF dispatch_tick
<1>3. /\ loop \in Loop /\ tick \in Instruments \X Tick
      /\ tick[2].day # NoDay /\ loop.day # NoDay
  BY <1>1 DEF LiveInv, LiveTypeOK, Loop, TicksAreDated
<1>4. PICK i \in Instruments, n \in Nat, day \in Nat :
        i = tick[1] /\ n = tick[2].n /\ day = tick[2].day
  BY <1>3 DEF Tick
<1>5. PICK seen \in [Instruments -> Nat] : seen = [loop.seen EXCEPT ![i] = n]
  BY <1>3, <1>4 DEF Loop
<1>6. PICK lots \in SUBSET Nat : lots = IF day # loop.day THEN {} ELSE loop.lots
  BY <1>3 DEF Loop
<1>7. loop' = [loop EXCEPT !.batch = loop.batch \ {tick}, !.seen = seen, !.day = day, !.lots = lots]
  BY <1>2, <1>3, <1>4, <1>5, <1>6
<1>8. /\ loop' \in Loop /\ loop'.pc = "ticks" /\ loop'.batch = loop.batch \ {tick}
      /\ loop'.day = day /\ loop'.lots = lots /\ loop'.active = loop.active
  BY <1>1, <1>3, <1>7 DEF Loop
<1>9. LiveTypeOK' /\ LateLoginFindsNothing' /\ TicksAreReported' /\ EventsAreReported'
  BY <1>1, <1>8
  DEF LiveInv, LiveTypeOK, LateLoginFindsNothing, TicksAreReported, EventsAreReported
<1>10. TicksAreDated' /\ LotsAreTodays'
  BY <1>1, <1>3, <1>4, <1>6, <1>8 DEF LiveInv, TicksAreDated, LotsAreTodays
<1> QED
  BY <1>9, <1>10 DEF LiveInv

LEMMA EventsDrained == ASSUME LiveInv, drain_order_events PROVE LiveInv'
<1>1. md' = md /\ step' = step /\ phase' = phase /\ loop.pc = "ticks"
  BY DEF drain_order_events, KeepSession, sessionVars, At
<1>2. PICK lots \in SUBSET Nat : /\ lots \subseteq {loop.day}
                                 /\ loop' = [loop EXCEPT !.pc = "wait", !.lots = lots]
  <2>1. loop \in Loop /\ loop.lots \in SUBSET Nat /\ loop.day \in Nat /\ loop.lots \subseteq {loop.day}
    BY DEF LiveInv, LiveTypeOK, Loop, LotsAreTodays
  <2>2. PICK lots \in SUBSET Nat :
          lots = IF gateway.events > 0 THEN loop.lots \union {loop.day} ELSE loop.lots
    BY <2>1
  <2>3. loop' = [loop EXCEPT !.pc = "wait", !.lots = lots]
    BY <2>2 DEF drain_order_events
  <2> QED
    BY <2>1, <2>2, <2>3
<1>p. phase = "running"
  BY DEF drain_order_events, At
<1>3. /\ gateway' \in Gateway /\ gateway'.latest = gateway.latest /\ gateway'.events = 0
      /\ gateway'.reporting = gateway.reporting
  BY DEF drain_order_events, LiveInv, LiveTypeOK, Gateway
<1>4. /\ loop' \in Loop /\ loop'.pc = "wait" /\ loop'.active = loop.active
      /\ loop'.batch = loop.batch /\ loop'.day = loop.day /\ loop'.lots = lots
  BY <1>2 DEF LiveInv, LiveTypeOK, Loop
<1> QED
  BY <1>1, <1>2, <1>p, <1>3, <1>4
  DEF LiveInv, LiveTypeOK, LateLoginFindsNothing, TicksAreReported, EventsAreReported,
      TicksAreDated, LotsAreTodays

LEMMA WaitEnds == ASSUME LiveInv, wait_for_live_activity PROVE LiveInv'
<1>1. /\ md' = md /\ step' = step /\ phase' = phase /\ gateway' = gateway
      /\ loop' = [loop EXCEPT !.pc = "reset", !.active = FALSE] /\ loop.pc = "wait"
  BY DEF wait_for_live_activity, KeepGateway, KeepSession, sessionVars, At
<1>2. /\ loop' \in Loop /\ loop'.pc = "reset" /\ loop'.batch = loop.batch
      /\ loop'.day = loop.day /\ loop'.lots = loop.lots
  BY <1>1 DEF LiveInv, LiveTypeOK, Loop
<1> QED
  BY <1>1, <1>2 DEF LiveInv, LiveTypeOK, LateLoginFindsNothing, TicksAreReported,
                    EventsAreReported, TicksAreDated, LotsAreTodays

-----------------------------------------------------------------------------

LEMMA LiveStutters == LiveInv /\ UNCHANGED liveVars => LiveInv'
  BY DEF liveVars, LiveInv, LiveTypeOK, LateLoginFindsNothing, TicksAreReported,
         EventsAreReported, TicksAreDated, LotsAreTodays

LEMMA LiveStepKeeps == LiveInv /\ [LiveNext]_liveVars => LiveInv'
<1> SUFFICES ASSUME LiveInv, [LiveNext]_liveVars PROVE LiveInv'
  OBVIOUS
<1>1. CASE live_connect
  BY <1>1, ConnectMoves, SessionMovesKeep
<1>2. CASE LiveCallback
  BY <1>2, CallbackMoves, SessionMovesKeep
<1>3. CASE \/ live_ensure_ready \/ StartWaiting \/ StartupThrows \/ AttemptReturns
           \/ live_signal \/ LoopStops \/ (Rested /\ UNCHANGED <<gateway, loop>>)
  BY <1>3, ProgramMoves, SessionMovesKeep
<1>4. CASE live_OnRtnDepthMarketData \/ OrderEventQueued \/ notify_live_activity
  BY <1>4, TickArrives, EventArrives, ReportMade
<1>5. CASE \/ wait_for_initial_live_market_data \/ reset_live_activity \/ drain_ticks
           \/ dispatch_tick \/ drain_order_events \/ wait_for_live_activity
  BY <1>5, FirstTick, LoopResets, TicksDrained, TickDispatched, EventsDrained, WaitEnds
<1>6. CASE UNCHANGED liveVars
  BY <1>6, LiveStutters
<1> QED
  BY <1>1, <1>2, <1>3, <1>4, <1>5, <1>6 DEF LiveNext, LiveMain

(* What the session, the callbacks and the loop know of each other between *)
(* two steps: late logins find an empty gateway, ticks and events drained   *)
(* too early are about to be reported, every tick has a day.               *)
THEOREM LoopIsTracked == LiveSpec => []LiveInv
<1> QED
  BY LiveStarts, LiveStepKeeps, PTL DEF LiveSpec

(* The main loop of run_live never sleeps on a stored tick or event whose   *)
(* callback has reported, although it clears the flag twice a round.       *)
THEOREM NoWakeupIsLost == LiveSpec => []NoLostWakeup
<1>1. LiveInv => NoLostWakeup
  BY DEF LiveInv, TicksAreReported, EventsAreReported, NoLostWakeup, At
<1> QED
  BY <1>1, LoopIsTracked, PTL

(* Today's lots are of the day of the last tick, whichever instrument's     *)
(* tick names the new day first (roll_live_accounts_to_next_trading_day). *)
THEOREM TodayStaysToday == LiveSpec => []TodayIsToday
<1>1. LiveInv => TodayIsToday
  BY DEF LiveInv, LotsAreTodays, TodayIsToday
<1> QED
  BY <1>1, LoopIsTracked, PTL

-----------------------------------------------------------------------------
(* The recorder.                                                           *)

RecorderRecord ==
    [pid : RecorderPids \union {NoRecorderId}, running : BOOLEAN, stopping : BOOLEAN, auto : BOOLEAN,
     managed : {"dashboard", "external"}, restarted : BOOLEAN, started : BOOLEAN]

ControlTypeOK ==
    /\ procs \in [RecorderPids -> {"none", "user", "watchdog", "foreign"}]
    /\ rec \in RecorderRecord
    /\ rec.running => rec.pid \in RecorderPids

OneOwn == \A p, q \in Dashboard : p = q

\* A record that asks for automatic restarts describes the dashboard's own
\* recorder for as long as there is one, so that its death is seen.
AutoIsWatched == rec.auto => \A p \in Dashboard : rec.running /\ p = rec.pid

\* A stop takes the wish for restarts out of the record; whoever overwrites
\* the record later, other than a start that goes through, leaves it out.
OffMeansNoRestart == off => ~rec.auto

ControlInv == ControlTypeOK /\ OneOwn /\ AutoIsWatched /\ OffMeansNoRestart

\* A refreshed record is right about the process it calls running.
LEMMA RefreshIsRight ==
    ASSUME ControlInv, NEW r, r = refresh_recorder_runtime_process(rec)
    PROVE  /\ r \in RecorderRecord /\ r.auto = rec.auto
           /\ r.running => r.pid \in RecorderPids /\ procs[r.pid] # "none" /\ rec.running /\ r.pid = rec.pid
           /\ r.auto => \A p \in Dashboard : r.running /\ p = r.pid
<1> USE DEF ControlInv, ControlTypeOK, RecorderRecord
<1>1. CASE rec.running /\ procs[rec.pid] = "none"
  <2>1. r = [rec EXCEPT !.running = FALSE, !.stopping = FALSE]
    BY <1>1 DEF refresh_recorder_runtime_process
  <2>2. ~rec.auto \/ Dashboard = {}
    BY <1>1 DEF AutoIsWatched, Dashboard
  <2> QED
    BY <2>1, <2>2
<1>2. CASE ~(rec.running /\ procs[rec.pid] = "none")
  <2>1. r = rec
    BY <1>2 DEF refresh_recorder_runtime_process
  <2> QED
    BY <1>2, <2>1 DEF AutoIsWatched
<1> QED
  BY <1>1, <1>2

\* A launch with no recorder of the dashboard alive leaves one at most, and
\* the record describes it.
LEMMA LaunchKeepsOne ==
    ASSUME ControlInv, NEW r, r = refresh_recorder_runtime_process(rec), Dashboard = {},
           NEW auto \in BOOLEAN, NEW restarted \in BOOLEAN, NEW by \in {"user", "watchdog"},
           launch_dashboard_recorder_process(r, auto, restarted, by)
    PROVE  ControlTypeOK' /\ OneOwn' /\ AutoIsWatched'
<1> USE DEF ControlInv, ControlTypeOK
<1>1. /\ r \in RecorderRecord
      /\ r.running => r.pid \in RecorderPids
  BY RefreshIsRight
<1>2. CASE rec' = r /\ UNCHANGED procs
  BY <1>1, <1>2 DEF OneOwn, AutoIsWatched, Dashboard
<1>3. CASE rec' = Launched(r, NoRecorderId, auto, restarted) /\ UNCHANGED procs
  BY <1>3 DEF OneOwn, AutoIsWatched, Dashboard, Launched, RecorderRecord
<1>4. CASE \E p \in FreeRecorderIds :
             rec' = Launched(r, p, auto, restarted) /\ procs' = [procs EXCEPT ![p] = by]
  <2>1. PICK p \in FreeRecorderIds :
             rec' = Launched(r, p, auto, restarted) /\ procs' = [procs EXCEPT ![p] = by]
    BY <1>4
  <2>2. p \in RecorderPids /\ p # NoRecorderId
    BY RecorderAssumption DEF FreeRecorderIds
  <2>3. ControlTypeOK' /\ rec'.running /\ rec'.pid = p
    BY <2>1, <2>2 DEF Launched, RecorderRecord
  <2>4. Dashboard' \subseteq {p}
    BY <2>1, <2>2 DEF Dashboard
  <2> QED
    BY <2>3, <2>4 DEF OneOwn, AutoIsWatched
<1> QED
  BY <1>2, <1>3, <1>4 DEF launch_dashboard_recorder_process

\* A poll restarts only by a record that asks for it, so never after a stop
\* and never beside a recorder of the dashboard that lives.
LEMMA PollKeepsOne ==
    ASSUME ControlInv, make_recorder_runtime_json
    PROVE  /\ ControlTypeOK' /\ OneOwn' /\ AutoIsWatched'
           /\ off => ~rec'.auto /\ UNCHANGED procs
<1> DEFINE r == refresh_recorder_runtime_process(rec)
<1>1. /\ r \in RecorderRecord /\ r.auto = rec.auto
      /\ r.running => r.pid \in RecorderPids
      /\ r.auto => \A p \in Dashboard : r.running /\ p = r.pid
  BY RefreshIsRight
<1>2. CASE rec' = r /\ UNCHANGED procs
  BY <1>1, <1>2 DEF ControlInv, ControlTypeOK, OneOwn, AutoIsWatched, Dashboard, OffMeansNoRestart
<1>3. CASE should_auto_restart_recorder(r) /\ launch_dashboard_recorder_process(r, TRUE, TRUE, "watchdog")
  <2>1. r.auto /\ ~off /\ Dashboard = {}
    BY <1>1, <1>3 DEF should_auto_restart_recorder, ControlInv, OffMeansNoRestart
  <2> QED
    BY <1>3, <2>1, LaunchKeepsOne
<1> QED
  BY <1>2, <1>3 DEF make_recorder_runtime_json

\* What changes the record only, and takes the wish for restarts out of it
\* or leaves it with the process it had.
LEMMA RecordOnly ==
    ASSUME ControlInv, rec' \in RecorderRecord, rec'.running => rec'.pid \in RecorderPids,
           \A p \in RecorderPids : procs'[p] = procs[p] \/ procs'[p] = "none" \/ procs'[p] = "foreign",
           procs' \in [RecorderPids -> {"none", "user", "watchdog", "foreign"}],
           rec'.auto => rec.auto /\ \A p \in Dashboard : rec'.running /\ p = rec'.pid,
           off' => ~rec'.auto
    PROVE  ControlInv'
<1>1. Dashboard' \subseteq Dashboard
  BY DEF Dashboard
<1> QED
  BY <1>1 DEF ControlInv, ControlTypeOK, OneOwn, AutoIsWatched, OffMeansNoRestart

\* No step but a permitted one brings a recorder back.
NoRestart == off => \A p \in RecorderPids : procs'[p] = "watchdog" => procs[p] = "watchdog"

\* One step of a request: the launches, after the look that found no
\* recorder, and the steps that only take from the record.
LEMMA HandlerKeepsOne ==
    ASSUME ControlInv, NEW c \in RecorderClients, Handler(c)
    PROVE  ControlInv' /\ NoRestart
<1> DEFINE r == refresh_recorder_runtime_process(rec)
<1> USE DEF NoRestart
<1>1. /\ r \in RecorderRecord /\ r.auto = rec.auto
      /\ r.running => r.pid \in RecorderPids
      /\ r.auto => \A p \in Dashboard : r.running /\ p = r.pid
  BY RefreshIsRight
<1>2. /\ procs \in [RecorderPids -> {"none", "user", "watchdog", "foreign"}]
      /\ off => ~rec.auto
  BY DEF ControlInv, ControlTypeOK, OffMeansNoRestart
<1> HIDE DEF r
<1>3. CASE start_recorder_runtime(c)
  <2>1. rec' = r /\ procs' = procs /\ off' = off
    BY <1>3 DEF start_recorder_runtime, r
  <2> QED
    BY <1>1, <1>2, <2>1, RecordOnly
<1>4. CASE run_schtasks_action(c)
  BY <1>4, PollKeepsOne DEF run_schtasks_action, ControlInv, OffMeansNoRestart
<1>5. CASE LaunchUnlessRunning(c)
  <2>1. CASE Running(r)
    <3>1. rec' = r /\ procs' = procs /\ off' = off
      BY <1>5, <2>1 DEF LaunchUnlessRunning, r
    <3> QED
      BY <1>1, <1>2, <3>1, RecordOnly
  <2>2. CASE ~Running(r)
    <3>1. PICK auto \in BOOLEAN : launch_dashboard_recorder_process(r, auto, FALSE, "user")
      BY <1>5, <2>2 DEF LaunchUnlessRunning, r
    <3>2. off' = FALSE
      BY <1>5, <2>2 DEF LaunchUnlessRunning, r
    <3>3. Dashboard = {}
      BY <2>2 DEF Running, RecordersAlive, Dashboard
    <3>4. ControlTypeOK' /\ OneOwn' /\ AutoIsWatched'
      BY <3>1, <3>3, LaunchKeepsOne DEF r
    <3>5. \A p \in RecorderPids : procs'[p] = "watchdog" => procs[p] = "watchdog"
      BY <1>2, <3>1 DEF launch_dashboard_recorder_process
    <3> QED
      BY <3>2, <3>4, <3>5 DEF ControlInv, OffMeansNoRestart
  <2> QED
    BY <2>1, <2>2
<1>6. CASE RecorderStartFails(c)
  <2>1. rec' = [NoRecorder EXCEPT !.started = TRUE] /\ procs' = procs
    BY <1>6 DEF RecorderStartFails
  <2>2. rec' \in RecorderRecord /\ ~rec'.auto /\ ~rec'.running
    BY <2>1 DEF NoRecorder, RecorderRecord
  <2> QED
    BY <1>2, <2>1, <2>2, RecordOnly
<1>7. CASE NothingToStop(c)
  <2>1. rec' = [r EXCEPT !.running = FALSE, !.stopping = FALSE, !.auto = FALSE] /\ procs' = procs
    BY <1>7 DEF NothingToStop, r
  <2>2. rec' \in RecorderRecord /\ ~rec'.auto /\ ~rec'.running
    BY <1>1, <2>1 DEF RecorderRecord
  <2> QED
    BY <1>2, <2>1, <2>2, RecordOnly
<1>8. CASE stop_recorder_runtime(c)
  <2>1. /\ procs' = procs \/ procs' = [procs EXCEPT ![r.pid] = "none"]
        /\ \/ rec' = [StopAsks(r) EXCEPT !.running = FALSE, !.stopping = FALSE]
           \/ rec' = StopAsks(r)
           \/ rec' = [StopAsks(r) EXCEPT !.stopping = FALSE]
    BY <1>8 DEF stop_recorder_runtime, r
  <2>2. rec' \in RecorderRecord /\ ~rec'.auto /\ (rec'.running => rec'.pid \in RecorderPids)
    BY <1>1, <2>1 DEF StopAsks, RecorderRecord
  <2>3. /\ procs' \in [RecorderPids -> {"none", "user", "watchdog", "foreign"}]
        /\ \A p \in RecorderPids : procs'[p] = procs[p] \/ procs'[p] = "none"
    BY <1>2, <2>1
  <2> QED
    BY <1>2, <2>2, <2>3, RecordOnly
<1>9. CASE StopForeign(c)
  <2>1. rec' = r /\ procs' = procs /\ off' = off
    BY <1>9 DEF StopForeign, r
  <2> QED
    BY <1>1, <1>2, <2>1, RecordOnly
<1>10. CASE terminate_process_by_id(c)
  <2>1. /\ rec' = rec /\ off' = off
        /\ procs' = procs \/ procs' = [procs EXCEPT ![reqs[c].pid] = "none"]
    BY <1>10 DEF terminate_process_by_id
  <2>2. /\ procs' \in [RecorderPids -> {"none", "user", "watchdog", "foreign"}]
        /\ \A p \in RecorderPids : procs'[p] = procs[p] \/ procs'[p] = "none"
    BY <1>2, <2>1
  <2> QED
    BY <1>2, <2>1, <2>2, RecordOnly DEF ControlInv, ControlTypeOK, AutoIsWatched
<1>11. CASE ForeignStopped(c)
  <2>1. rec' = [NoRecorder EXCEPT !.managed = "external", !.started = TRUE] /\ procs' = procs
    BY <1>11 DEF ForeignStopped
  <2>2. rec' \in RecorderRecord /\ ~rec'.auto /\ ~rec'.running
    BY <2>1 DEF NoRecorder, RecorderRecord
  <2> QED
    BY <1>2, <2>1, <2>2, RecordOnly
<1> QED
  BY <1>3, <1>4, <1>5, <1>6, <1>7, <1>8, <1>9, <1>10, <1>11 DEF Handler

\* A recorder that ends or appears beside the dashboard is never one of its own.
LEMMA SystemKeepsOne ==
    ASSUME ControlInv, NEW q \in RecorderPids, RecorderExits(q) \/ StartForeign(q)
    PROVE  ControlInv' /\ NoRestart
<1>1. /\ rec' = rec /\ off' = off
      /\ procs' = [procs EXCEPT ![q] = "none"] \/ procs' = [procs EXCEPT ![q] = "foreign"]
  BY DEF RecorderExits, StartForeign
<1>2. procs \in [RecorderPids -> {"none", "user", "watchdog", "foreign"}]
  BY DEF ControlInv, ControlTypeOK
<1>3. /\ procs' \in [RecorderPids -> {"none", "user", "watchdog", "foreign"}]
      /\ \A p \in RecorderPids : procs'[p] = procs[p] \/ procs'[p] = "none" \/ procs'[p] = "foreign"
  BY <1>1, <1>2
<1>4. ControlInv'
  BY <1>1, <1>3, RecordOnly DEF ControlInv, ControlTypeOK, AutoIsWatched, OffMeansNoRestart
<1> QED
  BY <1>1, <1>2, <1>4 DEF NoRestart

LEMMA ControlStep == ControlInv /\ [ControlNext]_controlVars => ControlInv' /\ [NoRestart]_controlVars
<1> SUFFICES ASSUME ControlInv, [ControlNext]_controlVars
             PROVE  ControlInv' /\ [NoRestart]_controlVars
  OBVIOUS
<1>1. CASE PollRecorder
  <2>1. off' = off /\ make_recorder_runtime_json
    BY <1>1 DEF PollRecorder
  <2> QED
    BY <2>1, PollKeepsOne DEF ControlInv, OffMeansNoRestart, NoRestart
<1>2. CASE \E c \in RecorderClients : Handler(c)
  BY <1>2, HandlerKeepsOne
<1>3. CASE \E p \in RecorderPids : RecorderExits(p) \/ StartForeign(p)
  BY <1>3, SystemKeepsOne
<1>4. CASE UNCHANGED controlVars
  BY <1>4 DEF controlVars, ControlInv, ControlTypeOK, OneOwn, AutoIsWatched, OffMeansNoRestart, Dashboard
<1> QED
  BY <1>1, <1>2, <1>3, <1>4 DEF ControlNext

LEMMA ControlStarts == ControlInit => ControlInv
BY DEF ControlInit, ControlInv, ControlTypeOK, OneOwn, AutoIsWatched, OffMeansNoRestart, Dashboard,
       NoRecorder, RecorderRecord

(* The recorder's control keeps its record true to the processes: the        *)
(* inductive invariant of the two theorems below.                            *)
THEOREM RecordIsTrue == ControlSpec => []ControlInv
<1>1. ControlInv /\ [ControlNext]_controlVars => ControlInv'
  BY ControlStep
<1> QED
  BY <1>1, ControlStarts, PTL DEF ControlSpec

(* The dashboard never has two recorders of its own: starts that race each   *)
(* other, failed starts, stops of other recorders and restarting polls       *)
(* notwithstanding (start_recorder_runtime and make_recorder_runtime_json).  *)
THEOREM OneRecorderAtMost == ControlSpec => []OneDashboardRecorder
<1>1. ControlInv => OneDashboardRecorder
  <2> SUFFICES ASSUME ControlInv PROVE Cardinality(Dashboard) <= 1
    BY DEF OneDashboardRecorder
  <2>1. CASE Dashboard = {}
    BY <2>1, FS_EmptySet
  <2>2. CASE Dashboard # {}
    <3>1. PICK p \in Dashboard : TRUE
      BY <2>2
    <3>2. Dashboard = {p}
      BY <3>1 DEF ControlInv, OneOwn
    <3> QED
      <4>1. Cardinality({p}) = 1
        BY FS_Singleton
      <4> QED BY <3>2, <4>1
  <2> QED
    BY <2>1, <2>2
<1> QED
  BY <1>1, RecordIsTrue, PTL

(* Once a stop was answered, no poll brings a recorder back before the next  *)
(* start goes through (stop_recorder_runtime, should_auto_restart_recorder). *)
THEOREM StoppedStaysStopped == ControlSpec => StopIsFinal
<1>1. ControlInv /\ [ControlNext]_controlVars => [NoRestart]_controlVars
  BY ControlStep
<1> QED
  BY <1>1, RecordIsTrue, PTL DEF ControlSpec, StopIsFinal, NoRestart

-----------------------------------------------------------------------------
(* The state stream, one browser: the part "stream" of MCControlCenter.      *)
BrowserSpec == StreamInit /\ [][StreamNext]_streamVars

Versions == [Sources -> Nat]

Browser == [pc : {"marker", "compare", "build", "send", "wait"}, left : SUBSET Sources,
            current : Versions, previous : Versions, built : Versions, view : Versions,
            signal : BOOLEAN]

BrowserTyped == content \in Versions /\ stream \in Browser

\* The marker kept is at most as new as what the browser was sent, and as the
\* marker being computed; nothing is newer than the sources.
KeptIsOldest(s) ==
    /\ stream.previous[s] <= stream.view[s]
    /\ stream.previous[s] <= stream.current[s]
    /\ stream.view[s] <= content[s]
    /\ stream.current[s] <= content[s]
    /\ stream.built[s] <= content[s]

\* What went into the state being put together was read after the marker, and
\* after what the browser has.
BuiltIsNewer(s) ==
    stream.pc = "send" \/ (stream.pc = "build" /\ s \notin stream.left) =>
        stream.current[s] <= stream.built[s] /\ stream.view[s] <= stream.built[s]

BrowserInv == BrowserTyped /\ \A s \in Sources : KeptIsOldest(s) /\ BuiltIsNewer(s)

\* As long as the sources are at the versions the marker was kept for, the browser shows them.
NothingIsSwallowed ==
    \A s \in Sources : stream.previous[s] = content[s] => stream.view[s] = content[s]

ViewMovesOn == \A s \in Sources : stream.view[s] <= stream'.view[s]

(* One source read, into the marker or into the state.                       *)
LEMMA ReadsAreTyped ==
    ASSUME NEW b \in Browser, NEW p \in {"marker", "compare", "build", "send", "wait"},
           NEW l \in SUBSET Sources, NEW v \in Versions
    PROVE  /\ [b EXCEPT !.left = l, !.current = v, !.pc = p] \in Browser
           /\ [b EXCEPT !.left = l, !.built = v, !.pc = p] \in Browser
BY DEF Browser

(* A step of the thread or of a source keeps the order of what was read, and *)
(* never shows the browser less than it has seen.                            *)
LEMMA BrowserStep ==
    ASSUME BrowserInv, [StreamNext]_streamVars
    PROVE  BrowserInv' /\ ViewMovesOn
<1> USE DEF BrowserInv, BrowserTyped, Versions
<1>0. /\ content \in [Sources -> Nat]
      /\ stream.pc \in {"marker", "compare", "build", "send", "wait"}
      /\ stream.left \subseteq Sources /\ stream.signal \in BOOLEAN
      /\ stream.current \in [Sources -> Nat] /\ stream.previous \in [Sources -> Nat]
      /\ stream.built \in [Sources -> Nat] /\ stream.view \in [Sources -> Nat]
      /\ stream \in Browser
  BY DEF Browser
<1>1. ASSUME NEW c \in Sources, Change(c)
      PROVE  BrowserInv' /\ ViewMovesOn
  <2>1. content' \in [Sources -> Nat] /\ \A s \in Sources : content[s] <= content'[s]
    BY <1>0, <1>1 DEF Change
  <2>2. /\ stream' \in Browser
        /\ stream'.pc = stream.pc /\ stream'.left = stream.left
        /\ stream'.current = stream.current /\ stream'.previous = stream.previous
        /\ stream'.built = stream.built /\ stream'.view = stream.view
    BY <1>0, <1>1 DEF Change, Browser
  <2>3. ASSUME NEW s \in Sources
        PROVE  KeptIsOldest(s)' /\ BuiltIsNewer(s)' /\ stream.view[s] <= stream'.view[s]
    BY <1>0, <2>1, <2>2, <2>3 DEF KeptIsOldest, BuiltIsNewer
  <2> QED
    BY <2>1, <2>2, <2>3 DEF ViewMovesOn
<1>2. ASSUME compute_state_stream_change_marker
      PROVE  BrowserInv' /\ ViewMovesOn
  <2>1. PICK c \in stream.left :
          stream' = [stream EXCEPT !.left = @ \ {c}, !.current[c] = content[c],
                                   !.pc = IF stream.left = {c} THEN "compare" ELSE "marker"]
    BY <1>2 DEF compute_state_stream_change_marker
  <2>2. /\ stream'.pc \in {"compare", "marker"}
        /\ stream'.left = stream.left \ {c} /\ stream'.signal = stream.signal
        /\ content' = content
    BY <1>0, <1>2, <2>1 DEF compute_state_stream_change_marker, Browser
  <2>3. /\ stream'.current = [stream.current EXCEPT ![c] = content[c]]
        /\ stream'.previous = stream.previous
        /\ stream'.built = stream.built /\ stream'.view = stream.view
    BY <1>0, <2>1 DEF Browser
  <2>4. stream' \in Browser
    <3> DEFINE v == [stream.current EXCEPT ![c] = content[c]]
               p == IF stream.left = {c} THEN "compare" ELSE "marker"
    <3>1. v \in Versions /\ stream.left \ {c} \in SUBSET Sources
      BY <1>0
    <3>2. stream' = [stream EXCEPT !.left = stream.left \ {c}, !.current = v, !.pc = p]
      BY <2>1
    <3>3. p \in {"marker", "compare", "build", "send", "wait"}
      OBVIOUS
    <3> HIDE DEF v, p, Versions
    <3> QED
      BY <1>0, <3>1, <3>2, <3>3, ReadsAreTyped
  <2>5. ASSUME NEW s \in Sources
        PROVE  KeptIsOldest(s)' /\ BuiltIsNewer(s)' /\ stream.view[s] <= stream'.view[s]
    BY <1>0, <2>2, <2>3, <2>5 DEF KeptIsOldest, BuiltIsNewer
  <2> QED
    BY <2>2, <2>4, <2>5 DEF ViewMovesOn
<1>3. ASSUME Compare
      PROVE  BrowserInv' /\ ViewMovesOn
  <2>1. /\ stream' \in Browser /\ content' = content
        /\ (stream'.pc = "build" /\ stream'.left = Sources) \/ stream'.pc = "wait"
        /\ stream'.current = stream.current /\ stream'.previous = stream.previous
        /\ stream'.built = stream.built /\ stream'.view = stream.view
    BY <1>0, <1>3 DEF Compare, Browser
  <2>2. ASSUME NEW s \in Sources
        PROVE  KeptIsOldest(s)' /\ BuiltIsNewer(s)' /\ stream.view[s] <= stream'.view[s]
    BY <1>0, <2>1, <2>2 DEF KeptIsOldest, BuiltIsNewer
  <2> QED
    BY <2>1, <2>2 DEF ViewMovesOn
<1>4. ASSUME make_ui_state
      PROVE  BrowserInv' /\ ViewMovesOn
  <2>1. PICK c \in stream.left :
          stream' = [stream EXCEPT !.left = @ \ {c}, !.built[c] = content[c],
                                   !.pc = IF stream.left = {c} THEN "send" ELSE "build"]
    BY <1>4 DEF make_ui_state
  <2>2. /\ content' = content /\ stream.pc = "build" /\ stream'.signal = stream.signal
        /\ stream'.pc = (IF stream.left = {c} THEN "send" ELSE "build")
        /\ stream'.left = stream.left \ {c}
        /\ stream'.built = [stream.built EXCEPT ![c] = content[c]]
        /\ stream'.current = stream.current /\ stream'.previous = stream.previous
        /\ stream'.view = stream.view
    BY <1>0, <1>4, <2>1 DEF make_ui_state, Browser
  <2>4. stream' \in Browser
    <3> DEFINE v == [stream.built EXCEPT ![c] = content[c]]
               p == IF stream.left = {c} THEN "send" ELSE "build"
    <3>1. v \in Versions /\ stream.left \ {c} \in SUBSET Sources
      BY <1>0
    <3>2. stream' = [stream EXCEPT !.left = stream.left \ {c}, !.built = v, !.pc = p]
      BY <2>1
    <3>3. p \in {"marker", "compare", "build", "send", "wait"}
      OBVIOUS
    <3> HIDE DEF v, p, Versions
    <3> QED
      BY <1>0, <3>1, <3>2, <3>3, ReadsAreTyped
  <2>3. ASSUME NEW s \in Sources
        PROVE  KeptIsOldest(s)' /\ BuiltIsNewer(s)' /\ stream.view[s] <= stream'.view[s]
    <3>1. CASE s = c
      BY <1>0, <2>2, <2>3, <3>1 DEF KeptIsOldest, BuiltIsNewer
    <3>2. CASE s # c
      <4>1. s \notin stream'.left \/ stream'.pc = "send" => s \notin stream.left
        BY <2>2, <3>2
      <4> QED
        BY <1>0, <2>2, <2>3, <3>2, <4>1 DEF KeptIsOldest, BuiltIsNewer
    <3> QED
      BY <3>1, <3>2
  <2> QED
    BY <2>2, <2>3, <2>4 DEF ViewMovesOn
<1>5. ASSUME Send
      PROVE  BrowserInv' /\ ViewMovesOn
  <2>1. /\ stream' \in Browser /\ content' = content /\ stream.pc = "send" /\ stream'.pc = "wait"
        /\ stream'.current = stream.current /\ stream'.previous = stream.current
        /\ stream'.built = stream.built /\ stream'.view = stream.built
    BY <1>0, <1>5 DEF Send, Browser
  <2>2. ASSUME NEW s \in Sources
        PROVE  KeptIsOldest(s)' /\ BuiltIsNewer(s)' /\ stream.view[s] <= stream'.view[s]
    BY <1>0, <2>1, <2>2 DEF KeptIsOldest, BuiltIsNewer
  <2> QED
    BY <2>1, <2>2 DEF ViewMovesOn
<1>6. ASSUME wait_for_change
      PROVE  BrowserInv' /\ ViewMovesOn
  <2>1. PICK woken \in {stream.signal, FALSE} :
          stream' = [stream EXCEPT !.pc = "marker", !.signal = @ /\ ~woken]
    BY <1>6 DEF wait_for_change
  <2>2. /\ stream' \in Browser /\ content' = content /\ stream'.pc = "marker"
        /\ stream'.current = stream.current /\ stream'.previous = stream.previous
        /\ stream'.built = stream.built /\ stream'.view = stream.view
    BY <1>0, <1>6, <2>1 DEF wait_for_change, Browser
  <2>3. ASSUME NEW s \in Sources
        PROVE  KeptIsOldest(s)' /\ BuiltIsNewer(s)' /\ stream.view[s] <= stream'.view[s]
    BY <1>0, <2>2, <2>3 DEF KeptIsOldest, BuiltIsNewer
  <2> QED
    BY <2>2, <2>3 DEF ViewMovesOn
<1>7. CASE UNCHANGED streamVars
  BY <1>0, <1>7 DEF streamVars, KeptIsOldest, BuiltIsNewer, ViewMovesOn
<1> QED
  BY <1>1, <1>2, <1>3, <1>4, <1>5, <1>6, <1>7 DEF StreamNext, Stream

LEMMA BrowserIsBehind == BrowserSpec => []BrowserInv
<1>1. StreamInit => BrowserInv
  BY DEF StreamInit, Unread, BrowserInv, BrowserTyped, Versions, Browser, KeptIsOldest, BuiltIsNewer
<1>2. BrowserInv /\ [StreamNext]_streamVars => BrowserInv'
  BY BrowserStep
<1> QED
  BY <1>1, <1>2, PTL DEF BrowserSpec

(* stream_state_sse never takes a state the browser has not seen for one it  *)
(* has: while the sources are what the marker was kept for, the browser shows *)
(* them, though each was read at a moment of its own and may have changed     *)
(* between the marker and the state.                                         *)
THEOREM NoChangeIsSwallowed == BrowserSpec => []NothingIsSwallowed
<1>1. BrowserInv => NothingIsSwallowed
  BY DEF BrowserInv, BrowserTyped, Versions, Browser, KeptIsOldest, NothingIsSwallowed
<1> QED
  BY <1>1, BrowserIsBehind, PTL

(* No state a browser is sent is older, in any source, than the one before.  *)
THEOREM ViewsNeverGoBack == BrowserSpec => [][ViewMovesOn]_streamVars
<1>1. BrowserInv /\ [StreamNext]_streamVars => [ViewMovesOn]_streamVars
  BY BrowserStep
<1> QED
  BY <1>1, BrowserIsBehind, PTL DEF BrowserSpec

-----------------------------------------------------------------------------
(* The writer of the two recorders.                                        *)

\* What a program may queue: rows of its streams, each stream with the files
\* that carry its name.
IsRows(R) ==
    /\ Header \notin R
    /\ \A r \in R : r.n \in Nat /\ r.stream \in Streams /\ r.header \in BOOLEAN
                    /\ r.file[2] = r.stream

WriterTyped(R) ==
    /\ queue \in [pending : Seq(R), accepted : Seq(R)]
    /\ writer \in [pc : {"waiting", "writing", "failing", "failed", "exited"}, batch : Seq(R),
                   stop : BOOLEAN, open : [Streams -> {r.file : r \in R} \union {NoFile}]]
    /\ stopping \in [writer : BOOLEAN, program : BOOLEAN, fatal : BOOLEAN, code : 0 .. 1]
    /\ files \in [Files -> [rows : Seq(R \union {Header}), flushed : Nat]]
    /\ \A f \in Files : files[f].flushed <= Len(files[f].rows)

\* How many rows have been written: the others are in the batch, then in the
\* queue, as they came.
Written == Len(queue.accepted) - Len(queue.pending) - Len(writer.batch)

Numbered == \A m \in 1 .. Len(queue.accepted) : queue.accepted[m].n = m

InLine ==
    /\ Written \in Nat
    /\ \A i \in 1 .. Len(writer.batch) : writer.batch[i] = queue.accepted[Written + i]
    /\ \A i \in 1 .. Len(queue.pending) :
           queue.pending[i] = queue.accepted[Written + Len(writer.batch) + i]
    /\ writer.pc = "waiting" => writer.batch = <<>>

\* Lines are headers, rows of an earlier process or written rows of the file.
Filed(f, lines) ==
    \A i \in 1 .. Len(lines) : lines[i] # Header =>
        /\ lines[i].file = f
        /\ lines[i].n # 0 => lines[i].n <= Written /\ lines[i] = queue.accepted[lines[i].n]

Rising(lines) ==
    \A i, j \in 1 .. Len(lines) :
        i < j /\ lines[i] # Header /\ lines[j] # Header => lines[i].n < lines[j].n

Complete(f, lines) ==
    \A m \in 1 .. Written : queue.accepted[m].file = f =>
        \E i \in 1 .. Len(lines) : lines[i] = queue.accepted[m]

Headed(lines) ==
    \A i \in 1 .. Len(lines) :
        IF i = 1 THEN lines[i] # Header => ~lines[i].header ELSE lines[i] # Header

FileIsRight(f, lines) == Filed(f, lines) /\ Rising(lines) /\ Complete(f, lines) /\ Headed(lines)

\* A file nobody has open is on disk, one that is open has been written to.
OpenIsTrue ==
    /\ \A s \in Streams : writer.open[s] # NoFile => writer.open[s][2] = s
    /\ \A f \in Files : IF f \in OpenFiles THEN Len(files[f].rows) > 0
                                          ELSE files[f].flushed = Len(files[f].rows)

EndIsOrderly ==
    writer.pc = "exited" =>
        queue.pending = <<>> /\ writer.batch = <<>> /\ OpenFiles = {} /\ stopping.writer

WriterInv(R) ==
    /\ WriterTyped(R)
    /\ Numbered
    /\ InLine
    /\ \A f \in Files : FileIsRight(f, files[f].rows)
    /\ OpenIsTrue
    /\ EndIsOrderly

-----------------------------------------------------------------------------

Joined(R, lines, row, new) ==
    /\ new \in Seq(R \union {Header})
    /\ \A i \in 1 .. Len(lines) + 1 : new[i] = IF i <= Len(lines) THEN lines[i] ELSE row
    /\ Len(new) = Len(lines) + 1
    /\ Rising(new)
    /\ Headed(new)

\* The lines of a file and the row that joins them.
LEMMA LineJoins ==
    ASSUME NEW R, IsRows(R), NEW f, NEW lines \in Seq(R \union {Header}), NEW row \in R,
           FileIsRight(f, lines), Numbered, InLine, WriterTyped(R),
           row.file = f, row.n = Written + 1, Written + 1 <= Len(queue.accepted),
           queue.accepted[Written + 1] = row,
           lines = <<>> => ~row.header, NEW new, new = Append(lines, row)
    PROVE  Joined(R, lines, row, new)
<1>1. /\ new \in Seq(R \union {Header}) /\ Len(new) = Len(lines) + 1 /\ Len(lines) \in Nat
      /\ \A i \in 1 .. Len(lines) + 1 : new[i] = IF i <= Len(lines) THEN lines[i] ELSE row
  OBVIOUS
<1>2. \A i \in 1 .. Len(lines) : lines[i] # Header => lines[i].n \in Nat /\ lines[i].n < row.n
  <2> SUFFICES ASSUME NEW i \in 1 .. Len(lines), lines[i] # Header
               PROVE  lines[i].n \in Nat /\ lines[i].n < row.n
    OBVIOUS
  <2>1. lines[i] \in R
    OBVIOUS
  <2>2. lines[i].n \in Nat
    BY <2>1 DEF IsRows
  <2>3. lines[i].n # 0 => lines[i].n <= Written
    BY DEF FileIsRight, Filed
  <2>4. Written \in Nat
    BY DEF InLine
  <2> QED
    BY <2>2, <2>3, <2>4
<1>3. row # Header
  BY DEF IsRows
<1>4. Rising(new)
  <2> SUFFICES ASSUME NEW i \in 1 .. Len(new), NEW j \in 1 .. Len(new), i < j,
                      new[i] # Header, new[j] # Header
               PROVE  new[i].n < new[j].n
    BY DEF Rising
  <2>1. i \in 1 .. Len(lines) /\ new[i] = lines[i]
    BY <1>1
  <2>2. CASE j = Len(lines) + 1
    <3>1. new[j] = row
      BY <1>1, <2>2
    <3> QED
      BY <1>2, <2>1, <3>1
  <2>3. CASE j # Len(lines) + 1
    <3>1. j \in 1 .. Len(lines) /\ new[j] = lines[j]
      BY <1>1, <2>3
    <3> QED
      BY <2>1, <3>1 DEF FileIsRight, Rising
  <2> QED
    BY <2>2, <2>3
<1>5. Headed(new)
  <2> SUFFICES ASSUME NEW i \in 1 .. Len(new)
               PROVE  IF i = 1 THEN new[i] # Header => ~new[i].header ELSE new[i] # Header
    BY DEF Headed
  <2>1. CASE i \in 1 .. Len(lines)
    <3>1. new[i] = lines[i]
      BY <1>1, <2>1
    <3> QED
      BY <2>1, <3>1 DEF FileIsRight, Headed
  <2>2. CASE i = Len(lines) + 1
    <3>1. new[i] = row
      BY <1>1, <2>2
    <3>2. i = 1 => lines = <<>>
      BY <2>2
    <3> QED
      BY <1>3, <3>1, <3>2
  <2> QED
    BY <1>1, <2>1, <2>2
<1> QED
  BY <1>1, <1>4, <1>5 DEF Joined

\* Lines stay right while nothing is written.
LEMMA LinesStayRight ==
    ASSUME NEW f, NEW lines, FileIsRight(f, lines),
           queue.accepted' = queue.accepted, Written' = Written
    PROVE  FileIsRight(f, lines)'
BY DEF FileIsRight, Filed, Rising, Complete, Headed

LEMMA MarkMoves ==
    ASSUME NEW r, NEW l, NEW m, NEW n, r = [rows |-> l, flushed |-> m]
    PROVE  [r EXCEPT !.flushed = n] = [rows |-> l, flushed |-> n]
OBVIOUS

FlushedTo(R, names, new) ==
    /\ new \in [Files -> [rows : Seq(R \union {Header}), flushed : Nat]]
    /\ \A f \in Files : new[f].rows = files[f].rows
    /\ \A f \in Files : new[f].flushed \in {files[f].flushed, Len(files[f].rows)}
    /\ \A f \in Files : f \in names => new[f].flushed = Len(files[f].rows)

\* Flushing changes no line.
LEMMA FlushingKeeps ==
    ASSUME NEW R, WriterTyped(R), NEW names, NEW new, new = Flushed(files, names)
    PROVE  FlushedTo(R, names, new)
<1>1. ASSUME NEW f \in Files
      PROVE  /\ new[f] \in [rows : Seq(R \union {Header}), flushed : Nat]
             /\ new[f].rows = files[f].rows
             /\ new[f].flushed \in {files[f].flushed, Len(files[f].rows)}
             /\ f \in names => new[f].flushed = Len(files[f].rows)
  <2>1. PICK r : r = files[f]
    OBVIOUS
  <2>2. r \in [rows : Seq(R \union {Header}), flushed : Nat] /\ Len(r.rows) \in Nat
    BY <2>1 DEF WriterTyped
  <2>3. r = [rows |-> r.rows, flushed |-> r.flushed]
    BY <2>2
  <2>4. [r EXCEPT !.flushed = Len(r.rows)] = [rows |-> r.rows, flushed |-> Len(r.rows)]
    BY <2>3, MarkMoves
  <2>5. new[f] = IF f \in names THEN [r EXCEPT !.flushed = Len(r.rows)] ELSE r
    BY <2>1 DEF Flushed
  <2>6. CASE f \in names
    BY <2>1, <2>2, <2>4, <2>5, <2>6
  <2>7. CASE f \notin names
    BY <2>1, <2>2, <2>5, <2>7
  <2> QED
    BY <2>6, <2>7
<1>2. new = [f \in Files |-> new[f]]
  BY DEF Flushed
<1> QED
  BY <1>1, <1>2 DEF FlushedTo

\* A step that writes no line: the files, the order of the rows and the
\* streams follow from what it does to the rest.
LEMMA NothingWritten ==
    ASSUME NEW R, WriterInv(R), WriterTyped(R)', EndIsOrderly',
           queue.accepted' = queue.accepted, InLine', Written' = Written,
           \A f \in Files : files'[f].rows = files[f].rows,
           OpenIsTrue'
    PROVE  WriterInv(R)'
<1>1. Numbered'
  BY DEF WriterInv, Numbered
<1>2. ASSUME NEW f \in Files PROVE FileIsRight(f, files[f].rows)'
  <2>1. PICK lines : lines = files[f].rows
    OBVIOUS
  <2>2. FileIsRight(f, lines)'
    BY <2>1, LinesStayRight DEF WriterInv
  <2>3. lines = files'[f].rows
    BY <2>1
  <2> QED
    BY <2>2, <2>3
<1> QED
  BY <1>1, <1>2 DEF WriterInv

\* The round's rows are taken from the queue.
LEMMA BatchTaken ==
    ASSUME NEW R, WriterInv(R), TakeBatch
    PROVE  WriterInv(R)'
<1>1. /\ queue' = [queue EXCEPT !.pending = <<>>]
      /\ writer' = [writer EXCEPT !.pc = "writing", !.batch = queue.pending,
                                  !.stop = stopping.writer]
      /\ UNCHANGED <<stopping, files>> /\ writer.pc = "waiting" /\ writer.batch = <<>>
  BY DEF TakeBatch, WriterInv, InLine
<1>2. /\ queue.pending \in Seq(R) /\ queue.accepted \in Seq(R) /\ stopping.writer \in BOOLEAN
  BY DEF WriterInv, WriterTyped
<1>3. WriterTyped(R)'
  BY <1>1, <1>2 DEF WriterInv, WriterTyped
<1>4. /\ queue'.accepted = queue.accepted /\ queue'.pending = <<>>
      /\ writer'.batch = queue.pending /\ writer'.pc = "writing" /\ writer'.open = writer.open
  BY <1>1 DEF WriterInv, WriterTyped
<1>5. Written' = Written /\ Written' \in Nat
  BY <1>1, <1>2, <1>4 DEF WriterInv, InLine, Written
<1>6. InLine'
  <2>1. \A i \in 1 .. Len(writer'.batch) : writer'.batch[i] = queue'.accepted[Written' + i]
    <3>1. \A i \in 1 .. Len(queue.pending) :
             queue.pending[i] = queue.accepted[Written + Len(writer.batch) + i]
      BY DEF WriterInv, InLine
    <3>2. Len(writer.batch) = 0
      BY <1>1
    <3> QED
      BY <1>4, <1>5, <3>1, <3>2
  <2> QED
    BY <1>4, <1>5, <2>1 DEF InLine
<1>7. OpenIsTrue'
  BY <1>1, <1>4 DEF WriterInv, OpenIsTrue, OpenFiles
<1> QED
  BY <1>1, <1>3, <1>4, <1>5, <1>6, <1>7, NothingWritten DEF EndIsOrderly

\* Steps that only flush, and let go of the streams when the thread ends.
LEMMA FlushedOnly ==
    ASSUME NEW R, WriterInv(R),
           NEW names \in {{}, OpenFiles}, NEW pc \in {"waiting", "failing", "exited"},
           files' = Flushed(files, names),
           \/ writer' = [writer EXCEPT !.pc = pc]
           \/ names = OpenFiles
              /\ writer' = [writer EXCEPT !.pc = pc, !.open = [s \in Streams |-> NoFile]],
           UNCHANGED queue, stopping' = [stopping EXCEPT !.fatal = stopping'.fatal],
           stopping'.fatal \in BOOLEAN,
           pc = "waiting" => writer.batch = <<>>,
           pc = "exited" => /\ queue.pending = <<>> /\ writer.batch = <<>> /\ stopping.writer
                            /\ writer'.open = [s \in Streams |-> NoFile]
    PROVE  WriterInv(R)'
<1>0. WriterTyped(R)
  BY DEF WriterInv
<1>1. /\ files' \in [Files -> [rows : Seq(R \union {Header}), flushed : Nat]]
      /\ \A f \in Files : files'[f].rows = files[f].rows
      /\ \A f \in Files : files'[f].flushed \in {files[f].flushed, Len(files[f].rows)}
      /\ \A f \in Files : f \in names => files'[f].flushed = Len(files[f].rows)
  <2>1. PICK new : new = Flushed(files, names)
    OBVIOUS
  <2>2. FlushedTo(R, names, new)
    BY <1>0, <2>1, FlushingKeeps
  <2> QED
    BY <2>1, <2>2 DEF FlushedTo
<1>2. /\ writer'.batch = writer.batch /\ writer'.pc = pc
      /\ \/ writer'.open = writer.open
         \/ writer'.open = [s \in Streams |-> NoFile] /\ names = OpenFiles
  BY <1>0 DEF WriterTyped
<1>3. stopping'.writer = stopping.writer
  BY <1>0 DEF WriterTyped
<1>4. WriterTyped(R)'
  <2>1. [s \in Streams |-> NoFile] \in [Streams -> {r.file : r \in R} \union {NoFile}]
    OBVIOUS
  <2>2. writer' \in [pc : {"waiting", "writing", "failing", "failed", "exited"}, batch : Seq(R),
                     stop : BOOLEAN, open : [Streams -> {r.file : r \in R} \union {NoFile}]]
    BY <1>0, <2>1 DEF WriterTyped
  <2>3. stopping' \in [writer : BOOLEAN, program : BOOLEAN, fatal : BOOLEAN, code : 0 .. 1]
    BY <1>0 DEF WriterTyped
  <2>4. \A f \in Files : files'[f].flushed <= Len(files'[f].rows)
    <3> SUFFICES ASSUME NEW f \in Files PROVE files'[f].flushed <= Len(files'[f].rows)
      OBVIOUS
    <3>1. files[f].flushed <= Len(files[f].rows) /\ Len(files[f].rows) \in Nat
      BY <1>0 DEF WriterTyped
    <3> QED
      BY <1>1, <3>1
  <2> QED
    BY <1>0, <1>1, <2>2, <2>3, <2>4 DEF WriterTyped
<1>5. Written' = Written
  BY <1>2 DEF Written
<1>6. InLine'
  BY <1>2, <1>5 DEF WriterInv, InLine
<1>7. OpenIsTrue'
  <2>1. CASE writer'.open = writer.open
    <3>1. OpenFiles' = OpenFiles
      BY <2>1 DEF OpenFiles
    <3>2. ASSUME NEW f \in Files
          PROVE  IF f \in OpenFiles' THEN Len(files'[f].rows) > 0
                                    ELSE files'[f].flushed = Len(files'[f].rows)
      <4>1. IF f \in OpenFiles THEN Len(files[f].rows) > 0
                               ELSE files[f].flushed = Len(files[f].rows)
        BY DEF WriterInv, OpenIsTrue
      <4> QED
        BY <1>1, <3>1, <4>1
    <3> QED
      BY <2>1, <3>2 DEF WriterInv, OpenIsTrue
  <2>2. CASE writer'.open = [s \in Streams |-> NoFile] /\ names = OpenFiles
    <3>1. OpenFiles' = {}
      BY <2>2 DEF OpenFiles
    <3>2. ASSUME NEW f \in Files PROVE files'[f].flushed = Len(files'[f].rows)
      <4>1. IF f \in OpenFiles THEN Len(files[f].rows) > 0
                               ELSE files[f].flushed = Len(files[f].rows)
        BY DEF WriterInv, OpenIsTrue
      <4> QED
        BY <1>1, <2>2, <4>1
    <3> QED
      BY <2>2, <3>1, <3>2 DEF OpenIsTrue
  <2> QED
    BY <1>2, <2>1, <2>2
<1>8. EndIsOrderly'
  <2> SUFFICES ASSUME pc = "exited" PROVE EndIsOrderly'
    BY <1>2 DEF EndIsOrderly
  <2>1. OpenFiles' = {}
    BY DEF OpenFiles
  <2> QED
    BY <1>2, <1>3, <2>1 DEF EndIsOrderly
<1> QED
  BY <1>1, <1>4, <1>5, <1>6, <1>7, <1>8, NothingWritten

\* The flags of a stop never take a stop of the writer back.
LEMMA FlagsOnly ==
    ASSUME NEW R, WriterInv(R), UNCHANGED <<queue, files>>,
           writer' \in {writer, [writer EXCEPT !.pc = "failed"]},
           stopping' \in [writer : BOOLEAN, program : BOOLEAN, fatal : BOOLEAN, code : 0 .. 1],
           stopping.writer => stopping'.writer
    PROVE  WriterInv(R)'
<1>0. WriterTyped(R)
  BY DEF WriterInv
<1>1. /\ writer'.batch = writer.batch /\ writer'.open = writer.open
      /\ writer'.pc \in {writer.pc, "failed"}
  BY <1>0 DEF WriterTyped
<1>2. WriterTyped(R)'
  BY <1>0 DEF WriterTyped
<1>3. Written' = Written
  BY <1>1 DEF Written
<1>4. InLine'
  BY <1>1, <1>3 DEF WriterInv, InLine
<1>5. OpenFiles' = OpenFiles
  BY <1>1 DEF OpenFiles
<1>6. OpenIsTrue' /\ EndIsOrderly'
  BY <1>1, <1>5 DEF WriterInv, OpenIsTrue, EndIsOrderly
<1> QED
  BY <1>2, <1>3, <1>4, <1>6, NothingWritten

\* The callback's push.
LEMMA RowPushed ==
    ASSUME NEW R, IsRows(R), WriterInv(R), NEW row \in R, row.n = Len(queue.accepted) + 1, Push(row),
           UNCHANGED <<writer, stopping, files>>, writer.pc # "exited"
    PROVE  WriterInv(R)'
<1>0. WriterTyped(R)
  BY DEF WriterInv
<1>1. PICK a : a = queue.accepted
  OBVIOUS
<1>2. PICK p : p = queue.pending
  OBVIOUS
<1>3. PICK b : b = writer.batch
  OBVIOUS
<1>12. PICK a1 : a1 = Append(a, row)
  OBVIOUS
<1>13. PICK p1 : p1 = Append(p, row)
  OBVIOUS
<1>4. /\ a \in Seq(R) /\ p \in Seq(R) /\ b \in Seq(R)
      /\ queue'.accepted = a1 /\ queue'.pending = p1 /\ writer'.batch = b
  BY <1>0, <1>1, <1>2, <1>3, <1>12, <1>13 DEF WriterTyped, Push
<1>5. /\ Len(a) \in Nat /\ Len(p) \in Nat /\ Len(b) \in Nat
      /\ Len(a1) = Len(a) + 1 /\ Len(p1) = Len(p) + 1
      /\ \A i \in 1 .. Len(a) : a1[i] = a[i]
      /\ \A i \in 1 .. Len(p) : p1[i] = p[i]
      /\ a1[Len(a) + 1] = row /\ p1[Len(p) + 1] = row
      /\ a1 \in Seq(R) /\ p1 \in Seq(R)
  BY <1>4, <1>12, <1>13
<1>6. Written' = Written /\ Written = Len(a) - Len(p) - Len(b) /\ Written \in Nat
  <2>1. Written = Len(a) - Len(p) - Len(b)
    BY <1>1, <1>2, <1>3 DEF Written
  <2>2. Written' = Len(a) + 1 - (Len(p) + 1) - Len(b)
    BY <1>4, <1>5 DEF Written
  <2>3. Written \in Nat
    BY DEF WriterInv, InLine
  <2> QED
    BY <1>5, <2>1, <2>2, <2>3
<1>7. WriterTyped(R)'
  BY <1>0, <1>4, <1>5, <1>12, <1>13, <1>1, <1>2 DEF WriterTyped, Push
<1>8. Numbered'
  <2> SUFFICES ASSUME NEW m \in 1 .. Len(a) + 1 PROVE a1[m].n = m
    BY <1>4, <1>5 DEF Numbered
  <2>1. CASE m \in 1 .. Len(a)
    BY <1>1, <1>5, <2>1 DEF WriterInv, Numbered
  <2>2. CASE m = Len(a) + 1
    BY <1>1, <1>5, <2>2
  <2> QED
    BY <1>5, <2>1, <2>2
<1>9. InLine'
  <2>1. \A i \in 1 .. Len(b) : b[i] = a1[Written + i]
    <3> SUFFICES ASSUME NEW i \in 1 .. Len(b) PROVE b[i] = a1[Written + i]
      OBVIOUS
    <3>1. b[i] = a[Written + i]
      BY <1>1, <1>3 DEF WriterInv, InLine
    <3>2. Written + i \in 1 .. Len(a)
      BY <1>5, <1>6
    <3> QED
      BY <1>5, <3>1, <3>2
  <2>2. \A i \in 1 .. Len(p) + 1 : p1[i] = a1[Written + Len(b) + i]
    <3> SUFFICES ASSUME NEW i \in 1 .. Len(p) + 1
                 PROVE  p1[i] = a1[Written + Len(b) + i]
      OBVIOUS
    <3>1. CASE i \in 1 .. Len(p)
      <4>1. p[i] = a[Written + Len(b) + i]
        BY <1>1, <1>2, <1>3, <3>1 DEF WriterInv, InLine
      <4>2. Written + Len(b) + i \in 1 .. Len(a)
        BY <1>5, <1>6, <3>1
      <4> QED
        BY <1>5, <3>1, <4>1, <4>2
    <3>2. CASE i = Len(p) + 1
      <4>1. Written + Len(b) + i = Len(a) + 1
        BY <1>5, <1>6, <3>2
      <4>2. p1[i] = row
        BY <1>5, <3>2
      <4> QED
        BY <1>5, <4>1, <4>2
    <3> QED
      BY <1>5, <3>1, <3>2
  <2>3. writer.pc = "waiting" => b = <<>>
    BY <1>3 DEF WriterInv, InLine
  <2>4. Written' = Written /\ writer'.pc = writer.pc /\ Len(p1) = Len(p) + 1
    BY <1>5, <1>6
  <2>5. /\ \A i \in 1 .. Len(writer'.batch) : writer'.batch[i] = queue'.accepted[Written' + i]
        /\ \A i \in 1 .. Len(queue'.pending) :
              queue'.pending[i] = queue'.accepted[Written' + Len(writer'.batch) + i]
    BY <1>4, <2>1, <2>2, <2>4
  <2> QED
    BY <1>4, <1>6, <2>3, <2>4, <2>5 DEF InLine
<1>10. ASSUME NEW f \in Files PROVE FileIsRight(f, files[f].rows)'
  <2>1. PICK lines : lines = files[f].rows
    OBVIOUS
  <2>2. FileIsRight(f, lines) /\ lines = files'[f].rows /\ lines \in Seq(R \union {Header})
    BY <1>0, <2>1 DEF WriterInv, WriterTyped
  <2>3. Filed(f, lines)'
    <3> SUFFICES ASSUME NEW i \in 1 .. Len(lines), lines[i] # Header
                 PROVE  /\ lines[i].file = f
                        /\ lines[i].n # 0 => /\ lines[i].n <= Written
                                             /\ lines[i] = a1[lines[i].n]
      BY <1>4, <1>6 DEF Filed
    <3>1. /\ lines[i].file = f
          /\ lines[i].n # 0 => lines[i].n <= Written /\ lines[i] = a[lines[i].n]
      BY <1>1, <2>2 DEF FileIsRight, Filed
    <3>2. CASE lines[i].n \in 1 .. Len(a)
      BY <1>5, <3>1, <3>2
    <3>3. lines[i].n \in Nat /\ Written <= Len(a)
      <4>1. lines[i] \in R
        BY <2>2
      <4> QED
        BY <1>5, <1>6, <4>1 DEF IsRows
    <3>4. CASE lines[i].n = 0
      BY <3>1, <3>4
    <3> QED
      <4>1. lines[i].n # 0 => lines[i].n \in 1 .. Len(a)
        BY <1>5, <1>6, <3>1, <3>3
      <4> QED
        BY <3>2, <3>4, <4>1
  <2>4. Complete(f, lines)'
    <3> SUFFICES ASSUME NEW m \in 1 .. Written, a1[m].file = f
                 PROVE  \E i \in 1 .. Len(lines) : lines[i] = a1[m]
      BY <1>4, <1>6 DEF Complete
    <3>1. m \in 1 .. Len(a) /\ a1[m] = a[m]
      <4>1. Written <= Len(a)
        BY <1>5, <1>6
      <4>2. m \in 1 .. Len(a)
        BY <1>5, <1>6, <4>1
      <4> QED
        BY <1>5, <4>2
    <3> QED
      BY <1>1, <2>2, <3>1 DEF FileIsRight, Complete
  <2>5. FileIsRight(f, lines)'
    BY <2>2, <2>3, <2>4 DEF FileIsRight, Rising, Headed
  <2> QED
    BY <2>2, <2>5
<1>11. OpenIsTrue' /\ EndIsOrderly'
  BY DEF WriterInv, OpenIsTrue, EndIsOrderly, OpenFiles
<1> QED
  BY <1>7, <1>8, <1>9, <1>10, <1>11 DEF WriterInv

OpenedRight(R, row, base) ==
    /\ base \in [Files -> [rows : Seq(R \union {Header}), flushed : Nat]]
    /\ \A f \in Files \ {row.file} :
          /\ base[f].rows = files[f].rows
          /\ base[f].flushed \in {files[f].flushed, Len(files[f].rows)}
          /\ f = writer.open[row.stream] => base[f].flushed = Len(files[f].rows)
    /\ row.file \in Files =>
          /\ base[row.file].flushed <= Len(base[row.file].rows)
          /\ FileIsRight(row.file, base[row.file].rows)
          /\ base[row.file].rows = <<>> => ~row.header

LEMMA LinesTyped ==
    ASSUME NEW R, WriterTyped(R), NEW f \in Files
    PROVE  /\ files[f].rows \in Seq(R \union {Header}) /\ files[f].flushed \in Nat
           /\ Len(files[f].rows) \in Nat /\ files[f].flushed <= Len(files[f].rows)
BY DEF WriterTyped

\* A stream that opens a file finds it as the last one left it, with a header
\* if it has one, and leaves the file it had open on disk.
LEMMA StreamOpens ==
    ASSUME NEW R, IsRows(R), WriterInv(R), NEW row \in R, NEW base, base = Opened(row)
    PROVE  OpenedRight(R, row, base)
<1>0. WriterTyped(R)
  BY DEF WriterInv
<1>1. PICK old : old = writer.open[row.stream]
  OBVIOUS
<1>2. PICK name : name = row.file
  OBVIOUS
<1>3. PICK closed : closed = Flushed(files, {old} \ {NoFile})
  OBVIOUS
<1>4. FlushedTo(R, {old} \ {NoFile}, closed)
  BY <1>0, <1>3, FlushingKeeps
<1>5. base = IF old = name THEN files
             ELSE IF row.header /\ closed[name].flushed = 0
                  THEN [closed EXCEPT ![name].rows = Append(@, Header)] ELSE closed
  BY <1>1, <1>2, <1>3 DEF Opened
<1>6. CASE old = name
  <2>1. base = files
    BY <1>5, <1>6
  <2>2. name \in Files => name \in OpenFiles
    <3>1. row.stream \in Streams
      BY DEF IsRows
    <3> QED
      BY <1>1, <1>6, <3>1, NoFileAssumption DEF OpenFiles
  <2>3. name \in Files => Len(files[name].rows) > 0
    BY <2>2 DEF WriterInv, OpenIsTrue
  <2>4. files \in [Files -> [rows : Seq(R \union {Header}), flushed : Nat]]
    BY <1>0 DEF WriterTyped
  <2>5. ASSUME name \in Files
        PROVE  /\ base[name].flushed <= Len(base[name].rows)
               /\ FileIsRight(name, base[name].rows)
               /\ base[name].rows # <<>>
    <3>1. files[name].flushed <= Len(files[name].rows)
      BY <1>0, <2>5, LinesTyped
    <3>2. FileIsRight(name, files[name].rows)
      BY <2>5 DEF WriterInv
    <3>3. files[name].rows # <<>>
      BY <2>3, <2>5
    <3> QED
      BY <2>1, <3>1, <3>2, <3>3
  <2>6. \A f \in Files \ {name} :
          /\ base[f].rows = files[f].rows
          /\ base[f].flushed \in {files[f].flushed, Len(files[f].rows)}
          /\ f = old => base[f].flushed = Len(files[f].rows)
    BY <1>6, <2>1
  <2> QED
    BY <1>1, <1>2, <2>1, <2>4, <2>5, <2>6 DEF OpenedRight
<1>7. CASE old # name
  <2>1. ASSUME name \in Files
        PROVE  /\ files[name].flushed = Len(files[name].rows)
               /\ closed[name].flushed = files[name].flushed
               /\ closed[name].rows = files[name].rows
    <3>1. name \notin OpenFiles
      <4>1. SUFFICES ASSUME NEW s \in Streams, writer.open[s] = name PROVE FALSE
        BY DEF OpenFiles
      <4>2. name[2] = s
        BY <2>1, <4>1, NoFileAssumption DEF WriterInv, OpenIsTrue
      <4>3. name[2] = row.stream
        BY <1>2 DEF IsRows
      <4> QED
        BY <1>1, <1>7, <4>1, <4>2, <4>3
    <3>2. files[name].flushed = Len(files[name].rows)
      BY <2>1, <3>1 DEF WriterInv, OpenIsTrue
    <3> QED
      BY <1>4, <2>1, <3>2 DEF FlushedTo
  <2>2. ASSUME NEW f \in Files \ {name}
        PROVE  /\ base[f] = closed[f]
               /\ closed[f].rows = files[f].rows
               /\ closed[f].flushed \in {files[f].flushed, Len(files[f].rows)}
               /\ f = old => closed[f].flushed = Len(files[f].rows)
    <3>1. base[f] = closed[f]
      BY <1>4, <1>5, <1>7, <2>2 DEF FlushedTo
    <3>2. f # NoFile
      BY NoFileAssumption
    <3> QED
      BY <1>4, <3>1, <3>2 DEF FlushedTo
  <2>3. CASE ~(row.header /\ closed[name].flushed = 0)
    <3>1. base = closed
      BY <1>5, <1>7, <2>3
    <3>2. ASSUME name \in Files
          PROVE  /\ base[name].flushed <= Len(base[name].rows)
                 /\ FileIsRight(name, base[name].rows)
                 /\ base[name].rows = <<>> => ~row.header
      <4>1. Len(files[name].rows) \in Nat
        BY <1>0, <3>2, LinesTyped
      <4>2. FileIsRight(name, files[name].rows)
        BY <3>2 DEF WriterInv
      <4>3. files[name].rows = <<>> => Len(files[name].rows) = 0
        OBVIOUS
      <4> QED
        BY <2>1, <2>3, <3>1, <3>2, <4>1, <4>2, <4>3
    <3>3. base \in [Files -> [rows : Seq(R \union {Header}), flushed : Nat]]
      BY <1>4, <3>1 DEF FlushedTo
    <3> QED
      BY <1>1, <1>2, <2>2, <3>1, <3>2, <3>3 DEF OpenedRight
  <2>4. CASE row.header /\ closed[name].flushed = 0
    <3>1. base = [closed EXCEPT ![name].rows = Append(@, Header)]
      BY <1>5, <1>7, <2>4
    <3>2. ASSUME name \in Files
          PROVE  /\ base[name] = [rows |-> <<Header>>, flushed |-> 0]
                 /\ FileIsRight(name, <<Header>>)
      <4>1. files[name].rows = <<>>
        <5>1. Len(files[name].rows) = 0 /\ files[name].rows \in Seq(R \union {Header})
          BY <1>0, <2>1, <2>4, <3>2, LinesTyped
        <5> QED
          BY <5>1, EmptySeq
      <4>2. FileIsRight(name, <<>>)
        BY <3>2, <4>1 DEF WriterInv
      <4>3. closed[name] = [rows |-> <<>>, flushed |-> 0]
        BY <1>4, <2>1, <2>4, <3>2, <4>1 DEF FlushedTo
      <4>4. base[name] = [rows |-> <<Header>>, flushed |-> 0]
        <5>1. base[name] = [closed[name] EXCEPT !.rows = Append(@, Header)]
          BY <1>4, <3>1, <3>2 DEF FlushedTo
        <5>2. base[name] = [rows |-> Append(<<>>, Header), flushed |-> 0]
          BY <4>3, <5>1
        <5> QED
          BY <5>2
      <4>5. FileIsRight(name, <<Header>>)
        <5>1. Complete(name, <<Header>>)
          BY <4>2 DEF FileIsRight, Complete
        <5> QED
          BY <5>1 DEF FileIsRight, Filed, Rising, Headed
      <4> QED
        BY <4>4, <4>5
    <3>3. base \in [Files -> [rows : Seq(R \union {Header}), flushed : Nat]]
      <4>1. base = [f \in Files |-> base[f]]
        BY <1>4, <3>1 DEF FlushedTo
      <4>2. ASSUME NEW f \in Files PROVE base[f] \in [rows : Seq(R \union {Header}), flushed : Nat]
        <5>1. CASE f = name
          <6>1. <<Header>> \in Seq(R \union {Header})
            OBVIOUS
          <6>2. base[f] = [rows |-> <<Header>>, flushed |-> 0]
            BY <3>2, <4>2, <5>1
          <6>3. PICK lines : lines = <<Header>>
            OBVIOUS
          <6> QED
            BY <6>1, <6>2, <6>3
        <5>2. CASE f # name
          BY <1>4, <2>2, <5>2 DEF FlushedTo
        <5> QED
          BY <5>1, <5>2
      <4> QED
        BY <4>1, <4>2
    <3>4. ASSUME name \in Files
          PROVE  /\ base[name].flushed <= Len(base[name].rows)
                 /\ FileIsRight(name, base[name].rows)
                 /\ base[name].rows # <<>>
      <4>1. base[name].rows = <<Header>> /\ base[name].flushed = 0
        BY <3>2, <3>4
      <4>2. Len(<<Header>>) = 1 /\ <<Header>> # <<>>
        OBVIOUS
      <4> QED
        BY <3>2, <3>4, <4>1, <4>2
    <3> QED
      BY <1>1, <1>2, <2>2, <3>3, <3>4 DEF OpenedRight
  <2> QED
    BY <2>3, <2>4
<1> QED
  BY <1>6, <1>7

\* One row goes from the batch to its file.
LEMMA RowWritten ==
    ASSUME NEW R, IsRows(R), WriterInv(R), WriteRow
    PROVE  WriterInv(R)'
<1>0. WriterTyped(R)
  BY DEF WriterInv
<1>1. PICK b : b = writer.batch
  OBVIOUS
<1>2. PICK row : row = Head(writer.batch)
  OBVIOUS
<1>3. PICK base : base = Opened(row)
  OBVIOUS
<1>4. PICK a : a = queue.accepted
  OBVIOUS
<1>5. PICK w : w = Written
  OBVIOUS
<1>6. /\ b \in Seq(R) /\ b # <<>> /\ a \in Seq(R) /\ Len(queue.pending) \in Nat
  BY <1>0, <1>1, <1>4 DEF WriterTyped, WriteRow
<1>7. /\ row \in R /\ row = b[1] /\ Len(b) \in Nat /\ Len(b) > 0
      /\ Tail(b) \in Seq(R) /\ Len(Tail(b)) = Len(b) - 1
      /\ \A i \in 1 .. Len(b) - 1 : Tail(b)[i] = b[i + 1]
  BY <1>1, <1>2, <1>6
<1>8. PICK rest : rest = Tail(b)
  OBVIOUS
<1>9. /\ rest \in Seq(R) /\ Len(rest) = Len(b) - 1
      /\ \A i \in 1 .. Len(b) - 1 : rest[i] = b[i + 1]
  BY <1>7, <1>8
<1>10. /\ writer' = [writer EXCEPT !.batch = rest, !.open[row.stream] = row.file]
       /\ files' = [base EXCEPT ![row.file].rows = Append(@, row)]
       /\ UNCHANGED <<queue, stopping>> /\ writer.pc = "writing"
  BY <1>1, <1>2, <1>3, <1>8 DEF WriteRow
<1>11. OpenedRight(R, row, base)
  BY <1>3, <1>7, StreamOpens
<1>12. row.stream \in Streams /\ row.n \in Nat /\ row # Header /\ row.file[2] = row.stream
  BY <1>7 DEF IsRows
<1>13. /\ writer'.batch = rest /\ writer'.pc = "writing"
       /\ writer'.open = [writer.open EXCEPT ![row.stream] = row.file]
       /\ writer'.open \in [Streams -> {r.file : r \in R} \union {NoFile}]
       /\ \A s \in Streams : writer'.open[s] = IF s = row.stream THEN row.file ELSE writer.open[s]
  BY <1>0, <1>7, <1>10, <1>12 DEF WriterTyped
<1>sum. w = Len(a) - Len(queue.pending) - Len(b) /\ Len(a) \in Nat /\ w \in Nat
  <2>1. w = Len(a) - Len(queue.pending) - Len(b)
    BY <1>1, <1>4, <1>5 DEF Written
  <2>2. w \in Nat
    BY <1>5 DEF WriterInv, InLine
  <2>3. Len(a) \in Nat
    BY <1>6
  <2> QED
    BY <2>1, <2>2, <2>3
<1>14. w \in Nat /\ Len(a) \in Nat /\ w + 1 <= Len(a)
  <2>1. Len(queue.pending) \in Nat /\ Len(b) \in Nat /\ Len(b) > 0
    BY <1>6, <1>7
  <2>2. \A la, lp, lb, v \in Nat : v = la - lp - lb /\ lb > 0 => v + 1 <= la
    OBVIOUS
  <2> QED
    BY <1>sum, <2>1, <2>2
<1>15. Written' = w + 1
  <2>1. Written' = Len(a) - Len(queue.pending) - Len(rest)
    BY <1>4, <1>10, <1>13 DEF Written
  <2>2. Len(queue.pending) \in Nat /\ Len(b) \in Nat /\ Len(rest) = Len(b) - 1
    BY <1>6, <1>7, <1>9
  <2> QED
    BY <1>sum, <2>1, <2>2
<1>16. a[w + 1] = row /\ row.n = w + 1
  <2>1. b[1] = a[w + 1]
    BY <1>1, <1>4, <1>5, <1>7 DEF WriterInv, InLine
  <2>2. a[w + 1].n = w + 1
    BY <1>4, <1>14 DEF WriterInv, Numbered
  <2> QED
    BY <1>7, <2>1, <2>2
<1>17. /\ \A f \in Files \ {row.file} : files'[f] = base[f]
       /\ row.file \in Files =>
             files'[row.file] = [rows |-> Append(base[row.file].rows, row),
                                 flushed |-> base[row.file].flushed]
       /\ files' = [f \in Files |-> files'[f]]
  BY <1>10, <1>11 DEF OpenedRight
<1>18. ASSUME row.file \in Files,
              NEW lines, lines = base[row.file].rows, NEW new, new = Append(lines, row)
       PROVE  /\ new \in Seq(R \union {Header})
              /\ Len(new) = Len(lines) + 1 /\ Len(lines) \in Nat
              /\ base[row.file].flushed <= Len(lines) /\ base[row.file].flushed \in Nat
              /\ FileIsRight(row.file, new)'
  <2>1. /\ lines \in Seq(R \union {Header}) /\ FileIsRight(row.file, lines)
        /\ lines = <<>> => ~row.header
        /\ base[row.file].flushed <= Len(lines) /\ base[row.file].flushed \in Nat
    BY <1>11, <1>18 DEF OpenedRight
  <2>2. /\ new \in Seq(R \union {Header})
        /\ \A i \in 1 .. Len(lines) + 1 : new[i] = IF i <= Len(lines) THEN lines[i] ELSE row
        /\ Len(new) = Len(lines) + 1
        /\ Rising(new)
        /\ Headed(new)
    <3>1. Numbered /\ InLine
      BY DEF WriterInv
    <3>2. row.n = Written + 1 /\ Written + 1 <= Len(queue.accepted)
          /\ queue.accepted[Written + 1] = row
      BY <1>4, <1>5, <1>14, <1>16
    <3>3. Joined(R, lines, row, new)
      BY <1>0, <1>7, <1>18, <2>1, <3>1, <3>2, LineJoins
    <3> QED
      BY <3>3 DEF Joined
  <2>3. Len(lines) \in Nat
    BY <2>1
  <2>4. Filed(row.file, new)'
    <3> SUFFICES ASSUME NEW i \in 1 .. Len(new), new[i] # Header
                 PROVE  /\ new[i].file = row.file
                        /\ new[i].n # 0 => new[i].n <= w + 1 /\ new[i] = a[new[i].n]
      BY <1>4, <1>10, <1>15 DEF Filed
    <3>1. CASE i \in 1 .. Len(lines)
      <4>1. new[i] = lines[i]
        BY <2>2, <2>3, <3>1
      <4>2. /\ lines[i].file = row.file
            /\ lines[i].n # 0 => lines[i].n <= w /\ lines[i] = a[lines[i].n]
        BY <1>4, <1>5, <2>1, <3>1, <4>1 DEF FileIsRight, Filed
      <4>3. lines[i].n \in Nat
        <5>1. lines[i] \in R
          BY <2>1, <3>1, <4>1
        <5> QED
          BY <5>1 DEF IsRows
      <4> QED
        BY <1>14, <4>1, <4>2, <4>3
    <3>2. CASE i = Len(lines) + 1
      <4>1. new[i] = row
        BY <2>2, <2>3, <3>2
      <4> QED
        BY <1>14, <1>16, <4>1
    <3> QED
      BY <2>2, <2>3, <3>1, <3>2
  <2>5. Complete(row.file, new)'
    <3> SUFFICES ASSUME NEW m \in 1 .. w + 1, a[m].file = row.file
                 PROVE  \E i \in 1 .. Len(new) : new[i] = a[m]
      BY <1>4, <1>10, <1>15 DEF Complete
    <3>1. CASE m \in 1 .. w
      <4>1. PICK i \in 1 .. Len(lines) : lines[i] = a[m]
        BY <1>4, <1>5, <2>1, <3>1 DEF FileIsRight, Complete
      <4>2. i \in 1 .. Len(new) /\ new[i] = lines[i]
        BY <2>2, <2>3
      <4> QED
        BY <4>1, <4>2
    <3>2. CASE m = w + 1
      <4>1. Len(new) \in 1 .. Len(new) /\ new[Len(new)] = row
        BY <2>2, <2>3
      <4> QED
        BY <1>16, <3>2, <4>1
    <3> QED
      BY <1>14, <3>1, <3>2
  <2>6. FileIsRight(row.file, new)'
    BY <2>2, <2>4, <2>5 DEF FileIsRight, Rising, Headed
  <2> QED
    BY <2>1, <2>2, <2>3, <2>6
<1>19. ASSUME NEW f \in Files \ {row.file}, NEW lines, lines = files[f].rows
       PROVE  FileIsRight(f, lines)'
  <2>1. FileIsRight(f, lines) /\ lines \in Seq(R \union {Header})
    BY <1>0, <1>19, LinesTyped DEF WriterInv
  <2>2. Filed(f, lines)'
    <3> SUFFICES ASSUME NEW i \in 1 .. Len(lines), lines[i] # Header
                 PROVE  /\ lines[i].file = f
                        /\ lines[i].n # 0 => lines[i].n <= w + 1 /\ lines[i] = a[lines[i].n]
      BY <1>4, <1>10, <1>15 DEF Filed
    <3>1. /\ lines[i].file = f
          /\ lines[i].n # 0 => lines[i].n <= w /\ lines[i] = a[lines[i].n]
      BY <1>4, <1>5, <2>1 DEF FileIsRight, Filed
    <3>2. lines[i].n \in Nat
      <4>1. lines[i] \in R
        BY <2>1
      <4> QED
        BY <4>1 DEF IsRows
    <3> QED
      BY <1>14, <3>1, <3>2
  <2>3. Complete(f, lines)'
    <3> SUFFICES ASSUME NEW m \in 1 .. w + 1, a[m].file = f
                 PROVE  \E i \in 1 .. Len(lines) : lines[i] = a[m]
      BY <1>4, <1>10, <1>15 DEF Complete
    <3>1. m # w + 1
      BY <1>16
    <3>2. m \in 1 .. w
      BY <1>14, <3>1
    <3> QED
      BY <1>4, <1>5, <2>1, <3>2 DEF FileIsRight, Complete
  <2> QED
    BY <2>1, <2>2, <2>3 DEF FileIsRight, Rising, Headed
<1>20. ASSUME NEW f \in Files
       PROVE  /\ files'[f] \in [rows : Seq(R \union {Header}), flushed : Nat]
              /\ files'[f].flushed <= Len(files'[f].rows)
              /\ FileIsRight(f, files[f].rows)'
  <2>1. CASE f = row.file
    <3>1. PICK lines : lines = base[row.file].rows
      OBVIOUS
    <3>2. PICK new : new = Append(lines, row)
      OBVIOUS
    <3>3. /\ new \in Seq(R \union {Header})
          /\ Len(new) = Len(lines) + 1 /\ Len(lines) \in Nat
          /\ base[row.file].flushed <= Len(lines) /\ base[row.file].flushed \in Nat
          /\ FileIsRight(row.file, new)'
      BY <1>18, <1>20, <2>1, <3>1, <3>2
    <3>4. files'[f].rows = new /\ files'[f].flushed = base[row.file].flushed
          /\ files'[f] = [rows |-> new, flushed |-> base[row.file].flushed]
      BY <1>17, <1>20, <2>1, <3>1, <3>2
    <3> QED
      BY <2>1, <3>3, <3>4
  <2>2. CASE f # row.file
    <3>1. PICK lines : lines = files[f].rows
      OBVIOUS
    <3>2. /\ files'[f] = base[f] /\ base[f].rows = lines
          /\ base[f].flushed \in {files[f].flushed, Len(lines)}
          /\ base[f] \in [rows : Seq(R \union {Header}), flushed : Nat]
      BY <1>11, <1>17, <1>20, <2>2, <3>1 DEF OpenedRight
    <3>3. files[f].flushed <= Len(lines) /\ Len(lines) \in Nat
      BY <1>0, <1>20, <3>1, LinesTyped
    <3>4. FileIsRight(f, lines)'
      BY <1>19, <1>20, <2>2, <3>1
    <3> QED
      BY <3>2, <3>3, <3>4
  <2> QED
    BY <2>1, <2>2
<1>21. WriterTyped(R)'
  <2>1. writer' \in [pc : {"waiting", "writing", "failing", "failed", "exited"}, batch : Seq(R),
                     stop : BOOLEAN, open : [Streams -> {r.file : r \in R} \union {NoFile}]]
    <3>1. PICK open : open = [writer.open EXCEPT ![row.stream] = row.file]
      OBVIOUS
    <3>2. writer' = [writer EXCEPT !.batch = rest, !.open = open]
      BY <1>10, <3>1
    <3>3. open \in [Streams -> {r.file : r \in R} \union {NoFile}]
      BY <1>13, <3>1
    <3> QED
      BY <1>0, <1>9, <3>2, <3>3 DEF WriterTyped
  <2>2. files' \in [Files -> [rows : Seq(R \union {Header}), flushed : Nat]]
    BY <1>17, <1>20
  <2> QED
    BY <1>0, <1>10, <1>20, <2>1, <2>2 DEF WriterTyped
<1>22. Numbered'
  BY <1>10 DEF WriterInv, Numbered
<1>23. InLine'
  <2>1. ASSUME NEW i \in 1 .. Len(rest) PROVE rest[i] = a[w + 1 + i]
    <3>1. rest[i] = b[i + 1] /\ i + 1 \in 1 .. Len(b)
      BY <1>7, <1>9
    <3>2. b[i + 1] = a[w + (i + 1)]
      BY <1>1, <1>4, <1>5, <3>1 DEF WriterInv, InLine
    <3>3. w + (i + 1) = w + 1 + i
      BY <1>14
    <3> QED
      BY <3>1, <3>2, <3>3
  <2>2. ASSUME NEW i \in 1 .. Len(queue.pending)
        PROVE  queue.pending[i] = a[w + 1 + Len(rest) + i]
    <3>1. queue.pending[i] = a[w + Len(b) + i]
      BY <1>1, <1>4, <1>5 DEF WriterInv, InLine
    <3>2. w + Len(b) + i = w + 1 + Len(rest) + i
      BY <1>6, <1>7, <1>9, <1>14
    <3> QED
      BY <3>1, <3>2
  <2> QED
    BY <1>4, <1>10, <1>13, <1>14, <1>15, <2>1, <2>2 DEF InLine
<1>24. OpenIsTrue'
  <2>1. ASSUME NEW s \in Streams, writer'.open[s] # NoFile
        PROVE  writer'.open[s][2] = s
    BY <1>12, <1>13, <2>1 DEF WriterInv, OpenIsTrue
  <2>2. ASSUME NEW f \in Files
        PROVE  IF f \in OpenFiles' THEN Len(files'[f].rows) > 0
                                  ELSE files'[f].flushed = Len(files'[f].rows)
    <3>1. CASE f = row.file
      <4>1. f \in OpenFiles'
        BY <1>12, <1>13, <2>2, <3>1, NoFileAssumption DEF OpenFiles
      <4>2. Len(files'[f].rows) > 0
        <5>1. PICK lines : lines = base[row.file].rows
          OBVIOUS
        <5>2. PICK new : new = Append(lines, row)
          OBVIOUS
        <5>3. Len(new) = Len(lines) + 1 /\ Len(lines) \in Nat
          BY <1>18, <2>2, <3>1, <5>1, <5>2
        <5>4. files'[f].rows = new
          BY <1>17, <2>2, <3>1, <5>1, <5>2
        <5> QED
          BY <5>3, <5>4
      <4> QED
        BY <4>1, <4>2
    <3>2. CASE f # row.file
      <4>1. /\ files'[f].rows = files[f].rows
            /\ files'[f].flushed \in {files[f].flushed, Len(files[f].rows)}
            /\ f = writer.open[row.stream] => files'[f].flushed = Len(files[f].rows)
        BY <1>11, <1>17, <2>2, <3>2 DEF OpenedRight
      <4>2. IF f \in OpenFiles THEN Len(files[f].rows) > 0
                               ELSE files[f].flushed = Len(files[f].rows)
        BY DEF WriterInv, OpenIsTrue
      <4>3. CASE f \in OpenFiles'
        <5>1. PICK s \in Streams : writer'.open[s] = f
          BY <4>3 DEF OpenFiles
        <5>2. writer.open[s] = f
          BY <1>13, <3>2, <5>1
        <5>3. f \in OpenFiles
          BY <2>2, <5>2, NoFileAssumption DEF OpenFiles
        <5> QED
          BY <4>1, <4>2, <4>3, <5>3
      <4>4. CASE f \notin OpenFiles'
        <5>1. CASE f = writer.open[row.stream]
          BY <4>1, <4>4, <5>1
        <5>2. CASE f # writer.open[row.stream]
          <6>1. f \notin OpenFiles
            <7>1. SUFFICES ASSUME NEW s \in Streams, writer.open[s] = f PROVE FALSE
              BY DEF OpenFiles
            <7>2. writer'.open[s] = f
              BY <1>13, <5>2, <7>1
            <7> QED
              BY <2>2, <4>4, <7>2, NoFileAssumption DEF OpenFiles
          <6> QED
            BY <4>1, <4>2, <4>4, <6>1
        <5> QED
          BY <5>1, <5>2
      <4> QED
        BY <4>3, <4>4
    <3> QED
      BY <3>1, <3>2
  <2> QED
    BY <2>1, <2>2 DEF OpenIsTrue
<1>25. EndIsOrderly'
  BY <1>13 DEF EndIsOrderly
<1> QED
  BY <1>20, <1>21, <1>22, <1>23, <1>24, <1>25 DEF WriterInv

\* What the invariant is for.
LEMMA FilesFollow ==
    ASSUME NEW R, IsRows(R), WriterInv(R)
    PROVE  FilesAreWhole /\ StopLosesNothing
<1>0. WriterTyped(R)
  BY DEF WriterInv
<1>1. PICK a : a = queue.accepted
  OBVIOUS
<1>2. a \in Seq(R) /\ Len(a) \in Nat /\ Written \in Nat
  BY <1>0, <1>1 DEF WriterTyped, WriterInv, InLine
<1>3. Written <= Len(a)
  <2>1. Len(queue.pending) \in Nat /\ Len(writer.batch) \in Nat
    BY <1>0 DEF WriterTyped
  <2>2. Written = Len(a) - Len(queue.pending) - Len(writer.batch)
    BY <1>1 DEF Written
  <2>3. \A la, lp, lb, v \in Nat : v = la - lp - lb => v <= la
    OBVIOUS
  <2> QED
    BY <1>2, <2>1, <2>2, <2>3
<1>4. \A line : Accepted(line) <=> \E m \in 1 .. Len(a) : line = a[m]
  BY <1>1, <1>2 DEF Accepted, Range
<1>5. OneHeader
  BY DEF WriterInv, FileIsRight, Headed, OneHeader
<1>6. ASSUME NEW f \in Files, NEW lines, lines = files[f].rows,
             NEW i \in 1 .. files[f].flushed, Accepted(lines[i])
      PROVE  /\ lines[i].file = f
             /\ \A j \in 1 .. i - 1 : Accepted(lines[j]) => lines[j].n < lines[i].n
             /\ \A m \in 1 .. lines[i].n : a[m].file = f => \E j \in 1 .. i : lines[j] = a[m]
  <2>1. /\ lines \in Seq(R \union {Header}) /\ Len(lines) \in Nat
        /\ files[f].flushed \in Nat /\ files[f].flushed <= Len(lines)
        /\ FileIsRight(f, lines)
    BY <1>0, <1>6, LinesTyped DEF WriterInv
  <2>2. i \in 1 .. Len(lines) /\ i \in Nat
    BY <2>1
  <2>3. PICK k \in 1 .. Len(a) : lines[i] = a[k]
    BY <1>4, <1>6
  <2>4. lines[i] \in R /\ lines[i] # Header /\ lines[i].n = k
    <3>1. a[k] \in R /\ a[k].n = k
      BY <1>1, <1>2 DEF WriterInv, Numbered
    <3> QED
      BY <2>3, <3>1 DEF IsRows
  <2>5. lines[i].file = f /\ k <= Written
    <3>1. lines[i].n # 0
      BY <2>4
    <3> QED
      BY <2>1, <2>2, <2>4, <3>1 DEF FileIsRight, Filed
  <2>6. ASSUME NEW j \in 1 .. i - 1, Accepted(lines[j]) PROVE lines[j].n < lines[i].n
    <3>1. j \in 1 .. Len(lines) /\ j < i
      BY <2>1, <2>2
    <3>2. lines[j] # Header
      <4>1. PICK m \in 1 .. Len(a) : lines[j] = a[m]
        BY <1>4, <2>6
      <4> QED
        BY <1>2, <4>1 DEF IsRows
    <3> QED
      BY <2>1, <2>2, <2>4, <3>1, <3>2 DEF FileIsRight, Rising
  <2>7. ASSUME NEW m \in 1 .. lines[i].n, a[m].file = f
        PROVE  \E j \in 1 .. i : lines[j] = a[m]
    <3>1. m \in 1 .. Written /\ m \in 1 .. Len(a) /\ m <= k
      BY <1>2, <1>3, <2>4, <2>5
    <3>2. PICK j \in 1 .. Len(lines) : lines[j] = a[m]
      BY <1>1, <2>1, <2>7, <3>1 DEF FileIsRight, Complete
    <3>3. lines[j].n = m /\ lines[j] # Header
      <4>1. a[m] \in R /\ a[m].n = m
        BY <1>1, <1>2, <3>1 DEF WriterInv, Numbered
      <4> QED
        BY <3>2, <4>1 DEF IsRows
    <3>4. ~(i < j)
      <4>1. i < j => lines[i].n < lines[j].n
        BY <2>1, <2>2, <2>4, <3>3 DEF FileIsRight, Rising
      <4> QED
        BY <2>4, <3>1, <3>3, <4>1
    <3>5. j \in 1 .. i
      BY <2>1, <2>2, <3>4
    <3> QED
      BY <3>2, <3>5
  <2> QED
    BY <2>5, <2>6, <2>7
<1>7. RowsKeepTheirOrder
  BY <1>1, <1>6 DEF RowsKeepTheirOrder
<1>8. ASSUME writer.pc = "exited", NEW f \in Files, NEW row \in Range(queue.accepted), row.file = f
      PROVE  \E i \in 1 .. files[f].flushed : files[f].rows[i] = row
  <2>1. PICK m \in 1 .. Len(a) : row = a[m]
    BY <1>1, <1>2, <1>8 DEF Range
  <2>2. Written = Len(a)
    <3>1. queue.pending = <<>> /\ writer.batch = <<>>
      BY <1>8 DEF WriterInv, EndIsOrderly
    <3> QED
      BY <1>1, <1>2, <3>1 DEF Written
  <2>3. PICK i \in 1 .. Len(files[f].rows) : files[f].rows[i] = a[m]
    BY <1>1, <1>8, <2>1, <2>2 DEF WriterInv, FileIsRight, Complete
  <2>4. files[f].flushed = Len(files[f].rows)
    BY <1>8 DEF WriterInv, OpenIsTrue, EndIsOrderly
  <2> QED
    BY <2>1, <2>3, <2>4
<1> QED
  BY <1>5, <1>7, <1>8 DEF FilesAreWhole, StopLosesNothing

\* The writer's own steps.
LEMMA WriterActs ==
    ASSUME NEW R, IsRows(R), WriterInv(R), WriterStep \/ IdleRound \/ WriterFails
    PROVE  WriterInv(R)'
<1>0. WriterTyped(R)
  BY DEF WriterInv
<1>1. CASE TakeBatch
  BY <1>1, BatchTaken
<1>2. CASE WriteRow
  BY <1>2, RowWritten
<1>3. CASE EndRound
  <2>1. Flushed(files, {}) = files
    <3>1. Flushed(files, {}) = [f \in Files |-> files[f]]
      BY DEF Flushed
    <3> QED
      BY <1>0, <3>1 DEF WriterTyped
  <2>2. \E names \in {{}, OpenFiles} : files' = Flushed(files, names)
    BY <1>3, <2>1 DEF EndRound
  <2>3. /\ writer' = [writer EXCEPT !.pc = "waiting"] /\ writer.batch = <<>>
        /\ UNCHANGED <<queue, stopping>>
    BY <1>3 DEF EndRound
  <2>4. stopping' = [stopping EXCEPT !.fatal = stopping'.fatal] /\ stopping'.fatal \in BOOLEAN
    BY <1>0, <2>3 DEF WriterTyped
  <2> QED
    BY <2>2, <2>3, <2>4, FlushedOnly
<1>4. CASE IdleRound
  <2>1. files' = Flushed(files, OpenFiles) /\ UNCHANGED <<queue, writer, stopping>>
        /\ writer.pc = "waiting" /\ writer.batch = <<>>
    BY <1>4 DEF IdleRound, WriterInv, InLine
  <2>2. writer' = [writer EXCEPT !.pc = "waiting"]
    BY <1>0, <2>1 DEF WriterTyped
  <2>3. stopping' = [stopping EXCEPT !.fatal = stopping'.fatal] /\ stopping'.fatal \in BOOLEAN
    BY <1>0, <2>1 DEF WriterTyped
  <2> QED
    BY <2>1, <2>2, <2>3, FlushedOnly
<1>5. CASE ExitWriter
  <2>1. /\ files' = Flushed(files, OpenFiles) /\ UNCHANGED <<queue, stopping>>
        /\ queue.pending = <<>> /\ stopping.writer /\ writer.batch = <<>>
        /\ writer' = [writer EXCEPT !.pc = "exited", !.open = [s \in Streams |-> NoFile]]
    BY <1>5 DEF ExitWriter, WriterInv, InLine
  <2>2. writer'.open = [s \in Streams |-> NoFile]
    BY <1>0, <2>1 DEF WriterTyped
  <2>3. stopping' = [stopping EXCEPT !.fatal = stopping'.fatal] /\ stopping'.fatal \in BOOLEAN
    BY <1>0, <2>1 DEF WriterTyped
  <2> QED
    BY <2>1, <2>2, <2>3, FlushedOnly
<1>6. CASE WriterFails
  <2>1. /\ files' = Flushed(files, OpenFiles) /\ UNCHANGED queue
        /\ writer' = [writer EXCEPT !.pc = "failing", !.open = [s \in Streams |-> NoFile]]
        /\ stopping' = [stopping EXCEPT !.fatal = TRUE]
    BY <1>6 DEF WriterFails
  <2>2. stopping' = [stopping EXCEPT !.fatal = stopping'.fatal] /\ stopping'.fatal \in BOOLEAN
    BY <1>0, <2>1 DEF WriterTyped
  <2> QED
    BY <2>1, <2>2, FlushedOnly
<1>7. CASE FailureStopsProgram
  <2>1. /\ writer' \in {writer, [writer EXCEPT !.pc = "failed"]}
        /\ UNCHANGED <<queue, files>>
        /\ stopping' \in [writer : BOOLEAN, program : BOOLEAN, fatal : BOOLEAN, code : 0 .. 1]
        /\ stopping'.writer = stopping.writer
    BY <1>0, <1>7 DEF FailureStopsProgram, WriterTyped
  <2> QED
    BY <2>1, FlagsOnly
<1> QED
  BY <1>1, <1>2, <1>3, <1>4, <1>5, <1>6, <1>7 DEF WriterStep

\* Setting a flag of the stop.
LEMMA FlagSet ==
    ASSUME NEW R, WriterInv(R), UNCHANGED <<queue, writer, files>>,
           \/ \E code \in 0 .. 1 : stopping' = [stopping EXCEPT !.code = code]
           \/ stopping' = [stopping EXCEPT !.writer = TRUE]
           \/ stopping' = [stopping EXCEPT !.program = TRUE]
           \/ stopping' = stopping
    PROVE  WriterInv(R)'
<1>0. WriterTyped(R)
  BY DEF WriterInv
<1>1. /\ stopping' \in [writer : BOOLEAN, program : BOOLEAN, fatal : BOOLEAN, code : 0 .. 1]
      /\ stopping.writer => stopping'.writer
  BY <1>0 DEF WriterTyped
<1> QED
  BY <1>1, FlagsOnly

-----------------------------------------------------------------------------
(* Trading days.                                                           *)

\* A weekday is the same day or at most two days off.
NextWeekday(day) == IF day % 7 = 6 THEN day + 2 ELSE IF day % 7 = 0 THEN day + 1 ELSE day

LEMMA WeekTurns ==
    ASSUME NEW day \in Nat
    PROVE  /\ day % 7 \in 0 .. 6
           /\ (day + 1) % 7 = IF day % 7 = 6 THEN 0 ELSE (day % 7) + 1
           /\ (day + 2) % 7 = IF day % 7 = 6 THEN 1 ELSE IF day % 7 = 5 THEN 0 ELSE (day % 7) + 2
OBVIOUS

LEMMA LeastOf ==
    ASSUME NEW S, S \subseteq Int, NEW n \in S, \A d \in S : n <= d
    PROVE  Min(S) = n
<1>1. \A x \in S : (\A y \in S : x <= y) => x = n
  <2> SUFFICES ASSUME NEW x \in S, \A y \in S : x <= y PROVE x = n
    OBVIOUS
  <2>1. x <= n /\ n <= x /\ x \in Int /\ n \in Int
    OBVIOUS
  <2> QED
    BY <2>1
<1> QED
  BY <1>1 DEF Min

LEMMA LabelIsNextWeekday ==
    ASSUME NEW day \in Nat
    PROVE  current_or_next_weekday_label(day) = NextWeekday(day)
<1> DEFINE S == {d \in day .. day + 3 : IsWeekday(d)}
<1>1. NextWeekday(day) \in S
  BY WeekTurns DEF NextWeekday, IsWeekday
<1>2. \A d \in S : NextWeekday(day) <= d
  <2> SUFFICES ASSUME NEW d \in day .. day + 3, IsWeekday(d) PROVE NextWeekday(day) <= d
    OBVIOUS
  <2>1. CASE day % 7 = 6
    <3>1. d # day /\ d # day + 1
      BY <2>1, WeekTurns DEF IsWeekday
    <3> QED
      BY <2>1, <3>1 DEF NextWeekday
  <2>2. CASE day % 7 = 0
    <3>1. d # day
      BY <2>2, WeekTurns DEF IsWeekday
    <3> QED
      BY <2>2, <3>1 DEF NextWeekday
  <2>3. CASE day % 7 \notin {0, 6}
    BY <2>3 DEF NextWeekday
  <2> QED
    BY <2>1, <2>2, <2>3
<1>3. NextWeekday(day) \in Int /\ S \subseteq Int
  BY DEF NextWeekday
<1>4. Min(S) = NextWeekday(day)
  <2> HIDE DEF S
  <2> QED
    BY <1>1, <1>2, <1>3, LeastOf
<1> QED
  BY <1>4 DEF current_or_next_weekday_label

\* The reference: the evening belongs to the next weekday after it.
LEMMA TradingDayIsNextWeekday ==
    ASSUME NEW day \in Nat, NEW time \in Nat
    PROVE  TradingDayOf(day, time) = IF time >= Clock(20, 0) THEN NextWeekday(day + 1) ELSE NextWeekday(day)
<1>1. ASSUME NEW first \in Nat
      PROVE  \A d \in first .. first + 2 :
                (IsWeekday(d) /\ \A e \in first .. d - 1 : ~IsWeekday(e)) <=> d = NextWeekday(first)
  <2> SUFFICES ASSUME NEW d \in first .. first + 2
               PROVE  (IsWeekday(d) /\ \A e \in first .. d - 1 : ~IsWeekday(e)) <=> d = NextWeekday(first)
    OBVIOUS
  <2>1. CASE d = first
    BY <2>1, WeekTurns DEF IsWeekday, NextWeekday
  <2>2. CASE d = first + 1
    <3>1. first .. d - 1 = {first}
      BY <2>2
    <3> QED
      BY <2>2, <3>1, WeekTurns DEF IsWeekday, NextWeekday
  <2>3. CASE d = first + 2
    <3>1. first .. d - 1 = {first, first + 1}
      BY <2>3
    <3>2. (\A e \in first .. d - 1 : ~IsWeekday(e)) <=> ~IsWeekday(first) /\ ~IsWeekday(first + 1)
      BY <3>1
    <3> QED
      BY <2>3, <3>2, WeekTurns DEF IsWeekday, NextWeekday
  <2> QED
    BY <2>1, <2>2, <2>3
<1>2. ASSUME NEW first \in Nat
      PROVE  NextWeekday(first) \in first .. first + 2
  BY DEF NextWeekday
<1>3. CASE time >= Clock(20, 0)
  <2>1. PICK first \in Nat : first = day + 1
    OBVIOUS
  <2>2. day + 1 .. day + 3 = first .. first + 2
    BY <2>1
  <2>3. \A d \in day + 1 .. day + 3 :
           (IsWeekday(d) /\ \A e \in day + 1 .. d - 1 : ~IsWeekday(e)) <=> d = NextWeekday(first)
    BY <1>1, <2>1, <2>2
  <2>4. NextWeekday(first) \in day + 1 .. day + 3
    BY <1>2, <2>2
  <2>5. (CHOOSE d \in day + 1 .. day + 3 : IsWeekday(d) /\ \A e \in day + 1 .. d - 1 : ~IsWeekday(e))
          = NextWeekday(first)
    BY <2>3, <2>4
  <2> QED
    BY <1>3, <2>1, <2>5 DEF TradingDayOf
<1>4. CASE ~(time >= Clock(20, 0))
  <2>1. (CHOOSE d \in day .. day + 2 : IsWeekday(d) /\ \A e \in day .. d - 1 : ~IsWeekday(e))
          = NextWeekday(day)
    BY <1>1, <1>2
  <2> QED
    BY <1>4, <2>1 DEF TradingDayOf
<1> QED
  BY <1>3, <1>4

LEMMA MaxOfTwo ==
    ASSUME NEW a \in Nat, NEW b \in Nat
    PROVE  prefer_later_trading_day(a, b) = IF a >= b THEN a ELSE b
<1>1. CASE a >= b
  <2>1. a \in {a, b} /\ \A x \in {a, b} : a >= x
    BY <1>1
  <2>2. \A y \in {a, b} : (\A x \in {a, b} : y >= x) => y = a
    BY <1>1
  <2> QED
    BY <1>1, <2>1, <2>2 DEF prefer_later_trading_day, Max
<1>2. CASE ~(a >= b)
  <2>1. b \in {a, b} /\ \A x \in {a, b} : b >= x
    BY <1>2
  <2>2. \A y \in {a, b} : (\A x \in {a, b} : y >= x) => y = b
    BY <1>2
  <2> QED
    BY <1>2, <2>1, <2>2 DEF prefer_later_trading_day, Max
<1> QED
  BY <1>1, <1>2

LEMMA RecordingDayTyped ==
    ASSUME NEW sent \in Nat, NEW kind, NEW day \in Nat, NEW time \in Nat
    PROVE  infer_recording_trading_day(sent, kind, day, time) \in Nat
<1>1. /\ next_weekday_label(day) \in Nat /\ current_or_next_weekday_label(day) \in Nat
  BY LabelIsNextWeekday DEF NextWeekday, next_weekday_label
<1> QED
  BY <1>1, MaxOfTwo DEF infer_recording_trading_day

\* The hours of the clock the sessions are made of.
LEMMA ClockHours ==
    /\ \A h, m \in Nat : Clock(h, m) \in Nat
    /\ Clock(1, 0) < Clock(2, 30) /\ Clock(2, 30) < Clock(8, 55) /\ Clock(2, 30) < Clock(9, 25)
    /\ Clock(2, 30) < Clock(10, 30) /\ Clock(2, 30) < Clock(13, 0) /\ Clock(2, 30) < Clock(13, 30)
    /\ Clock(10, 15) < Clock(20, 0) /\ Clock(11, 30) < Clock(20, 0) /\ Clock(15, 0) < Clock(20, 0)
    /\ Clock(15, 15) < Clock(20, 0) /\ Clock(20, 0) < Clock(20, 55) /\ Clock(20, 55) < Clock(23, 0)
BY SMT DEF Clock

\* Between the end of the last night session and the evening, a weekday.
DayTime(time) == Clock(2, 30) < time /\ time < Clock(20, 0)

\* A recorded tick belongs to the night before midnight, the one after it, or
\* to the day.
LEMMA SessionsAre ==
    ASSUME NEW kind \in Kinds \ {"other"}, NEW time \in Nat,
           should_record_tick_in_trading_session(kind, time)
    PROVE  \/ HasNight(kind) /\ time >= Clock(20, 55)
           \/ is_midnight_night_session_time(kind, time) /\ time < Clock(20, 0)
           \/ DayTime(time)
<1>0. PICK dawn \in Nat, dusk \in Nat : dawn = Clock(2, 30) /\ dusk = Clock(20, 0)
  BY ClockHours
<1>1. ASSUME NEW h1 \in Nat, NEW m1 \in Nat, NEW h2 \in Nat, NEW m2 \in Nat,
             InWindow(time, Clock(h1, m1), Clock(h2, m2)), Clock(h1, m1) <= Clock(h2, m2),
             Clock(2, 30) < Clock(h1, m1), Clock(h2, m2) < Clock(20, 0)
      PROVE  DayTime(time)
  <2>1. PICK first \in Nat, last \in Nat : first = Clock(h1, m1) /\ last = Clock(h2, m2)
    BY ClockHours
  <2>2. first <= time /\ time <= last /\ dawn < first /\ last < dusk
    BY <1>0, <1>1, <2>1 DEF InWindow
  <2> QED
    BY <1>0, <2>2 DEF DayTime
<1>2. CASE kind = "treasury"
  <2>1. InWindow(time, Clock(9, 25), Clock(11, 30)) \/ InWindow(time, Clock(13, 0), Clock(15, 15))
    BY <1>2 DEF should_record_tick_in_trading_session, Commodities, InAny
  <2>2. Clock(9, 25) <= Clock(11, 30) /\ Clock(13, 0) <= Clock(15, 15)
    BY SMT DEF Clock
  <2> QED
    BY <1>1, <2>1, <2>2, ClockHours
<1>3. CASE kind = "stock_index"
  <2>1. InWindow(time, Clock(9, 25), Clock(11, 30)) \/ InWindow(time, Clock(13, 0), Clock(15, 0))
    BY <1>3 DEF should_record_tick_in_trading_session, Commodities, InAny
  <2>2. Clock(9, 25) <= Clock(11, 30) /\ Clock(13, 0) <= Clock(15, 0)
    BY SMT DEF Clock
  <2> QED
    BY <1>1, <2>1, <2>2, ClockHours
<1>4. CASE kind \in Commodities
  <2>1. \/ InWindow(time, Clock(8, 55), Clock(10, 15)) \/ InWindow(time, Clock(10, 30), Clock(11, 30))
        \/ InWindow(time, Clock(13, 30), Clock(15, 0)) \/ is_commodity_night_session_time(kind, time)
    BY <1>4 DEF should_record_tick_in_trading_session, Commodities, InAny
  <2>2. CASE \/ InWindow(time, Clock(8, 55), Clock(10, 15)) \/ InWindow(time, Clock(10, 30), Clock(11, 30))
             \/ InWindow(time, Clock(13, 30), Clock(15, 0))
    <3>1. Clock(8, 55) <= Clock(10, 15) /\ Clock(10, 30) <= Clock(11, 30) /\ Clock(13, 30) <= Clock(15, 0)
      BY SMT DEF Clock
    <3> QED
      BY <1>1, <2>2, <3>1, ClockHours, ZenonT(60)
  <2>3. CASE is_commodity_night_session_time(kind, time)
    <3>1. HasNight(kind) /\ InWindow(time, Clock(20, 55), NightEnd[kind])
      BY <2>3 DEF is_commodity_night_session_time
    <3>2. kind \in {"ends2300", "ends0100", "ends0230"}
      BY <3>1 DEF HasNight, NightEnd
    <3>3. /\ NightEnd["ends2300"] = Clock(23, 0) /\ NightEnd["ends0100"] = Clock(1, 0)
          /\ NightEnd["ends0230"] = Clock(2, 30)
      BY DEF NightEnd
    <3>4. PICK last \in Nat : last = NightEnd[kind]
      BY <3>2, <3>3, ClockHours
    <3>5. PICK evening \in Nat, night \in Nat, early \in Nat :
             evening = Clock(20, 55) /\ night = Clock(23, 0) /\ early = Clock(1, 0)
      BY ClockHours
    <3>6. dusk < evening /\ evening < night /\ early < dawn /\ dawn < dusk
      <4>1. Clock(2, 30) < Clock(20, 0)
        BY SMT DEF Clock
      <4> QED
        BY <1>0, <3>5, <4>1, ClockHours
    <3>7. time >= evening \/ (last < evening /\ time <= last)
      BY <3>1, <3>4, <3>5 DEF InWindow
    <3>8. last \in {night, early, dawn} /\ (last # night => kind \in {"ends0100", "ends0230"})
      BY <1>0, <3>2, <3>3, <3>4, <3>5
    <3>9. CASE time >= evening
      BY <3>1, <3>5, <3>9
    <3>10. CASE last < evening /\ time <= last
      <4>1. last # night /\ time < dusk
        BY <3>6, <3>8, <3>10
      <4>2. is_midnight_night_session_time(kind, time)
        BY <3>4, <3>8, <3>10, <4>1 DEF is_midnight_night_session_time
      <4> QED
        BY <1>0, <4>1, <4>2
    <3> QED
      BY <3>7, <3>9, <3>10
  <2> QED
    BY <2>1, <2>2, <2>3
<1> QED
  BY <1>2, <1>3, <1>4 DEF Kinds

\* An instrument whose sessions are known, at a time when it is recorded, on a
\* weekday unless it is night: whichever day the front named, the row goes to
\* the trading day.
LEMMA RecordingDayIsRight ==
    ASSUME NEW kind \in Kinds \ {"other"}, NEW day \in Nat, NEW time \in Nat,
           NEW sent \in {day, TradingDayOf(day, time)}, sent # NoDay,
           DayTime(time) => IsWeekday(day),
           should_record_tick_in_trading_session(kind, time)
    PROVE  infer_recording_trading_day(sent, kind, day, time) = TradingDayOf(day, time)
<1>1. /\ current_or_next_weekday_label(day) = NextWeekday(day)
      /\ next_weekday_label(day) = NextWeekday(day + 1)
  BY LabelIsNextWeekday DEF next_weekday_label
<1>2. PICK d0 \in Nat, d1 \in Nat :
         d0 = NextWeekday(day) /\ d1 = NextWeekday(day + 1) /\ day <= d0 /\ day <= d1
  BY DEF NextWeekday
<1>3. TradingDayOf(day, time) = IF time >= Clock(20, 0) THEN d1 ELSE d0
  BY <1>2, TradingDayIsNextWeekday
<1>4. sent \in Nat
  BY <1>2, <1>3
<1>5. CASE HasNight(kind) /\ time >= Clock(20, 55)
  <2>1. TradingDayOf(day, time) = d1
    BY <1>3, <1>5, ClockHours
  <2>2. ~is_midnight_night_session_time(kind, time)
    <3>1. NightEnd["ends0100"] = Clock(1, 0) /\ NightEnd["ends0230"] = Clock(2, 30)
      BY DEF NightEnd
    <3>2. Clock(1, 0) < Clock(20, 55) /\ Clock(2, 30) < Clock(20, 55)
      BY SMT DEF Clock
    <3>3. PICK early \in Nat, dawn \in Nat, evening \in Nat :
             early = Clock(1, 0) /\ dawn = Clock(2, 30) /\ evening = Clock(20, 55)
      BY ClockHours
    <3>4. ~(time <= early) /\ ~(time <= dawn)
      BY <1>5, <3>2, <3>3
    <3> QED
      BY <3>1, <3>3, <3>4 DEF is_midnight_night_session_time
  <2>3. infer_recording_trading_day(sent, kind, day, time) = prefer_later_trading_day(sent, d1)
    BY <1>1, <1>2, <1>5, <2>2 DEF infer_recording_trading_day
  <2> QED
    BY <1>2, <1>4, <2>1, <2>3, MaxOfTwo
<1>6. CASE ~(HasNight(kind) /\ time >= Clock(20, 55)) /\ is_midnight_night_session_time(kind, time)
           /\ time < Clock(20, 0)
  <2>1. TradingDayOf(day, time) = d0
    BY <1>3, <1>6, ClockHours
  <2>2. infer_recording_trading_day(sent, kind, day, time) = prefer_later_trading_day(sent, d0)
    BY <1>1, <1>2, <1>6 DEF infer_recording_trading_day
  <2> QED
    BY <1>2, <1>4, <2>1, <2>2, MaxOfTwo
<1>7. CASE ~(HasNight(kind) /\ time >= Clock(20, 55)) /\ ~is_midnight_night_session_time(kind, time)
           /\ DayTime(time)
  <2>1. d0 = day
    BY <1>2, <1>7, WeekTurns DEF NextWeekday, IsWeekday
  <2>2. TradingDayOf(day, time) = day
    BY <1>3, <1>7, <2>1, ClockHours DEF DayTime
  <2>3. infer_recording_trading_day(sent, kind, day, time) = sent
    BY <1>7 DEF infer_recording_trading_day
  <2> QED
    BY <2>2, <2>3
<1>8. CASE ~(HasNight(kind) /\ time >= Clock(20, 55)) /\ is_midnight_night_session_time(kind, time)
           /\ DayTime(time)
  BY <1>6, <1>8 DEF DayTime
<1> QED
  BY <1>5, <1>6, <1>7, <1>8, SessionsAre

-----------------------------------------------------------------------------
(* The end of a recorder: no callback, then no writer.                     *)

\* A session that hears nothing and is not being connected.
Dormant == step = "idle" /\ ~md.api /\ ~md.front /\ ~md.ready /\ ~md.asked

StopOrder ==
    /\ md \in Session
    /\ phase = "stopping" => step = "idle"
    /\ phase \in {"draining", "stopped"} => Dormant
    /\ stopping.writer => phase \in {"draining", "stopped"}

LEMMA ReleaseSilences ==
    ASSUME md \in Session, md' = Released(md), step' = "idle"
    PROVE  md' \in Session /\ Dormant'
BY DEF Released, Session, Dormant

LEMMA ReleaseTyped ==
    ASSUME md \in Session
    PROVE  Released(md) \in Session
BY DEF Released, Session

LEMMA ConnectTyped ==
    ASSUME md \in Session, Connect
    PROVE  md' \in Session /\ phase' = phase /\ step # "idle"
<1>1. CASE StartConnect
  <2>1. Released(md) \in Session /\ 0 \in 0 .. Batches
    BY ReleaseTyped, BoundsAssumption
  <2>2. PICK r : r = Released(md)
    OBVIOUS
  <2>3. md' = [r EXCEPT !.api = TRUE, !.error = "none", !.subscribed = 0]
    BY <1>1, <2>2 DEF StartConnect, Created
  <2>4. md' \in Session
    BY <2>1, <2>2, <2>3 DEF Session
  <2> QED
    BY <1>1, <2>4 DEF StartConnect
<1>2. CASE CreateFails
  BY <1>2, ReleaseTyped DEF CreateFails
<1>3. CASE FrontAwaited
  BY <1>3 DEF FrontAwaited, Session
<1>4. CASE LoginAwaited \/ WaitTimesOut \/ CheckReady \/ SubscribeFails
  BY <1>4 DEF LoginAwaited, WaitTimesOut, CheckReady, SubscribeFails
<1>5. CASE SubscribeBatch
  <2>1. md.subscribed + 1 \in 0 .. Batches
    BY <1>5, BoundsAssumption DEF SubscribeBatch, Session
  <2> QED
    BY <1>5, <2>1 DEF SubscribeBatch, Session
<1>6. CASE FinishConnect
  BY <1>6 DEF FinishConnect, Session
<1> QED
  BY <1>1, <1>2, <1>3, <1>4, <1>5, <1>6 DEF Connect

LEMMA CallbackTyped ==
    ASSUME md \in Session, Callback \/ Rested
    PROVE  md' \in Session /\ phase' = phase /\ step' = step /\ (Dormant => Dormant')
<1>1. CASE OnFrontConnected
  BY <1>1 DEF OnFrontConnected, Session, Dormant
<1>2. CASE OnFrontDisconnected
  BY <1>2 DEF OnFrontDisconnected, Session, Dormant
<1>3. CASE OnRspUserLogin
  BY <1>3 DEF OnRspUserLogin, Session, Dormant
<1>4. CASE OnRspError
  BY <1>4 DEF OnRspError, Session, Dormant
<1>5. CASE Rested
  BY <1>5 DEF Rested, Session, Dormant
<1> QED
  BY <1>1, <1>2, <1>3, <1>4, <1>5 DEF Callback

\* Whatever the session does, a program that is ending hears less and less.
LEMMA SessionObeysStop ==
    ASSUME StopOrder, Connect \/ EnsureReady \/ Callback \/ Rested, UNCHANGED stopping
    PROVE  StopOrder' /\ phase' = phase
<1>0. md \in Session
  BY DEF StopOrder
<1>1. CASE Connect
  <2>1. md' \in Session /\ phase' = phase /\ step # "idle"
    BY <1>0, <1>1, ConnectTyped
  <2> QED
    BY <2>1 DEF StopOrder, Dormant
<1>2. CASE EnsureReady
  <2>1. md.attempts + 1 \in Nat
    BY <1>0 DEF Session
  <2>2. md' \in Session
    BY <1>0, <1>2, <2>1 DEF EnsureReady, Session
  <2>3. phase \in {"waiting", "running"} /\ phase' = phase
    BY <1>2 DEF EnsureReady
  <2> QED
    BY <2>2, <2>3 DEF StopOrder
<1>3. CASE Callback \/ Rested
  <2>1. md' \in Session /\ phase' = phase /\ step' = step /\ (Dormant => Dormant')
    BY <1>0, <1>3, CallbackTyped
  <2> QED
    BY <2>1 DEF StopOrder
<1> QED
  BY <1>1, <1>2, <1>3

\* The writer never touches the session, and only its caller sets its stop.
LEMMA WriterObeysStop ==
    ASSUME StopOrder, UNCHANGED <<md, step, phase>>, stopping'.writer = stopping.writer
    PROVE  StopOrder'
BY DEF StopOrder, Dormant

LEMMA WriterKeepsFlag ==
    ASSUME NEW R, WriterInv(R), WriterStep \/ IdleRound \/ WriterFails \/ StopRequested
    PROVE  stopping'.writer = stopping.writer
<1>1. stopping \in [writer : BOOLEAN, program : BOOLEAN, fatal : BOOLEAN, code : 0 .. 1]
  BY DEF WriterInv, WriterTyped
<1>2. \/ stopping' = stopping
      \/ stopping' = [stopping EXCEPT !.fatal = TRUE]
      \/ stopping' = [stopping EXCEPT !.program = TRUE]
  BY DEF WriterStep, TakeBatch, WriteRow, EndRound, ExitWriter, FailureStopsProgram, IdleRound,
         WriterFails, StopRequested
<1> QED
  BY <1>1, <1>2

\* A tick cannot be queued behind a writer that has ended.
LEMMA TicksFindTheWriter ==
    ASSUME NEW R, WriterInv(R), StopOrder, md.ready
    PROVE  writer.pc # "exited"
BY DEF WriterInv, EndIsOrderly, StopOrder, Dormant

-----------------------------------------------------------------------------
(* The CSV recorder.                                                       *)

CsvRows == {row \in CsvRow : row.file[2] = row.stream}

QueuedTick == [day : Nat, moment : Nat, payload : Payloads \union {0}]

Feed == [now : 1 .. Len(Moments), received : Nat, sessionDay : Nat, last : [Symbols -> QueuedTick]]

CsvInv == WriterInv(CsvRows) /\ StopOrder /\ feed \in Feed

LEMMA CsvRowsAreRows == IsRows(CsvRows)
BY CsvAssumption DEF IsRows, CsvRows, CsvRow

LEMMA DaysTyped ==
    ASSUME NEW moment \in 1 .. Len(Moments)
    PROVE  Day(moment) \in Nat \ {0} /\ Time(moment) \in Nat /\ TrueDay(moment) \in Nat \ {0}
<1>1. PICK m \in (Nat \ {0}) \X Nat : m = Moments[moment]
  BY MomentsAssumption DEF NoDay
<1>2. Day(moment) \in Nat \ {0} /\ Time(moment) \in Nat
  BY <1>1 DEF Day, Time
<1>3. NextWeekday(Day(moment)) \in Nat \ {0} /\ NextWeekday(Day(moment) + 1) \in Nat \ {0}
  BY <1>2 DEF NextWeekday
<1> QED
  BY <1>2, <1>3, TradingDayIsNextWeekday DEF TrueDay

LEMMA CsvStarts ==
    ASSUME RecorderInit
    PROVE  CsvInv
<1>1. PICK left \in SUBSET LeftFiles :
        files = [f \in Files |-> IF f \in left THEN [rows |-> <<Header, OldRow(f)>>, flushed |-> 2]
                                               ELSE [rows |-> <<>>, flushed |-> 0]]
  BY DEF RecorderInit
<1>2. /\ queue = [pending |-> <<>>, accepted |-> <<>>]
      /\ writer = [pc |-> "waiting", batch |-> <<>>, stop |-> FALSE,
                   open |-> [s \in Streams |-> NoFile]]
      /\ stopping = [writer |-> FALSE, program |-> FALSE, fatal |-> FALSE, code |-> 0]
  BY DEF RecorderInit, WriterInit
<1>3. ASSUME NEW f \in left
      PROVE  /\ OldRow(f) \in CsvRows /\ OldRow(f).n = 0 /\ OldRow(f).file = f
             /\ OldRow(f) # Header
  <2>1. f \in Nat \X Symbols
    BY CsvAssumption
  <2>2. OldRow(f) \in CsvRow /\ OldRow(f).n = 0 /\ OldRow(f).file = f /\ OldRow(f).stream = f[2]
    BY <2>1 DEF OldRow, CsvRow
  <2> QED
    BY <2>2, CsvAssumption DEF CsvRows
<1>4. ASSUME NEW f \in Files
      PROVE  /\ files[f] \in [rows : Seq(CsvRows \union {Header}), flushed : Nat]
             /\ files[f].flushed = Len(files[f].rows)
             /\ FileIsRight(f, files[f].rows)
  <2>1. Written = 0
    BY <1>2 DEF Written
  <2>2. CASE f \in left
    <3>1. PICK row \in CsvRows : row = OldRow(f) /\ row.n = 0 /\ row.file = f /\ row # Header
      BY <1>3, <2>2
    <3>2. PICK lines : lines = <<Header, row>>
      OBVIOUS
    <3>3. files[f] = [rows |-> lines, flushed |-> 2]
      BY <1>1, <2>2, <3>1, <3>2
    <3>4. lines \in Seq(CsvRows \union {Header}) /\ Len(lines) = 2 /\ lines[1] = Header
          /\ lines[2] = row
      BY <3>2
    <3>5. Filed(f, lines)
      BY <3>1, <3>4 DEF Filed
    <3>6. Rising(lines)
      BY <3>4 DEF Rising
    <3>7. Complete(f, lines) /\ Headed(lines)
      BY <2>1, <3>1, <3>4 DEF Complete, Headed
    <3> QED
      BY <3>3, <3>4, <3>5, <3>6, <3>7 DEF FileIsRight
  <2>3. CASE f \notin left
    <3>1. files[f] = [rows |-> <<>>, flushed |-> 0]
      BY <1>1, <2>3
    <3>2. PICK lines : lines = <<>>
      OBVIOUS
    <3>3. FileIsRight(f, lines)
      BY <2>1, <3>2 DEF FileIsRight, Filed, Rising, Complete, Headed
    <3> QED
      BY <3>1, <3>2, <3>3
  <2> QED
    BY <2>2, <2>3
<1>5. WriterTyped(CsvRows)
  <2>1. files = [f \in Files |-> files[f]]
    BY <1>1
  <2>2. files \in [Files -> [rows : Seq(CsvRows \union {Header}), flushed : Nat]]
    BY <1>4, <2>1
  <2>3. \A f \in Files : files[f].flushed <= Len(files[f].rows)
    <3>1. \A f \in Files : files[f].flushed \in Nat /\ files[f].flushed = Len(files[f].rows)
      BY <1>4
    <3> QED
      BY <3>1
  <2> QED
    BY <1>2, <2>2, <2>3 DEF WriterTyped
<1>6. Numbered /\ InLine /\ EndIsOrderly
  BY <1>2 DEF Numbered, InLine, EndIsOrderly, Written
<1>7. OpenIsTrue
  <2>1. OpenFiles = {}
    BY <1>2 DEF OpenFiles
  <2> QED
    BY <1>2, <1>4, <2>1 DEF OpenIsTrue
<1>8. StopOrder
  <2>1. PICK limit \in Limits : md = NoSession(limit)
    BY DEF RecorderInit, SessionInit
  <2>2. 0 \in 0 .. Batches
    BY BoundsAssumption
  <2>3. md \in Session
    BY <2>1, <2>2 DEF NoSession, Session
  <2> QED
    BY <1>2, <2>3 DEF StopOrder, RecorderInit, SessionInit
<1>9. feed \in Feed
  <2>1. 1 \in 1 .. Len(Moments)
    BY MomentsAssumption
  <2> QED
    BY <2>1 DEF RecorderInit, Feed, QueuedTick, NoTick, NoDay
<1> QED
  BY <1>4, <1>5, <1>6, <1>7, <1>8, <1>9 DEF CsvInv, WriterInv

LEMMA LoginDayTyped ==
    ASSUME feed \in Feed, LoginDay
    PROVE  feed' \in Feed
<1>1. TrueDay(feed.now) \in Nat
  BY DaysTyped DEF Feed
<1>2. \E day \in Nat : feed' \in {feed, [feed EXCEPT !.sessionDay = day]}
  BY <1>1 DEF LoginDay, NoDay
<1> QED
  BY <1>2 DEF Feed

\* The callback queues rows of its symbols, numbered as they come.
LEMMA TickQueued ==
    ASSUME CsvInv, OnRtnDepthMarketData
    PROVE  CsvInv'
<1>1. PICK symbol, sent, payload, day, tick, row :
        /\ symbol \in Symbols /\ sent \in NamedDays /\ payload \in Payloads
        /\ day = RecordedDay(symbol, sent)
        /\ tick = [day |-> day, moment |-> feed.now, payload |-> payload]
        /\ row = [n |-> Len(queue.accepted) + 1, stream |-> symbol, file |-> <<day, symbol>>,
                  header |-> TRUE, moment |-> feed.now, payload |-> payload]
        /\ \/ UNCHANGED queue /\ feed' = [feed EXCEPT !.received = feed.received + 1]
           \/ /\ Push(row)
              /\ feed' = [feed EXCEPT !.received = feed.received + 1, !.last[symbol] = tick]
  BY DEF OnRtnDepthMarketData
<1>2. UNCHANGED <<writer, stopping, files, md, step, phase>> /\ md.ready
  BY DEF OnRtnDepthMarketData, KeepSession, sessionVars, Streaming
<1>3. /\ feed.now \in 1 .. Len(Moments) /\ feed.now \in Nat /\ feed.sessionDay \in Nat
      /\ feed.received + 1 \in Nat
  BY DEF CsvInv, Feed
<1>4. Day(feed.now) \in Nat /\ Time(feed.now) \in Nat /\ TrueDay(feed.now) \in Nat
  BY <1>3, DaysTyped
<1>5. day \in Nat
  <2>1. (IF sent = NoDay THEN feed.sessionDay ELSE sent) \in Nat
    BY <1>1, <1>3, <1>4 DEF NamedDays, NoDay
  <2> QED
    BY <1>1, <1>4, <2>1, RecordingDayTyped DEF RecordedDay
<1>6. Len(queue.accepted) + 1 \in Nat
  BY DEF CsvInv, WriterInv, WriterTyped
<1>7. row \in CsvRows /\ row.n = Len(queue.accepted) + 1
  BY <1>1, <1>3, <1>5, <1>6 DEF CsvRows, CsvRow
<1>8. feed' \in Feed
  <2>1. tick \in QueuedTick
    BY <1>1, <1>3, <1>5 DEF QueuedTick
  <2>2. [feed.last EXCEPT ![symbol] = tick] \in [Symbols -> QueuedTick]
    BY <2>1 DEF CsvInv, Feed
  <2>3. \/ feed' = [feed EXCEPT !.received = feed.received + 1]
        \/ feed' = [feed EXCEPT !.received = feed.received + 1,
                                !.last = [feed.last EXCEPT ![symbol] = tick]]
    BY <1>1
  <2> QED
    BY <1>3, <2>2, <2>3 DEF CsvInv, Feed
<1>9. StopOrder'
  BY <1>2, WriterObeysStop DEF CsvInv
<1>10. WriterInv(CsvRows)'
  <2>1. CASE UNCHANGED queue
    BY <1>2, <2>1, FlagSet DEF CsvInv
  <2>2. CASE Push(row)
    <3>1. writer.pc # "exited"
      BY <1>2, TicksFindTheWriter DEF CsvInv
    <3> QED
      BY <1>2, <1>7, <2>2, <3>1, CsvRowsAreRows, RowPushed DEF CsvInv
  <2> QED
    BY <1>1, <2>1, <2>2
<1> QED
  BY <1>8, <1>9, <1>10 DEF CsvInv

\* The main thread of the recorder.
LEMMA CsvMainKeeps ==
    ASSUME CsvInv, Main
    PROVE  CsvInv'
<1>0. /\ WriterInv(CsvRows) /\ StopOrder /\ feed \in Feed /\ md \in Session
      /\ stopping \in [writer : BOOLEAN, program : BOOLEAN, fatal : BOOLEAN, code : 0 .. 1]
  BY DEF CsvInv, StopOrder, WriterInv, WriterTyped
<1>1. feed' = feed /\ UNCHANGED <<queue, writer, files>>
  BY DEF Main, Started, StartFails, LoopEnds, EndWith, Disconnect, StopWriter, JoinWriter,
         KeepWriter, writerVars
<1>2. \/ \E code \in 0 .. 1 : stopping' = [stopping EXCEPT !.code = code]
      \/ stopping' = [stopping EXCEPT !.writer = TRUE]
      \/ stopping' = stopping
  BY DEF Main, Started, StartFails, LoopEnds, EndWith, Disconnect, StopWriter, JoinWriter,
         KeepWriter, writerVars
<1>3. WriterInv(CsvRows)'
  BY <1>0, <1>1, <1>2, FlagSet
<1>4. StopOrder'
  <2>1. CASE Started
    <3>1. md' \in Session /\ phase' = "running" /\ phase = "startup" /\ stopping' = stopping
      BY <1>0, <2>1, ReleaseTyped DEF Started, KeepWriter, writerVars
    <3> QED
      BY <1>0, <3>1 DEF StopOrder
  <2>2. CASE StartFails \/ LoopEnds
    <3>1. /\ md' = md /\ phase' = "stopping" /\ step' = "idle" /\ phase \in {"startup", "running"}
          /\ stopping'.writer = stopping.writer
      BY <1>0, <2>2 DEF StartFails, LoopEnds, EndWith
    <3> QED
      BY <1>0, <3>1 DEF StopOrder
  <2>3. CASE Disconnect
    <3>1. /\ md' = Released(md) /\ step' = "idle" /\ phase' = "draining" /\ stopping' = stopping
      BY <1>0, <2>3 DEF Disconnect, KeepWriter, writerVars, StopOrder
    <3>2. md' \in Session /\ Dormant'
      BY <1>0, <3>1, ReleaseSilences
    <3> QED
      BY <3>1, <3>2 DEF StopOrder
  <2>4. CASE StopWriter \/ JoinWriter
    <3>1. /\ UNCHANGED <<md, step>> /\ phase = "draining" /\ phase' \in {"draining", "stopped"}
      BY <2>4 DEF StopWriter, JoinWriter, KeepSession, sessionVars
    <3> QED
      BY <1>0, <3>1 DEF StopOrder, Dormant
  <2> QED
    BY <2>1, <2>2, <2>3, <2>4 DEF Main
<1> QED
  BY <1>0, <1>1, <1>3, <1>4 DEF CsvInv

LEMMA CsvStep ==
    ASSUME CsvInv, [RecorderNext]_recorderVars
    PROVE  CsvInv'
<1>0. WriterInv(CsvRows) /\ StopOrder /\ feed \in Feed
  BY DEF CsvInv
<1>1. CASE Main
  BY <1>1, CsvMainKeeps
<1>2. CASE Reconnects
  <2>1. Connect \/ EnsureReady \/ Callback \/ Rested
    BY <1>2 DEF Reconnects, SessionNext
  <2>2. LoginDay /\ UNCHANGED <<queue, writer, stopping, files>>
    BY <1>2 DEF Reconnects, KeepWriter, writerVars
  <2>3. StopOrder'
    BY <1>0, <2>1, <2>2, SessionObeysStop
  <2>4. feed' \in Feed
    BY <1>0, <2>2, LoginDayTyped
  <2>5. WriterInv(CsvRows)'
    BY <1>0, <2>2, FlagSet
  <2> QED
    BY <2>3, <2>4, <2>5 DEF CsvInv
<1>3. CASE Writes \/ WriteFails
  <2>1. /\ WriterStep \/ IdleRound \/ WriterFails
        /\ UNCHANGED <<md, step, phase, feed>>
    BY <1>3 DEF Writes, WriteFails, KeepSession, sessionVars
  <2>2. WriterInv(CsvRows)'
    BY <1>0, <2>1, CsvRowsAreRows, WriterActs
  <2>3. stopping'.writer = stopping.writer
    BY <1>0, <2>1, WriterKeepsFlag
  <2> QED
    BY <1>0, <2>1, <2>2, <2>3, WriterObeysStop DEF CsvInv
<1>4. CASE Signal
  <2>1. /\ StopRequested /\ UNCHANGED <<md, step, phase, feed>>
        /\ UNCHANGED <<queue, writer, files>> /\ stopping' = [stopping EXCEPT !.program = TRUE]
    BY <1>4 DEF Signal, StopRequested, KeepSession, sessionVars
  <2>2. WriterInv(CsvRows)'
    BY <1>0, <2>1, FlagSet
  <2>3. stopping'.writer = stopping.writer
    BY <1>0, <2>1, WriterKeepsFlag
  <2> QED
    BY <1>0, <2>1, <2>2, <2>3, WriterObeysStop DEF CsvInv
<1>5. CASE DropTick \/ TimePasses
  <2>1. UNCHANGED <<md, step, phase, queue, writer, stopping, files>>
    BY <1>5 DEF DropTick, TimePasses, KeepSession, KeepWriter, sessionVars, writerVars
  <2>2. feed' \in Feed
    <3>1. \/ feed' = [feed EXCEPT !.received = feed.received + 1]
          \/ feed.now < Len(Moments) /\ feed' = [feed EXCEPT !.now = feed.now + 1]
      BY <1>5 DEF DropTick, TimePasses
    <3>2. Len(Moments) \in Nat
      BY MomentsAssumption
    <3>3. feed.received + 1 \in Nat /\ (feed.now < Len(Moments) => feed.now + 1 \in 1 .. Len(Moments))
      BY <1>0, <3>2 DEF Feed
    <3> QED
      BY <1>0, <3>1, <3>3 DEF Feed
  <2>3. WriterInv(CsvRows)'
    BY <1>0, <2>1, FlagSet
  <2> QED
    BY <1>0, <2>1, <2>2, <2>3, WriterObeysStop DEF CsvInv
<1>6. CASE OnRtnDepthMarketData
  BY <1>6, TickQueued
<1>7. CASE UNCHANGED recorderVars
  <2>1. UNCHANGED <<md, step, phase, feed, queue, writer, stopping, files>>
    BY <1>7 DEF recorderVars
  <2>2. WriterInv(CsvRows)'
    BY <1>0, <2>1, FlagSet
  <2> QED
    BY <1>0, <2>1, <2>2, WriterObeysStop DEF CsvInv
<1> QED
  BY <1>1, <1>2, <1>3, <1>4, <1>5, <1>6, <1>7 DEF RecorderNext

(* The CSV recorder's files: one header in the first line, then the rows in  *)
(* the order of their callbacks, none left out; at whatever point the        *)
(* process dies, what is on disk is the oldest of what was accepted          *)
(* (writer_loop, ensure_output_for, push_row).                               *)
THEOREM CsvFilesAreWhole == RecorderSpec => []FilesAreWhole
<1>1. CsvInv => FilesAreWhole
  BY CsvRowsAreRows, FilesFollow DEF CsvInv
<1> QED
  BY <1>1, CsvStarts, CsvStep, PTL DEF RecorderSpec

(* A CSV recorder that has ended has every accepted row on disk: stop()      *)
(* silences the callbacks before it tells the writer, and the writer ends    *)
(* only in a round that finds the queue empty.                               *)
THEOREM CsvStopLosesNothing == RecorderSpec => []StopLosesNothing
<1>1. CsvInv => StopLosesNothing
  BY CsvRowsAreRows, FilesFollow DEF CsvInv
<1> QED
  BY <1>1, CsvStarts, CsvStep, PTL DEF RecorderSpec

-----------------------------------------------------------------------------
(* The day of a file.                                                      *)

\* By day the market is open on weekdays, and the sessions of every symbol are
\* known: the file of any other symbol is whatever the front names.
MarketHours ==
    /\ \A s \in Symbols : Kind[s] # "other"
    /\ \A m \in 1 .. Len(Moments) : DayTime(Time(m)) => IsWeekday(Day(m))

DayInv == CsvInv /\ SessionKeepsItsDay

LEMMA RecordedDayIsTrue ==
    ASSUME MarketHours, feed \in Feed, NEW symbol \in Symbols, NEW sent \in NamedDays,
           should_record_tick_in_trading_session(Kind[symbol], Time(feed.now))
    PROVE  RecordedDay(symbol, sent) = TrueDay(feed.now)
<1>1. PICK m \in 1 .. Len(Moments) : m = feed.now
  BY DEF Feed
<1>2. PICK day \in Nat \ {0}, time \in Nat : day = Day(m) /\ time = Time(m)
  BY DaysTyped
<1>3. TrueDay(m) = TradingDayOf(day, time) /\ TrueDay(m) # 0
  BY <1>2, DaysTyped DEF TrueDay
<1>4. PICK named : named = IF sent = NoDay THEN feed.sessionDay ELSE sent
  OBVIOUS
<1>5. named \in {day, TradingDayOf(day, time)} /\ named # NoDay
  BY <1>1, <1>2, <1>3, <1>4 DEF NamedDays, NoDay
<1>6. PICK kind \in Kinds \ {"other"} : kind = Kind[symbol]
  BY KindAssumption DEF MarketHours
<1>7. DayTime(time) => IsWeekday(day)
  BY <1>2 DEF MarketHours
<1>8. infer_recording_trading_day(named, kind, day, time) = TradingDayOf(day, time)
  BY <1>1, <1>2, <1>5, <1>6, <1>7, RecordingDayIsRight
<1> QED
  BY <1>1, <1>2, <1>3, <1>4, <1>6, <1>8 DEF RecordedDay

LEMMA DayStep ==
    ASSUME MarketHours, DayInv, [RecorderNext]_recorderVars
    PROVE  DayInv'
<1>0. CsvInv /\ feed \in Feed
  BY DEF DayInv, CsvInv
<1>1. CsvInv'
  BY <1>0, CsvStep
<1>2. CASE queue'.accepted = queue.accepted
  BY <1>1, <1>2 DEF DayInv, SessionKeepsItsDay, TrueDay, Day, Time
<1>3. CASE OnRtnDepthMarketData
  <2>1. PICK symbol, sent, payload, day, row :
          /\ symbol \in Symbols /\ sent \in NamedDays /\ payload \in Payloads
          /\ day = RecordedDay(symbol, sent)
          /\ row = [n |-> Len(queue.accepted) + 1, stream |-> symbol, file |-> <<day, symbol>>,
                    header |-> TRUE, moment |-> feed.now, payload |-> payload]
          /\ should_record_tick_in_trading_session(Kind[symbol], Time(feed.now))
          /\ UNCHANGED queue \/ Push(row)
    BY <1>3 DEF OnRtnDepthMarketData
  <2>2. row.file[1] = TrueDay(row.moment)
    <3>1. day = TrueDay(feed.now)
      BY <1>0, <2>1, RecordedDayIsTrue
    <3> QED
      BY <2>1, <3>1
  <2>3. CASE UNCHANGED queue
    BY <1>2, <2>3
  <2>4. CASE Push(row)
    <3>1. PICK a : a = queue.accepted
      OBVIOUS
    <3>2. a \in Seq(CsvRows) /\ Len(a) \in Nat
      BY <1>0, <3>1 DEF CsvInv, WriterInv, WriterTyped
    <3>3. PICK b : b = Append(a, row)
      OBVIOUS
    <3>4. queue'.accepted = b
      BY <2>4, <3>1, <3>3 DEF Push
    <3>5. \A i \in 1 .. Len(b) : b[i].stream \in Symbols => b[i].file[1] = TrueDay(b[i].moment)
      <4>1. \A i \in 1 .. Len(a) : a[i].stream \in Symbols => a[i].file[1] = TrueDay(a[i].moment)
        BY <3>1 DEF DayInv, SessionKeepsItsDay
      <4>2. Len(b) = Len(a) + 1 /\ \A i \in 1 .. Len(b) : b[i] = IF i <= Len(a) THEN a[i] ELSE row
        BY <3>2, <3>3
      <4> QED
        BY <2>2, <3>2, <4>1, <4>2
    <3> QED
      BY <1>1, <3>4, <3>5 DEF DayInv, SessionKeepsItsDay, TrueDay, Day, Time
  <2> QED
    BY <2>1, <2>3, <2>4
<1>4. CASE Main \/ Reconnects \/ Signal \/ DropTick \/ TimePasses \/ UNCHANGED recorderVars
  <2>1. queue' = queue
    BY <1>4 DEF Main, Started, StartFails, LoopEnds, EndWith, Disconnect, StopWriter, JoinWriter,
         Reconnects, Signal, StopRequested, DropTick, TimePasses, KeepWriter, writerVars, recorderVars
  <2> QED
    BY <1>2, <2>1
<1>5. CASE Writes \/ WriteFails
  <2>1. queue' = queue \/ queue' = [queue EXCEPT !.pending = <<>>]
    BY <1>5 DEF Writes, WriteFails, WriterStep, TakeBatch, WriteRow, EndRound, ExitWriter,
                FailureStopsProgram, IdleRound, WriterFails
  <2>2. queue \in [pending : Seq(CsvRows), accepted : Seq(CsvRows)]
    BY <1>0 DEF CsvInv, WriterInv, WriterTyped
  <2> QED
    BY <1>2, <2>1, <2>2
<1> QED
  BY <1>3, <1>4, <1>5 DEF RecorderNext

(* The file of a row is that of its trading day, for every day of the week,  *)
(* every session and whichever day the front names: the evening belongs to   *)
(* the next weekday, the small hours to the session that is running          *)
(* (infer_recording_trading_day, make_recorded_tick).                        *)
THEOREM RowsAreFiledByTheirDay ==
    ASSUME MarketHours
    PROVE  RecorderSpec => []SessionKeepsItsDay
<1>1. RecorderInit => DayInv
  <2> SUFFICES ASSUME RecorderInit PROVE DayInv
    OBVIOUS
  <2>1. queue.accepted = <<>>
    BY DEF RecorderInit, WriterInit
  <2> QED
    BY <2>1, CsvStarts DEF DayInv, SessionKeepsItsDay
<1>2. DayInv /\ [RecorderNext]_recorderVars => DayInv'
  BY DayStep
<1>3. DayInv => SessionKeepsItsDay
  BY DEF DayInv
<1> QED
  BY <1>1, <1>2, <1>3, PTL DEF RecorderSpec

-----------------------------------------------------------------------------
(* The arbitrage recorder's discovery.                                     *)

ArbSpec == ArbInit /\ [][ArbNext]_arbVars

Combinations == UNION {Listed[e] : e \in Range(Exchanges)}

Query == [asked : BOOLEAN, rest : SUBSET Combinations, kept : SUBSET Combinations,
          done : BOOLEAN, error : BOOLEAN]

Trader == [mode : {"trader_query", "configured"},
           pc : {"start", "front", "auth", "login", "query", "answer", "done"},
           front : BOOLEAN, auth : BOOLEAN, login : BOOLEAN, ready : BOOLEAN, error : BOOLEAN,
           asked : {"none", "auth", "login"}, next : Nat \ {0}, query : Query,
           found : SUBSET Combinations]

AskedSoFar == UNION {Listed[Exchanges[k]] : k \in 1 .. trader.next - 1}

\* A query that ended without an error left nothing behind.
QueryIsTrue ==
    trader.pc = "answer" =>
        /\ trader.next \in 1 .. Len(Exchanges)
        /\ trader.query.kept \union (Wanted \intersect trader.query.rest)
               = Wanted \intersect Listed[Exchanges[trader.next]]
        /\ trader.query.done /\ ~trader.query.error => trader.query.rest = {}

DiscoveryInv ==
    /\ trader \in Trader
    /\ trader.pc \in {"start", "front", "auth", "login"} => trader.next = 1 /\ trader.found = {}
    /\ trader.pc # "answer" => ~trader.query.asked
    /\ trader.pc \notin {"start", "done"} => trader.mode = "trader_query"
    /\ trader.pc \in {"query", "answer"} =>
           /\ trader.next \in 1 .. Len(Exchanges) + 1
           /\ trader.found = Wanted \intersect AskedSoFar
    /\ QueryIsTrue
    /\ NoPartialDiscovery

LEMMA NothingAsked == NoQuery \in Query /\ NoQuery.asked = FALSE
  BY DEF NoQuery, Query

\* A recorder starts with nothing found.
LEMMA DiscoveryStarts ==
    ASSUME ArbInit
    PROVE  DiscoveryInv
<1>1. PICK mode \in {"trader_query", "configured"} : trader = NewTrader(mode, "start")
  BY DEF ArbInit
<1>2. trader \in Trader
  BY <1>1, ArbAssumption DEF Trader, NewTrader, Query, NoQuery
<1> QED
  BY <1>1, <1>2, NothingAsked DEF DiscoveryInv, NewTrader, QueryIsTrue, NoPartialDiscovery

\* What the discoverer does itself.
LEMMA DiscoveryActs ==
    ASSUME DiscoveryInv, Discover
    PROVE  DiscoveryInv'
<1> USE ArbAssumption
<1>0. CASE UNCHANGED trader
  BY <1>0 DEF DiscoveryInv, QueryIsTrue, NoPartialDiscovery, AskedSoFar
<1>1. CASE StartDiscovery
  <2>1. trader.mode = "trader_query" /\ trader' = NewTrader(trader.mode, "front")
    BY <1>1 DEF StartDiscovery
  <2>2. trader' \in Trader
    BY <2>1 DEF Trader, NewTrader, Query, NoQuery
  <2> QED
    BY <2>1, <2>2, NothingAsked DEF DiscoveryInv, NewTrader, QueryIsTrue, NoPartialDiscovery
<1>2. CASE DiscoveryFrontAwaited \/ DiscoveryAuthAwaited \/ DiscoveryLoginAwaited
  <2>1. trader.pc \in {"front", "auth", "login"}
    BY <1>2 DEF DiscoveryFrontAwaited, DiscoveryAuthAwaited, DiscoveryLoginAwaited, Discovering
  <2>2. \/ \E to \in {"auth", "login"} : trader' = [trader EXCEPT !.pc = to, !.asked = to]
        \/ trader' = [trader EXCEPT !.pc = "query"]
    BY <1>2 DEF DiscoveryFrontAwaited, DiscoveryAuthAwaited, DiscoveryLoginAwaited
  <2>3. /\ trader' \in Trader /\ trader'.pc \in {"auth", "login", "query"}
        /\ trader'.mode = trader.mode /\ trader'.next = trader.next
        /\ trader'.query = trader.query /\ trader'.found = trader.found
    BY <2>2 DEF DiscoveryInv, Trader
  <2> QED
    BY <2>1, <2>3 DEF DiscoveryInv, QueryIsTrue, NoPartialDiscovery, AskedSoFar
<1>3. CASE AskExchange
  <2>1. /\ trader.pc = "query" /\ trader.next <= Len(Exchanges)
        /\ trader' = [trader EXCEPT !.pc = "answer",
                         !.query = [NoQuery EXCEPT !.asked = TRUE,
                                                   !.rest = Listed[Exchanges[trader.next]]]]
    BY <1>3 DEF AskExchange, Discovering
  <2>2. trader.next \in 1 .. Len(Exchanges)
    BY <2>1 DEF DiscoveryInv, Trader
  <2>3. Listed[Exchanges[trader.next]] \subseteq Combinations
    BY <2>2 DEF Combinations, Range
  <2>4. trader' \in Trader
    BY <2>1, <2>3 DEF DiscoveryInv, Trader, Query, NoQuery
  <2>5. /\ trader'.pc = "answer" /\ trader'.next = trader.next /\ trader'.mode = trader.mode
        /\ trader'.found = trader.found
        /\ trader'.query.rest = Listed[Exchanges[trader.next]]
        /\ trader'.query.kept = {} /\ trader'.query.done = FALSE
    BY <2>1 DEF DiscoveryInv, Trader, NoQuery
  <2> QED
    BY <2>1, <2>2, <2>4, <2>5 DEF DiscoveryInv, QueryIsTrue, NoPartialDiscovery, AskedSoFar
<1>4. CASE ExchangeAnswered
  <2>1. /\ trader.pc = "answer" /\ trader.query.done /\ ~trader.query.error
        /\ trader' = [trader EXCEPT !.pc = "query", !.next = @ + 1, !.query = NoQuery,
                                    !.found = @ \union trader.query.kept]
    BY <1>4 DEF ExchangeAnswered, Discovering
  <2>2. trader' \in Trader
    <3>1. trader.query.kept \in SUBSET Combinations
      BY DEF DiscoveryInv, Trader, Query
    <3> QED
      <4>1. trader.next + 1 \in Nat \ {0} /\ trader.found \union trader.query.kept \in SUBSET Combinations
        BY <3>1 DEF DiscoveryInv, Trader
      <4> QED
        BY <2>1, <4>1, NothingAsked DEF DiscoveryInv, Trader
  <2>3. /\ trader'.pc = "query" /\ trader'.next = trader.next + 1 /\ trader'.mode = trader.mode
        /\ trader'.found = trader.found \union trader.query.kept
        /\ trader'.query.asked = FALSE
    BY <2>1, NothingAsked DEF DiscoveryInv, Trader
  <2>4. trader.query.kept = Wanted \intersect Listed[Exchanges[trader.next]]
    BY <2>1 DEF DiscoveryInv, QueryIsTrue
  <2>5. AskedSoFar' = AskedSoFar \union Listed[Exchanges[trader.next]]
    <3>1. trader.next \in Nat \ {0}
      BY DEF DiscoveryInv, Trader
    <3>2. (1 .. trader'.next - 1) = (1 .. trader.next - 1) \union {trader.next}
      BY <2>3, <3>1
    <3> QED
      BY <3>2 DEF AskedSoFar
  <2>6. trader.mode = "trader_query" /\ trader.next \in 1 .. Len(Exchanges)
        /\ trader.found = Wanted \intersect AskedSoFar
    BY <2>1 DEF DiscoveryInv, QueryIsTrue
  <2>7. trader'.next \in 1 .. Len(Exchanges) + 1
    BY <2>3, <2>6
  <2>8. trader'.found = Wanted \intersect AskedSoFar'
    BY <2>3, <2>4, <2>5, <2>6
  <2> QED
    BY <2>2, <2>3, <2>6, <2>7, <2>8 DEF DiscoveryInv, QueryIsTrue, NoPartialDiscovery
<1>5. ASSUME NEW found \in SUBSET Combinations, InstrumentsKnown(found),
             trader.mode = "trader_query" => found = Wanted \intersect Combinations
      PROVE  DiscoveryInv'
  <2>1. trader' = [NewTrader(trader.mode, "done") EXCEPT !.found = found]
    BY <1>5 DEF InstrumentsKnown
  <2>2. trader' \in Trader
    <3>1. NewTrader(trader.mode, "done") \in Trader
      BY NothingAsked DEF DiscoveryInv, Trader, NewTrader
    <3> QED
      BY <1>5, <2>1, <3>1 DEF Trader
  <2>3. trader'.pc = "done" /\ trader'.mode = trader.mode /\ trader'.found = found
        /\ trader'.query.asked = FALSE
    BY <2>1, NothingAsked DEF NewTrader
  <2> QED
    BY <1>5, <2>2, <2>3 DEF DiscoveryInv, QueryIsTrue, NoPartialDiscovery, Combinations
<1>6. CASE FinishDiscovery
  <2>1. CASE Abort
    BY <1>0, <2>1 DEF Abort
  <2>2. CASE InstrumentsKnown(trader.found)
    <3>1. trader.pc = "query" /\ trader.next > Len(Exchanges)
      BY <1>6 DEF FinishDiscovery, Discovering
    <3>2. trader.next - 1 = Len(Exchanges) /\ trader.found = Wanted \intersect AskedSoFar
      BY <3>1 DEF DiscoveryInv
    <3>3. AskedSoFar = Combinations
      BY <3>2 DEF AskedSoFar, Combinations, Range
    <3>4. trader.found \in SUBSET Combinations
      BY <3>2, <3>3
    <3> QED
      BY <1>5, <2>2, <3>2, <3>3, <3>4
  <2> QED
    BY <1>6, <2>1, <2>2 DEF FinishDiscovery
<1>7. CASE LoadConfigured
  <2>1. trader.mode = "configured"
    BY <1>7 DEF LoadConfigured
  <2>2. PICK listed \in SUBSET Combinations : Abort \/ InstrumentsKnown(listed)
    BY <1>7 DEF LoadConfigured, Combinations
  <2> QED
    BY <1>0, <1>5, <2>1, <2>2 DEF Abort
<1>8. CASE DiscoveryRefused \/ DiscoveryTimesOut
  BY <1>0, <1>8 DEF DiscoveryRefused, DiscoveryTimesOut, Abort
<1> QED
  BY <1>1, <1>2, <1>3, <1>4, <1>6, <1>7, <1>8 DEF Discover

\* What the trader front tells it.
LEMMA DiscoveryHears ==
    ASSUME DiscoveryInv, DiscoveryCallback
    PROVE  DiscoveryInv'
<1>1. CASE DiscoveryFrontConnected \/ OnRspAuthenticate \/ OnRspDiscoveryLogin
  <2>1. /\ trader' \in Trader
        /\ trader'.mode = trader.mode /\ trader'.pc = trader.pc /\ trader'.next = trader.next
        /\ trader'.query = trader.query /\ trader'.found = trader.found
    BY <1>1 DEF DiscoveryInv, Trader, DiscoveryFrontConnected, OnRspAuthenticate,
                OnRspDiscoveryLogin
  <2> QED
    BY <2>1 DEF DiscoveryInv, QueryIsTrue, NoPartialDiscovery, AskedSoFar
<1>2. CASE DiscoveryFrontDisconnected
  <2>1. /\ trader' \in Trader
        /\ trader'.mode = trader.mode /\ trader'.pc = trader.pc /\ trader'.next = trader.next
        /\ trader'.query = [trader.query EXCEPT !.asked = FALSE] /\ trader'.found = trader.found
    BY <1>2, ZenonT(60) DEF DiscoveryInv, Trader, Query, DiscoveryFrontDisconnected
  <2>2. /\ trader'.query.kept = trader.query.kept /\ trader'.query.rest = trader.query.rest
        /\ trader'.query.done = trader.query.done /\ trader'.query.error = trader.query.error
    BY <2>1 DEF DiscoveryInv, Trader, Query
  <2>3. trader'.query.asked = FALSE
    BY <2>1 DEF DiscoveryInv, Trader, Query
  <2> QED
    BY <2>1, <2>2, <2>3 DEF DiscoveryInv, QueryIsTrue, NoPartialDiscovery, AskedSoFar
<1>3. CASE collect_instrument
  <2>1. trader.pc = "answer" /\ ~trader.query.done
    <3>1. trader.query.asked /\ ~trader.query.done
      BY <1>3 DEF collect_instrument
    <3> QED
      BY <3>1, NothingAsked DEF DiscoveryInv
  <2>2. ASSUME NEW i \in trader.query.rest,
               trader' = [trader EXCEPT !.query.rest = @ \ {i},
                                        !.query.kept = @ \union ({i} \intersect Wanted),
                                        !.query.done = trader.query.rest = {i}]
        PROVE  DiscoveryInv'
    <3>1. /\ trader'.mode = trader.mode /\ trader'.pc = trader.pc /\ trader'.next = trader.next
          /\ trader'.found = trader.found
          /\ trader'.query.rest = trader.query.rest \ {i}
          /\ trader'.query.kept = trader.query.kept \union ({i} \intersect Wanted)
          /\ trader'.query.done = (trader.query.rest = {i})
      BY <2>2 DEF DiscoveryInv, Trader, Query
    <3>2. trader' \in Trader
      BY <2>2, ZenonT(60) DEF DiscoveryInv, Trader, Query
    <3>3. QueryIsTrue'
      <4>1. trader'.query.kept \union (Wanted \intersect trader'.query.rest)
              = trader.query.kept \union (Wanted \intersect trader.query.rest)
        BY <3>1
      <4>2. trader'.query.done => trader'.query.rest = {}
        BY <3>1
      <4> QED
        BY <2>1, <3>1, <4>1, <4>2 DEF DiscoveryInv, QueryIsTrue
    <3> QED
      BY <2>1, <3>1, <3>2, <3>3 DEF DiscoveryInv, NoPartialDiscovery, AskedSoFar
  <2>3. CASE trader.query.rest = {} /\ trader' = [trader EXCEPT !.query.done = TRUE]
    <3>1. /\ trader'.mode = trader.mode /\ trader'.pc = trader.pc /\ trader'.next = trader.next
          /\ trader'.found = trader.found /\ trader'.query.rest = {}
          /\ trader'.query.kept = trader.query.kept /\ trader.query.rest = {}
      BY <2>3 DEF DiscoveryInv, Trader, Query
    <3>2. trader' \in Trader
      BY <2>3 DEF DiscoveryInv, Trader, Query
    <3> QED
      BY <2>1, <3>1, <3>2 DEF DiscoveryInv, QueryIsTrue, NoPartialDiscovery, AskedSoFar
  <2>4. CASE trader' = [trader EXCEPT !.query.done = TRUE, !.query.error = TRUE]
    <3>1. /\ trader'.mode = trader.mode /\ trader'.pc = trader.pc /\ trader'.next = trader.next
          /\ trader'.found = trader.found /\ trader'.query.rest = trader.query.rest
          /\ trader'.query.kept = trader.query.kept /\ trader'.query.error
      BY <2>4 DEF DiscoveryInv, Trader, Query
    <3>2. trader' \in Trader
      BY <2>4 DEF DiscoveryInv, Trader, Query
    <3> QED
      BY <2>1, <3>1, <3>2 DEF DiscoveryInv, QueryIsTrue, NoPartialDiscovery, AskedSoFar
  <2> QED
    BY <1>3, <2>2, <2>3, <2>4 DEF collect_instrument
<1> QED
  BY <1>1, <1>2, <1>3 DEF DiscoveryCallback

\* Nothing else touches the discoverer.
LEMMA DiscoveryStep ==
    ASSUME DiscoveryInv, [ArbNext]_arbVars
    PROVE  DiscoveryInv'
<1>1. ASSUME UNCHANGED trader PROVE DiscoveryInv'
  BY <1>1 DEF DiscoveryInv, QueryIsTrue, NoPartialDiscovery, AskedSoFar
<1>2. CASE ArbSession \/ arb_writer_loop \/ arb_signal \/ arb_OnRtnDepthMarketData
  BY <1>1, <1>2 DEF ArbSession, arb_writer_loop, arb_signal, arb_OnRtnDepthMarketData
<1>3. CASE ArbMain
  BY <1>1, <1>3 DEF ArbMain, arb_start, arb_loop, arb_leave, arb_stop
<1> QED
  BY <1>1, <1>2, <1>3, DiscoveryActs, DiscoveryHears DEF ArbNext, arbVars

(* A recorder that asked the trader front starts with every wanted           *)
(* combination of every exchange, however long the lists are and wherever a  *)
(* drop, an error or a time limit cuts the answers (query_all,               *)
(* collect_instrument).                                                      *)
THEOREM DiscoveryIsWhole == ArbSpec => []NoPartialDiscovery
<1>1. ArbInit => DiscoveryInv
  BY DiscoveryStarts
<1>2. DiscoveryInv /\ [ArbNext]_arbVars => DiscoveryInv'
  BY DiscoveryStep
<1>3. DiscoveryInv => NoPartialDiscovery
  BY DEF DiscoveryInv
<1> QED
  BY <1>1, <1>2, <1>3, PTL DEF ArbSpec

-----------------------------------------------------------------------------
(* The arbitrage recorder's files.                                         *)

Tape == [received : Nat, sessionDay : Days \union {NoDay}]

\* Until its instruments are known the recorder has no session.
NothingBefore == trader.pc # "done" => Dormant /\ phase \in {"startup", "stopped"}

ArbInv == WriterInv(ArbRow) /\ StopOrder /\ tape \in Tape /\ NothingBefore

LEMMA ArbRowsAreRows == IsRows(ArbRow)
BY ArbAssumption DEF IsRows, ArbRow

LEMMA ArbStarts ==
    ASSUME ArbInit
    PROVE  ArbInv
<1>1. /\ queue = [pending |-> <<>>, accepted |-> <<>>]
      /\ writer = [pc |-> "waiting", batch |-> <<>>, stop |-> FALSE,
                   open |-> [s \in Streams |-> NoFile]]
      /\ stopping = [writer |-> FALSE, program |-> FALSE, fatal |-> FALSE, code |-> 0]
      /\ files = [f \in Files |-> [rows |-> <<>>, flushed |-> 0]]
  BY DEF ArbInit, WriterInit
<1>2. WriterTyped(ArbRow)
  <2>1. <<>> \in Seq(ArbRow) /\ <<>> \in Seq(ArbRow \union {Header}) /\ Len(<<>>) = 0
    OBVIOUS
  <2> QED
    BY <1>1, <2>1 DEF WriterTyped
<1>3. Numbered /\ InLine /\ EndIsOrderly
  BY <1>1 DEF Numbered, InLine, EndIsOrderly, Written
<1>4. ASSUME NEW f \in Files PROVE FileIsRight(f, files[f].rows)
  <2>1. Written = 0
    BY <1>1 DEF Written
  <2>2. PICK lines : lines = <<>>
    OBVIOUS
  <2>3. FileIsRight(f, lines)
    BY <2>1, <2>2 DEF FileIsRight, Filed, Rising, Complete, Headed
  <2> QED
    BY <1>1, <2>2, <2>3
<1>5. OpenIsTrue
  <2>1. OpenFiles = {}
    BY <1>1 DEF OpenFiles
  <2> QED
    BY <1>1, <2>1 DEF OpenIsTrue
<1>6. StopOrder /\ Dormant /\ phase = "startup"
  <2>1. PICK limit \in Limits : md = NoSession(limit)
    BY DEF ArbInit, SessionInit
  <2>2. 0 \in 0 .. Batches
    BY BoundsAssumption
  <2>3. md \in Session /\ Dormant /\ phase = "startup"
    BY <2>1, <2>2 DEF NoSession, Session, Dormant, ArbInit, SessionInit
  <2> QED
    BY <1>1, <2>3 DEF StopOrder
<1>7. tape \in Tape
  BY DEF ArbInit, Tape
<1> QED
  BY <1>2, <1>3, <1>4, <1>5, <1>6, <1>7 DEF ArbInv, WriterInv, NothingBefore

LEMMA DiscoveryLeavesFiles ==
    ASSUME ArbInv, Discover \/ DiscoveryCallback
    PROVE  ArbInv'
<1>0. /\ WriterInv(ArbRow) /\ StopOrder /\ tape \in Tape /\ NothingBefore /\ md \in Session
      /\ stopping \in [writer : BOOLEAN, program : BOOLEAN, fatal : BOOLEAN, code : 0 .. 1]
  BY DEF ArbInv, StopOrder, WriterInv, WriterTyped
<1> DEFINE D == /\ UNCHANGED <<md, queue, writer, files, tape>>
                /\ \/ UNCHANGED <<step, phase, stopping>>
                   \/ /\ Dormant /\ trader' = trader /\ phase' = "stopped" /\ step' = step
                      /\ stopping' = [stopping EXCEPT !.code = 1]
                   \/ /\ trader'.pc = "done" /\ phase = "startup"
                      /\ step' = "connect" /\ UNCHANGED <<phase, stopping>>
                /\ trader'.pc # "done" => trader.pc # "done"
<1>1. trader.pc # "done" => Dormant
  BY <1>0 DEF NothingBefore
<1>2. ASSUME StartDiscovery \/ DiscoveryFrontAwaited \/ DiscoveryAuthAwaited \/ DiscoveryLoginAwaited
           \/ AskExchange \/ ExchangeAnswered PROVE D
  <2>1. /\ UNCHANGED <<md, queue, writer, files, tape, step, phase, stopping>> /\ trader.pc # "done"
    BY <1>2 DEF StartDiscovery, DiscoveryFrontAwaited, DiscoveryAuthAwaited, DiscoveryLoginAwaited,
         AskExchange, ExchangeAnswered, KeepRecorder, KeepSession, KeepWriter, sessionVars, writerVars,
         Discovering
  <2> QED
    BY <2>1
<1>3. ASSUME DiscoveryRefused \/ DiscoveryTimesOut PROVE D
  <2>1. Abort /\ trader.pc # "done"
    BY <1>3 DEF DiscoveryRefused, DiscoveryTimesOut, Discovering
  <2> QED
    BY <1>1, <2>1 DEF Abort
<1>4. ASSUME FinishDiscovery \/ LoadConfigured PROVE D
  <2>1. trader.pc # "done" /\ phase = "startup" /\ (Abort \/ \E found : InstrumentsKnown(found))
    BY <1>4 DEF FinishDiscovery, LoadConfigured, Discovering
  <2>2. ASSUME Abort PROVE D
    BY <1>1, <2>1, <2>2 DEF Abort
  <2>3. ASSUME NEW found, InstrumentsKnown(found) PROVE D
    <3>1. trader'.pc = "done"
      BY <2>3 DEF InstrumentsKnown, NewTrader
    <3> QED
      BY <2>1, <2>3, <3>1 DEF InstrumentsKnown, KeepWriter, writerVars
  <2> QED
    BY <2>1, <2>2, <2>3
<1>5. ASSUME DiscoveryCallback PROVE D
  <2>1. UNCHANGED <<md, queue, writer, files, tape, step, phase, stopping>>
    BY <1>5 DEF DiscoveryCallback, DiscoveryFrontConnected, DiscoveryFrontDisconnected,
         OnRspAuthenticate, OnRspDiscoveryLogin, collect_instrument, KeepRecorder, KeepSession,
         KeepWriter, sessionVars, writerVars
  <2>2. trader'.pc # "done" => trader.pc # "done"
    BY <1>5 DEF DiscoveryCallback, DiscoveryFrontConnected, DiscoveryFrontDisconnected,
         OnRspAuthenticate, OnRspDiscoveryLogin, collect_instrument, DiscoveryUp
  <2> QED
    BY <2>1, <2>2
<1>6. D
  BY <1>2, <1>3, <1>4, <1>5 DEF Discover
<1>7. WriterInv(ArbRow)'
  <2>1. (\E code \in 0 .. 1 : stopping' = [stopping EXCEPT !.code = code]) \/ stopping' = stopping
    BY <1>6
  <2> QED
    BY <1>0, <1>6, <2>1, FlagSet
<1>8. stopping'.writer = stopping.writer
  BY <1>0, <1>6
<1>9. StopOrder' /\ NothingBefore'
  <2>1. CASE UNCHANGED <<step, phase, stopping>>
    BY <1>0, <1>6, <2>1 DEF StopOrder, NothingBefore, Dormant
  <2>2. CASE Dormant /\ trader' = trader /\ phase' = "stopped" /\ step' = step
    BY <1>0, <1>6, <1>8, <2>2 DEF StopOrder, NothingBefore, Dormant
  <2>3. CASE trader'.pc = "done" /\ phase = "startup" /\ UNCHANGED <<phase, stopping>>
    BY <1>0, <1>6, <2>3 DEF StopOrder, NothingBefore
  <2> QED
    BY <1>6, <2>1, <2>2, <2>3
<1> QED
  BY <1>0, <1>6, <1>7, <1>9 DEF ArbInv

LEMMA ArbSessionKeeps ==
    ASSUME ArbInv, ArbSession
    PROVE  ArbInv'
<1>0. WriterInv(ArbRow) /\ StopOrder /\ tape \in Tape /\ NothingBefore /\ md \in Session
  BY DEF ArbInv, StopOrder
<1>1. Connect \/ EnsureReady \/ Callback \/ Rested
  BY DEF ArbSession, arb_connect, arb_ensure_ready, ArbCallback
<1>2. UNCHANGED <<queue, writer, stopping, files, trader>>
  BY DEF ArbSession, KeepWriter, writerVars
<1>3. tape' \in Tape
  <2>1. \E day \in Days \union {NoDay} : tape' \in {tape, [tape EXCEPT !.sessionDay = day]}
    <3>1. CASE arb_connect
      BY <3>1 DEF arb_connect
    <3>2. CASE ArbCallback
      BY <3>2 DEF ArbCallback
    <3>3. CASE arb_ensure_ready \/ (Rested /\ UNCHANGED tape)
      BY <3>3 DEF arb_ensure_ready
    <3> QED
      BY <3>1, <3>2, <3>3 DEF ArbSession
  <2> QED
    BY <1>0, <2>1 DEF Tape
<1>4. StopOrder' /\ phase' = phase
  BY <1>0, <1>1, <1>2, SessionObeysStop
<1>5. NothingBefore'
  <2>1. CASE trader.pc # "done"
    <3>1. Dormant /\ phase \in {"startup", "stopped"}
      BY <1>0, <2>1 DEF NothingBefore
    <3>2. ~Connect /\ ~EnsureReady
      <4>1. Connect => step # "idle"
        BY <1>0, ConnectTyped
      <4> QED
        BY <3>1, <4>1 DEF Dormant, EnsureReady
    <3>3. Dormant'
      BY <1>0, <1>1, <3>1, <3>2, CallbackTyped
    <3> QED
      BY <1>4, <3>1, <3>3 DEF NothingBefore
  <2> QED
    BY <1>2, <2>1 DEF NothingBefore
<1>6. WriterInv(ArbRow)'
  BY <1>0, <1>2, FlagSet
<1> QED
  BY <1>3, <1>4, <1>5, <1>6 DEF ArbInv

LEMMA ArbMainKeeps ==
    ASSUME ArbInv, ArbMain
    PROVE  ArbInv'
<1>0. /\ WriterInv(ArbRow) /\ StopOrder /\ tape \in Tape /\ NothingBefore /\ md \in Session
      /\ stopping \in [writer : BOOLEAN, program : BOOLEAN, fatal : BOOLEAN, code : 0 .. 1]
  BY DEF ArbInv, StopOrder, WriterInv, WriterTyped
<1>1. UNCHANGED <<tape, trader, queue, writer, files>>
  BY DEF ArbMain, arb_start, arb_loop, arb_leave, arb_stop, writerVars
<1>2. \/ \E code \in 0 .. 1 : stopping' = [stopping EXCEPT !.code = code]
      \/ stopping' = [stopping EXCEPT !.writer = TRUE]
      \/ stopping' = stopping
  BY DEF ArbMain, arb_start, arb_loop, arb_leave, arb_stop, writerVars
<1>3. WriterInv(ArbRow)'
  BY <1>0, <1>1, <1>2, FlagSet
<1>4. CASE arb_start
  <2>1. /\ md' \in Session /\ phase' = "running" /\ phase = "startup" /\ stopping' = stopping
        /\ trader'.pc = "done"
    BY <1>0, <1>1, <1>4, ReleaseTyped DEF arb_start, writerVars
  <2> QED
    BY <1>0, <1>1, <1>3, <2>1 DEF StopOrder, NothingBefore, ArbInv
<1>5. CASE arb_loop
  <2>1. /\ md' = md /\ phase' = "stopping" /\ step' = "idle" /\ phase \in {"startup", "running"}
        /\ stopping'.writer = stopping.writer /\ (phase = "startup" => step # "idle")
    BY <1>0, <1>5 DEF arb_loop, arb_leave
  <2>2. trader.pc = "done"
    BY <1>0, <2>1 DEF NothingBefore, Dormant
  <2> QED
    BY <1>0, <1>1, <1>3, <2>1, <2>2 DEF StopOrder, NothingBefore, ArbInv
<1>6. CASE arb_stop
  <2>1. UNCHANGED step /\ phase \in {"stopping", "draining"}
    BY <1>6 DEF arb_stop
  <2>2. trader.pc = "done"
    BY <1>0, <2>1 DEF NothingBefore
  <2>3. CASE phase = "stopping" /\ md' = Released(md) /\ phase' = "draining" /\ UNCHANGED stopping
    <3>1. step' = "idle"
      BY <1>0, <2>1, <2>3 DEF StopOrder
    <3>2. md' \in Session /\ Dormant'
      BY <1>0, <2>3, <3>1, ReleaseSilences
    <3> QED
      BY <1>0, <1>1, <1>3, <2>2, <2>3, <3>2 DEF StopOrder, NothingBefore, ArbInv
  <2>4. CASE phase = "draining" /\ md' = md /\ phase' \in {"draining", "stopped"}
    <3>1. StopOrder'
      BY <1>0, <2>1, <2>4 DEF StopOrder, Dormant
    <3> QED
      BY <1>0, <1>1, <1>3, <2>2, <3>1 DEF NothingBefore, ArbInv
  <2> QED
    BY <1>6, <2>3, <2>4 DEF arb_stop
<1> QED
  BY <1>4, <1>5, <1>6 DEF ArbMain

LEMMA ArbTickQueued ==
    ASSUME ArbInv, arb_OnRtnDepthMarketData
    PROVE  ArbInv'
<1>0. WriterInv(ArbRow) /\ StopOrder /\ tape \in Tape /\ NothingBefore
  BY DEF ArbInv
<1>1. /\ UNCHANGED <<writer, stopping, files, trader, md, step, phase>> /\ md.ready
      /\ tape' = [tape EXCEPT !.received = tape.received + 1]
  BY DEF arb_OnRtnDepthMarketData, KeepSession, sessionVars
<1>2. tape' \in Tape
  BY <1>0, <1>1 DEF Tape
<1>3. UNCHANGED queue \/ \E row \in ArbRow : row.n = Len(queue.accepted) + 1 /\ Push(row)
  <2> SUFFICES ASSUME ~UNCHANGED queue
               PROVE  \E row \in ArbRow : row.n = Len(queue.accepted) + 1 /\ Push(row)
    OBVIOUS
  <2>1. PICK sent, action, day, row :
          /\ sent \in Days \union {NoDay} /\ action \in Days
          /\ day = trading_day_for_record(sent, tape.sessionDay, action, action)
          /\ row = [n |-> Len(queue.accepted) + 1, stream |-> "daily", file |-> <<day, "daily">>,
                    header |-> FALSE]
          /\ Push(row)
    BY DEF arb_OnRtnDepthMarketData
  <2>2. day \in Days \union {NoDay}
    <3>1. tape.sessionDay \in Days \union {NoDay}
      BY <1>0 DEF Tape
    <3>2. day \in {sent, tape.sessionDay, action}
      <4>1. CASE sent # NoDay /\ tape.sessionDay # NoDay
        BY <2>1, <4>1 DEF trading_day_for_record
      <4> QED
        BY <2>1, <4>1 DEF trading_day_for_record
    <3> QED
      BY <2>1, <3>1, <3>2
  <2>3. Len(queue.accepted) + 1 \in Nat
    BY <1>0 DEF WriterInv, WriterTyped
  <2> QED
    BY <2>1, <2>2, <2>3 DEF ArbRow
<1>4. WriterInv(ArbRow)'
  <2>1. writer.pc # "exited"
    BY <1>0, <1>1, TicksFindTheWriter
  <2> QED
    BY <1>0, <1>1, <1>3, <2>1, ArbRowsAreRows, RowPushed, FlagSet
<1>5. StopOrder'
  BY <1>0, <1>1, WriterObeysStop
<1> QED
  BY <1>0, <1>1, <1>2, <1>4, <1>5 DEF ArbInv, NothingBefore, Dormant

LEMMA ArbFilesStep ==
    ASSUME ArbInv, [ArbNext]_arbVars
    PROVE  ArbInv'
<1>0. WriterInv(ArbRow) /\ StopOrder /\ tape \in Tape /\ NothingBefore
  BY DEF ArbInv
<1>1. CASE arb_writer_loop
  <2>1. /\ WriterStep \/ IdleRound \/ WriterFails
        /\ UNCHANGED <<md, step, phase, trader, tape>>
    BY <1>1 DEF arb_writer_loop
  <2>2. WriterInv(ArbRow)'
    BY <1>0, <2>1, ArbRowsAreRows, WriterActs
  <2>3. StopOrder'
    BY <1>0, <2>1, WriterKeepsFlag, WriterObeysStop
  <2> QED
    BY <1>0, <2>1, <2>2, <2>3 DEF ArbInv, NothingBefore, Dormant
<1>2. CASE arb_signal
  <2>1. /\ StopRequested /\ UNCHANGED <<md, step, phase, trader, tape>>
        /\ UNCHANGED <<queue, writer, files>> /\ stopping' = [stopping EXCEPT !.program = TRUE]
    BY <1>2 DEF arb_signal, StopRequested, KeepSession, sessionVars
  <2>2. WriterInv(ArbRow)'
    BY <1>0, <2>1, FlagSet
  <2>3. StopOrder'
    BY <1>0, <2>1, WriterKeepsFlag, WriterObeysStop
  <2> QED
    BY <1>0, <2>1, <2>2, <2>3 DEF ArbInv, NothingBefore, Dormant
<1>3. CASE UNCHANGED arbVars
  <2>1. UNCHANGED <<md, step, phase, queue, writer, stopping, files, trader, tape>>
    BY <1>3 DEF arbVars
  <2>2. WriterInv(ArbRow)'
    BY <1>0, <2>1, FlagSet
  <2> QED
    BY <1>0, <2>1, <2>2, WriterObeysStop DEF ArbInv, NothingBefore, Dormant
<1> QED
  BY <1>1, <1>2, <1>3, DiscoveryLeavesFiles, ArbSessionKeeps, ArbMainKeeps, ArbTickQueued DEF ArbNext

(* The arbitrage recorder's daily files: the records in the order of their   *)
(* callbacks, none left out before the last one on disk, and nothing else    *)
(* (writer_loop, ensure_output_for, push_record).                            *)
THEOREM ArbFilesAreWhole == ArbSpec => []FilesAreWhole
<1>1. ArbInv => FilesAreWhole
  BY ArbRowsAreRows, FilesFollow DEF ArbInv
<1> QED
  BY <1>1, ArbStarts, ArbFilesStep, PTL DEF ArbSpec

(* An arbitrage recorder that has ended has every accepted record on disk:   *)
(* stop() silences the callbacks before it tells the writer.                 *)
THEOREM ArbStopLosesNothing == ArbSpec => []StopLosesNothing
<1>1. ArbInv => StopLosesNothing
  BY ArbRowsAreRows, FilesFollow DEF ArbInv
<1> QED
  BY <1>1, ArbStarts, ArbFilesStep, PTL DEF ArbSpec
=============================================================================
