---------------------------- MODULE MCMarketData ----------------------------
(* Model-checking instance of the three clients of the market-data front.  *)
(* They are three programs and share nothing, so a behaviour is one of     *)
(* one of them: the instance explores their sum, not their product.        *)
EXTENDS MdRecorder, ArbitrageRecorder, LiveMarketData, TLC

CONSTANTS
    Night, Index,       \* symbols of the CSV recorder
    Pair, Idle, Spread, \* combinations
    Clients

VARIABLE client

mcVars == <<recorderVars, trader, tape, gateway, loop, client>>

MCSymbols == {Night, Index}
MCKind == (Night :> "ends0230") @@ (Index :> "stock_index")

\* Friday evening, Saturday after midnight, Monday morning, Monday evening.
MCMoments == <<<<5, 220000>>, <<6, 3000>>, <<8, 100000>>, <<8, 210000>>>>

MCOneMoment == <<<<8, 100000>>>>

MCFiles == ({5, 6, 8, 9} \X MCSymbols) \union ({8, 9} \X {"daily"})
MCLeft == {<<8, Night>>}
MCStreams == MCSymbols \union {"daily"}

MCExchanges == <<"first", "second">>
MCListed == ("first" :> {Pair, Idle}) @@ ("second" :> {Spread})
MCWanted == {Pair, Spread}

RecorderIdle == feed = [now |-> 1, received |-> 0, sessionDay |-> NoDay,
                        last |-> [s \in Symbols |-> NoTick]]
ArbIdle == trader = NewTrader("configured", "start") /\ tape = [received |-> 0, sessionDay |-> NoDay]
LiveIdle ==
    /\ gateway = [latest |-> NoTicks, sent |-> 0, events |-> 0, filled |-> 0, reporting |-> {}]
    /\ loop = [pc |-> "first", active |-> FALSE, tried |-> FALSE, batch |-> {}, day |-> NoDay,
               seen |-> [i \in Instruments |-> 0], lots |-> {}, stop |-> FALSE]

MCInit ==
    /\ client \in Clients
    /\ \/ client = "csv" /\ RecorderInit /\ ArbIdle /\ LiveIdle
       \/ client = "arbitrage" /\ ArbInit /\ RecorderIdle /\ LiveIdle
       \/ client = "live" /\ LiveInit /\ RecorderIdle /\ ArbIdle
          /\ WriterInit /\ files = [f \in Files |-> [rows |-> <<>>, flushed |-> 0]]

Csv(A) == client = "csv" /\ A /\ UNCHANGED <<trader, tape, gateway, loop, client>>
Arb(A) == client = "arbitrage" /\ A /\ UNCHANGED <<feed, gateway, loop, client>>
Live(A) == client = "live" /\ A /\ UNCHANGED <<writerVars, feed, trader, tape, client>>

MCNext == Csv(RecorderNext) \/ Arb(ArbNext) \/ Live(LiveNext)

MCFairness ==
    /\ SessionFairness /\ WriterFairness
    /\ WF_mcVars(Csv(Main))
    /\ WF_mcVars(Arb(ArbMain))
    /\ WF_mcVars(Live(LiveMain))
    /\ WF_mcVars(Live(notify_live_activity))

MCSpec == MCInit /\ [][MCNext]_mcVars /\ MCFairness
MCSafe == MCInit /\ [][MCNext]_mcVars
=============================================================================
