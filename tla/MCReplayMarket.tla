--------------------------- MODULE MCReplayMarket ---------------------------
(* Model-checking instance of three parts of a replay that call each other   *)
(* as functions: the book of a position, the ticks, the matching of an       *)
(* order.  They share no state, so the instance explores their sum.          *)
EXTENDS Position, ReplayMatching, ReplayStream

VARIABLE part

mcVars == <<vars, matchVars, streamVars, part>>

MCExchanges == {"SHFE", "DCE"}

MCPrices == 1 .. 3
MCTrades == {b \in [MCPrices -> 0 .. 2] : b[1] + b[2] + b[3] <= 2} \cup {<<1, 0, 2>>, <<2, 0, 1>>, <<1, 1, 1>>}

Native(multiplier, turnover) ==
    [policy |-> "NativeOrder", mode |-> 2, multiplier |-> multiplier, turnover |-> turnover]
ByRuntime(mode, turnover) ==
    [policy |-> "RuntimeSyntheticFill", mode |-> mode, multiplier |-> 2, turnover |-> turnover]

MCSetups == {Native(1, TRUE), Native(1, FALSE), ByRuntime(2, TRUE), ByRuntime(2, FALSE), ByRuntime(0, TRUE)}

(* Any two short files of one day or of two; three cuts of a recorded day    *)
(* and of the next, read by strategies with different symbols, one backwards.*)
FileOf(day, symbols, rows) == [day |-> day, symbols |-> symbols, rows |-> rows]
Row(at, sym, book) == [at |-> at, sym |-> sym, book |-> book]

Short == {<<r>> : r \in [at : 1 .. 2, sym : 1 .. 2, book : {1}]}
         \cup {<<r, s>> : r, s \in [at : 1 .. 2, sym : 1 .. 2, book : 1 .. 2]}

Tape(at) == <<Row(at, 1, 1), Row(at, 2, 1), Row(at + 1, 1, 2), Row(at + 1, 2, 0)>>
Cuts(at) == {Tape(at), SubSeq(Tape(at), 2, 4), Reverse(Tape(at))}
Recordings ==
    UNION {{FileOf(day, symbols, rows) : symbols \in {{1}, {1, 2}}, rows \in Cuts(2 * day)} : day \in 1 .. 2}

MCListings ==
    {<<FileOf(day, {1, 2}, rows), FileOf(1, {1, 2}, others)>> : day \in 1 .. 2, rows, others \in Short}
    \cup {<<f, g, h>> : f, g, h \in Recordings}

MCInit ==
    /\ Init
    /\ part \in {"position", "matching", "stream"}
    /\ IF part = "matching" THEN MatchInit
       ELSE /\ setup = Native(1, TRUE) /\ quote = NoQuote /\ order = NoOrder /\ fill = NoFill
    /\ IF part = "stream" THEN StreamInit
       ELSE /\ listing = <<>> /\ nextSource = 1 /\ readers = <<>> /\ heap = {} /\ emitted = <<>>

MCNext ==
    /\ UNCHANGED part
    /\ \/ part = "position" /\ Next /\ UNCHANGED <<matchVars, streamVars>>
       \/ part = "matching" /\ MatchNext /\ UNCHANGED <<vars, streamVars>>
       \/ part = "stream" /\ StreamNext /\ UNCHANGED <<vars, matchVars>>

MCSpec == MCInit /\ [][MCNext]_mcVars
=============================================================================
