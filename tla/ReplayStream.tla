---------------------------- MODULE ReplayStream ----------------------------
(* The two ways a replay gets its ticks.  A plan of files is streamed: the   *)
(* files of one trading day are opened together and merged by a heap of      *)
(* their readers, a tick equal to the one before it is skipped.  Otherwise   *)
(* everything is loaded, sorted and freed of repetitions.  The chart of the  *)
(* control center always loads what the engine may stream.                   *)
EXTENDS Naturals, SequencesExt

CONSTANT Listings   \* what a configuration may name: files in source order

VARIABLES
    listing,        \* the files as collect_backtest_source_plan finds them
    nextSource,     \* next_source_index_
    readers,        \* per reader of the group: its source and what it has not handed out
    heap,           \* heap_: the readers that have a current tick
    emitted         \* what next() returned so far; its last element is last_emitted_

streamVars == <<listing, nextSource, readers, heap, emitted>>

\* Moments, and symbols in their order, are numbers; so is a book, 0 being none.
File == [day : Nat, symbols : SUBSET Nat, rows : Seq([at : Nat, sym : Nat, book : Nat])]

ASSUME ListingsAssumption == Listings \subseteq Seq(File)

(* A row names a moment, a symbol and the book; a reader passes on the rows  *)
(* of its symbols that carry a book, labelled with its file's trading day.   *)
read_next_tick(f, read, row) ==
    IF row.sym \in f.symbols /\ row.book # 0
    THEN Append(read, [day |-> f.day, at |-> row.at, sym |-> row.sym, book |-> row.book])
    ELSE read

Ticks(f) == FoldLeft(LAMBDA read, row : read_next_tick(f, read, row), <<>>, f.rows)

(* Earlier first, then by symbol. *)
SortsBefore(t, u) == t.at < u.at \/ (t.at = u.at /\ t.sym < u.sym)

(* A stable sort: the n-th of S is the one that has n - 1 others before it.  *)
InOrder(S, before) ==
    [n \in 1 .. Cardinality(S) |-> CHOOSE x \in S : Cardinality({y \in S : <<y, x>> \in before}) = n - 1]

(* The plan: by day, files of one day in the order they were found. *)
PlannedBefore ==
    {jk \in (DOMAIN listing) \X (DOMAIN listing) :
        \/ listing[jk[1]].day < listing[jk[2]].day
        \/ listing[jk[1]].day = listing[jk[2]].day /\ jk[1] < jk[2]}
Sources == InOrder(DOMAIN listing, PlannedBefore)
Planned(k) == listing[Sources[k]]

StreamInit ==
    /\ listing \in Listings
    /\ nextSource = 1
    /\ readers = <<>> /\ heap = {} /\ emitted = <<>>

-----------------------------------------------------------------------------
(* load_next_group: the files of the next trading day are opened. *)
Group == {k \in nextSource .. Len(listing) :
             \A j \in nextSource .. k : Planned(j).day = Planned(nextSource).day}

LoadNextGroup ==
    /\ heap = {} /\ nextSource <= Len(listing)
    /\ readers' = [k \in 1 .. Cardinality(Group) |->
                      [source |-> Sources[nextSource + k - 1], left |-> Ticks(Planned(nextSource + k - 1))]]
    /\ heap' = {k \in DOMAIN readers' : readers'[k].left # <<>>}
    /\ nextSource' = nextSource + Cardinality(Group)
    /\ UNCHANGED <<listing, emitted>>

Current(r) == Head(readers[r].left)

(* HeapCompare: the order in which two readers hand out their current tick. *)
ReaderBeforeBySource(q, r) ==
    \/ Current(q).at < Current(r).at
    \/ Current(q).at = Current(r).at /\ readers[q].source < readers[r].source

ReaderBefore(q, r) ==
    \/ SortsBefore(Current(q), Current(r))
    \/ ~SortsBefore(Current(r), Current(q)) /\ readers[q].source < readers[r].source

Top == CHOOSE r \in heap : \A q \in heap \ {r} : ReaderBefore(r, q)

SameMoment(t, u) == t.day = u.day /\ t.at = u.at /\ t.sym = u.sym

(* identical_market_ticks *)
IdenticalTicks(t, u) == t = u

(* A tick that repeats the last one kept is skipped. *)
KeepNew(kept, t) == IF kept # <<>> /\ IdenticalTicks(Last(kept), t) THEN kept ELSE Append(kept, t)

(* BacktestDirectoryTickStream::next: one turn of its loop. *)
NextTick ==
    /\ heap # {}
    /\ readers' = [readers EXCEPT ![Top].left = Tail(@)]
    /\ heap' = IF Len(readers[Top].left) = 1 THEN heap \ {Top} ELSE heap
    /\ emitted' = KeepNew(emitted, Current(Top))
    /\ UNCHANGED <<listing, nextSource>>

StreamNext == LoadNextGroup \/ NextTick

Exhausted == heap = {} /\ nextSource > Len(listing)

-----------------------------------------------------------------------------
(* load_backtest_ticks: everything in source order, sorted by a stable sort, *)
(* neighbours that repeat each other once.  A row is named by its file and   *)
(* its place in it, the order in which the sort leaves ticks that tie.       *)
Rows == UNION {{k} \X (DOMAIN Ticks(listing[k])) : k \in DOMAIN listing}
RowTick(row) == Ticks(listing[row[1]])[row[2]]

StoredBefore(p, q) == p[1] < q[1] \/ (p[1] = q[1] /\ p[2] < q[2])

RowsBefore ==
    {pq \in Rows \X Rows :
        \/ SortsBefore(RowTick(pq[1]), RowTick(pq[2]))
        \/ ~SortsBefore(RowTick(pq[2]), RowTick(pq[1])) /\ StoredBefore(pq[1], pq[2])}

sort_ticks_chronologically ==
    LET place == InOrder(Rows, RowsBefore) IN [n \in DOMAIN place |-> RowTick(place[n])]

dedupe_ticks(ticks) == FoldLeft(KeepNew, <<>>, ticks)

load_backtest_ticks == dedupe_ticks(sort_ticks_chronologically)

-----------------------------------------------------------------------------
Recorded == {RowTick(row) : row \in Rows}

(* Files a recorder writes: rows in the order of time, symbols of a moment   *)
(* in their order, and a later trading day only holds later moments.         *)
FilesAreSorted == \A k \in DOMAIN listing :
    LET ticks == Ticks(listing[k])
    IN  \A i, j \in DOMAIN ticks : i < j => ~SortsBefore(ticks[j], ticks[i])

DaysFollowTime == \A t, u \in Recorded : t.day < u.day => t.at < u.at

MomentsAreDistinct == \A k \in DOMAIN listing :
    LET ticks == Ticks(listing[k])
    IN  \A i, j \in DOMAIN ticks : i < j => SortsBefore(ticks[i], ticks[j])

(* Over files that overlap in any way, as long as each is sorted and days    *)
(* follow time, the merge of open files hands the strategies what loading    *)
(* and sorting everything would: what the chart shows is what was traded on. *)
LoadersAgree ==
    FilesAreSorted /\ DaysFollowTime =>
        /\ IsPrefix(emitted, load_backtest_ticks)
        /\ Exhausted => emitted = load_backtest_ticks

(* What open readers hold and unopened files will bring. *)
StillToCome == UNION ({Range(readers[r].left) : r \in heap}
                      \cup {Range(Ticks(Planned(k))) : k \in nextSource .. Len(listing)})

FilesAgree == \A t, u \in Recorded : SameMoment(t, u) => t = u

(* No tick of any file is lost, in whatever order the rows are; and a tick   *)
(* that two strategies' directories both hold is replayed once, if no file   *)
(* has two rows of a symbol for one moment and files agree where they        *)
(* overlap.  A tick replayed twice would count its traded volume twice.      *)
EveryTickOnce ==
    /\ Range(emitted) \cup StillToCome = Recorded
    /\ MomentsAreDistinct /\ FilesAgree => IsInjective(emitted)
=============================================================================
