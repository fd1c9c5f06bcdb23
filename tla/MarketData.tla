----------------------------- MODULE MarketData -----------------------------
(***************************************************************************)
(* The market data pipeline (hqmts/data/service.py, bar_builder.py and     *)
(* db/repositories/bar_repo.py) of one instrument and one trade date:      *)
(* jobs fetch one-minute bars and store them, or build the bars of longer  *)
(* cycles from the stored minutes.  A job is one call of the service, in a *)
(* database session of its own, which its caller commits; what the vendor  *)
(* returns is external.  Minutes are counted from the morning's opening.   *)
(***************************************************************************)
EXTENDS Integers, Sequences, FiniteSetsExt

CONSTANTS
    Fetches,        \* calls of fetch_and_store_1m_bars()
    Builds,         \* calls of build_and_store_aggregated_bars()
    Versions,       \* data versions of the services
    Batches,        \* what the vendor may return
    SessionMinutes, \* minutes of the morning, and of the afternoon (120)
    Lunch,          \* minutes between them (90)
    Cycles          \* cycles that are built, in minutes

VendorRow == [minute: Nat, open: Nat, high: Nat, low: Nat, close: Nat, volume: Nat]

ASSUME MarketAssumption ==
    /\ SessionMinutes \in Nat \ {0} /\ Lunch \in Nat
    /\ Cycles \subseteq Nat \ {0, 1}
    /\ Fetches \cap Builds = {} /\ IsFiniteSet(Fetches)
    /\ Batches \subseteq Seq(VendorRow)

VARIABLES
    bars,       \* the committed rows of the table
    jobs,       \* jobs[j]: where the call stands
    overlaps    \* history: pairs of jobs that were storing at the same time

marketVars == <<bars, jobs, overlaps>>

Jobs == Fetches \cup Builds

NotStarted == [at |-> "idle", todo |-> {}, added |-> {}]
Storing(todo) == [at |-> "storing", todo |-> todo, added |-> {}]
EndedAs(end) == [at |-> end, todo |-> {}, added |-> {}]

MarketInit ==
    /\ bars = {}
    /\ jobs = [j \in Jobs |-> NotStarted]
    /\ overlaps = {}

Begin(j, todo) ==
    /\ jobs[j].at = "idle"
    /\ jobs' = [jobs EXCEPT ![j] = Storing(todo)]
    /\ overlaps' = overlaps \cup {{j, k} : k \in {other \in Jobs : jobs[other].at = "storing"}}

-----------------------------------------------------------------------------
(* fetch_and_store_1m_bars *)

ZeroPrice(batch) ==
    \E n \in 1..Len(batch) : 0 \in {batch[n].open, batch[n].high, batch[n].low, batch[n].close}

(* Of the rows of one minute the first is stored: its bar is in the        *)
(* session when the others are looked up.                                  *)
FirstRows(batch) ==
    {batch[n] : n \in {k \in 1..Len(batch) : \A i \in 1..(k - 1) : batch[i].minute # batch[k].minute}}

MinuteBar(j, version, row) ==
    [by |-> j, version |-> version, cycle |-> 1, start |-> row.minute, end |-> row.minute + 1,
     open |-> row.open, high |-> row.high, low |-> row.low, close |-> row.close,
     volume |-> row.volume, completed |-> TRUE]

(* Zero prices fail the batch.  What else the quality check finds, wrong   *)
(* extremes, duplicates or a wrong order, is a warning that is logged.     *)
Fetch(j) ==
    \E version \in Versions, batch \in Batches :
        IF batch = <<>> \/ ZeroPrice(batch)
        THEN /\ jobs[j].at = "idle"
             /\ jobs' = [jobs EXCEPT ![j] = EndedAs(IF batch = <<>> THEN "empty" ELSE "refused")]
             /\ UNCHANGED <<bars, overlaps>>
        ELSE /\ Begin(j, {MinuteBar(j, version, row) : row \in FirstRows(batch)})
             /\ UNCHANGED bars

-----------------------------------------------------------------------------
(* build_and_store_aggregated_bars *)

Minutes == {b \in bars : b.cycle = 1}

(* _generate_cycle_boundaries: each session is cut for itself, its last    *)
(* window at its end.                                                      *)
Cut(cycle, opening, k) ==
    [cycle |-> cycle, start |-> opening + k * cycle,
     end |-> Min({opening + (k + 1) * cycle, opening + SessionMinutes})]

Boundaries(cycle) ==
    {Cut(cycle, opening, k) : opening \in {0, SessionMinutes + Lunch},
                              k \in {n \in 0..SessionMinutes : n * cycle < SessionMinutes}}

(* Rows of the same minute come in any order. *)
Before(b, c, rank) == b.start < c.start \/ (b.start = c.start /\ rank[b.by] < rank[c.by])

(* The volume of all rows, counted share by share. *)
TotalVolume(rows) == Cardinality(UNION {{b} \X (1..b.volume) : b \in rows})

(* Mutant: the bar is complete once it has begun. *)
AggregateAtOnce(j, version, window, rows, rank) ==
    LET first == CHOOSE b \in rows : \A c \in rows \ {b} : Before(b, c, rank)
        last  == CHOOSE b \in rows : \A c \in rows \ {b} : Before(c, b, rank)
    IN  [by |-> j, version |-> version, cycle |-> window.cycle,
         start |-> window.start, end |-> window.end,
         open |-> first.open, close |-> last.close,
         high |-> Max({b.high : b \in rows}), low |-> Min({b.low : b \in rows}),
         volume |-> TotalVolume(rows),
         completed |-> \A b \in rows : b.completed]

Aggregate(j, version, window, rows, rank) ==
    LET first == CHOOSE b \in rows : \A c \in rows \ {b} : Before(b, c, rank)
        last  == CHOOSE b \in rows : \A c \in rows \ {b} : Before(c, b, rank)
    IN  [by |-> j, version |-> version, cycle |-> window.cycle,
         start |-> window.start, end |-> window.end,
         open |-> first.open, close |-> last.close,
         high |-> Max({b.high : b \in rows}), low |-> Min({b.low : b \in rows}),
         volume |-> TotalVolume(rows),
         completed |-> /\ Cardinality(rows) = window.end - window.start
                       /\ \A b \in rows : b.completed]

Constituents(window) == {b \in Minutes : window.start <= b.start /\ b.start < window.end}

(* The minutes are read whatever their version, and the result is of the   *)
(* version of the service.                                                 *)
Build(j) ==
    /\ \E version \in Versions, rank \in Bijection(Fetches, 1..Cardinality(Fetches)) :
         Begin(j, {Aggregate(j, version, window, Constituents(window), rank) :
                      window \in {w \in UNION {Boundaries(cycle) : cycle \in Cycles} :
                                      Constituents(w) # {}}})
    /\ UNCHANGED bars

-----------------------------------------------------------------------------
(* bulk_upsert: bar by bar, a look and perhaps an insert, here in any      *)
(* order; nothing in the table keeps two sessions from inserting the same. *)

KeyOf(b) == <<b.version, b.cycle, b.start>>

Found(j, bar) == {b \in bars \cup jobs[j].added : KeyOf(b) = KeyOf(bar)}

(* Two rows where at most one is expected raise. *)
UpsertBar(j) ==
    /\ jobs[j].at = "storing"
    /\ \E bar \in jobs[j].todo :
         jobs' = [jobs EXCEPT ![j] =
                    IF Cardinality(Found(j, bar)) > 1 THEN EndedAs("failed")
                    ELSE [at |-> "storing", todo |-> @.todo \ {bar},
                          added |-> @.added \cup (IF Found(j, bar) = {} THEN {bar} ELSE {})]]
    /\ UNCHANGED <<bars, overlaps>>

Commit(j) ==
    /\ jobs[j].at = "storing" /\ jobs[j].todo = {}
    /\ bars' = bars \cup jobs[j].added
    /\ jobs' = [jobs EXCEPT ![j] = EndedAs("done")]
    /\ UNCHANGED overlaps

(* The process stops, or the database fails. *)
Rollback(j) ==
    /\ jobs[j].at = "storing"
    /\ jobs' = [jobs EXCEPT ![j] = EndedAs("failed")]
    /\ UNCHANGED <<bars, overlaps>>

MarketNext ==
    \/ \E j \in Fetches : Fetch(j)
    \/ \E j \in Builds : Build(j)
    \/ \E j \in Jobs : UpsertBar(j) \/ Commit(j) \/ Rollback(j)

MarketSpec == MarketInit /\ [][MarketNext]_marketVars

-----------------------------------------------------------------------------
(* Bars are bars; a session holds its job's own, and none once it ended.   *)
MarketTypeOK ==
    /\ \A b \in bars \cup UNION {jobs[j].todo \cup jobs[j].added : j \in Jobs} :
         /\ b.by \in Jobs /\ b.version \in Versions /\ b.cycle \in Cycles \cup {1}
         /\ b.start < b.end /\ b.completed \in BOOLEAN
         /\ {b.open, b.high, b.low, b.close, b.volume} \subseteq Nat
    /\ \A j \in Jobs :
         /\ jobs[j].at \in {"idle", "storing", "done", "empty", "refused", "failed"}
         /\ jobs[j].at # "storing" => jobs[j].todo = {} /\ jobs[j].added = {}
         /\ \A b \in jobs[j].added : b.by = j /\ Found(j, b) \cap jobs[j].added = {b}
    /\ overlaps \subseteq SUBSET Jobs

(* A batch with one zero price leaves nothing behind, not even in bars     *)
(* built later: every stored price is real.                                *)
PricesAreReal == \A b \in bars : 0 \notin {b.open, b.high, b.low, b.close}

WindowOf(b) == [cycle |-> b.cycle, start |-> b.start, end |-> b.end]
Plain(b) == \A c, d \in Constituents(WindowOf(b)) : c.start = d.start => c = d
MinuteAt(b, minute) == CHOOSE c \in Constituents(WindowOf(b)) : c.start = minute

(* A bar of longer cycle that says it is completed says what the stored    *)
(* minutes say, then and ever after: opening of the first, close of the    *)
(* last, and all of the volume; provided no minute of it is stored twice.  *)
CompletedIsTruth ==
    \A b \in bars : b.cycle > 1 /\ b.completed /\ Plain(b) =>
        LET all == Constituents(WindowOf(b))
        IN  /\ {c.start : c \in all} = b.start..(b.end - 1)
            /\ b.open = MinuteAt(b, b.start).open /\ b.close = MinuteAt(b, b.end - 1).close
            /\ \A c \in all : b.low <= c.low /\ c.high <= b.high
            /\ b.volume = TotalVolume(all)

(* A bar is stored twice only by two jobs that were storing at the same    *)
(* time: run one after the other, jobs may repeat each other's work.       *)
TwiceOnlyByOverlap ==
    \A b, c \in bars : b # c /\ KeyOf(b) = KeyOf(c) => {b.by, c.by} \in overlaps

(* Stored bars tell the truth: their prices are real, they are stored once *)
(* unless jobs overlapped, and those of longer cycles agree with the       *)
(* minutes once they say they are completed.                               *)
BarsAreTrue == PricesAreReal /\ CompletedIsTruth /\ TwiceOnlyByOverlap

(* data/bar_builder.py:148 "is_completed=True only if all constituent 1m   *)
(* bars are present".                                                      *)
CompletedHasAll ==
    \A b \in bars : b.cycle > 1 /\ b.completed =>
        {c.start : c \in Constituents(WindowOf(b))} = b.start..(b.end - 1)
=============================================================================
