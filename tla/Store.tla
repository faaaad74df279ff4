-------------------------------- MODULE Store --------------------------------
(***************************************************************************)
(* internal/store: the trades of this life of the process, the SQLite      *)
(* tables that outlive it, and what a start reads back.  Trades are        *)
(* numbered as they are saved.  All the methods but those on backtest runs *)
(* hold the store's mutex, so each is one step.                            *)
(***************************************************************************)
EXTENDS Integers, Sequences, FiniteSets, SequencesExt

CONSTANTS
    MaxTrades,   \* bound: trades in all lives
    MaxSeconds   \* bound: the clock, in the seconds of RFC 3339

ASSUME StoreConstants == MaxTrades \in Nat /\ MaxSeconds \in Nat \ {0}

VARIABLES
    second,    \* time.Now(), as persistTrade formats it
    trades,    \* Store.trades
    table,     \* the rows of table trades: the second each was inserted at
    runs,      \* the rows of table backtest_runs
    open,      \* whether Store.db is not nil
    loaded,    \* whether this life read the whole table back
    unsaved    \* the trades of this life whose insert failed, or had no database

storeVars == <<second, trades, table, runs, open, loaded, unsaved>>

Saved == DOMAIN table
LastTrade == Max(Saved \cup ToSet(trades) \cup {0})

StoreInit ==
    /\ second = 1
    /\ trades = <<>>
    /\ table = <<>>
    /\ runs = {}
    /\ open \in BOOLEAN
    /\ loaded = open
    /\ unsaved = {}

Tick ==
    /\ second < MaxSeconds
    /\ second' = second + 1
    /\ UNCHANGED <<trades, table, runs, open, loaded, unsaved>>

\* A failed insert is logged; the trade stays in memory.
SaveTrade ==
    LET id == LastTrade + 1 IN
    /\ id <= MaxTrades
    /\ trades' = Append(trades, id)
    /\ \/ /\ open
          /\ table' = [t \in Saved \cup {id} |-> IF t = id THEN second ELSE table[t]]
          /\ UNCHANGED unsaved
       \/ table' = table /\ unsaved' = unsaved \cup {id}
    /\ UNCHANGED <<second, runs, open, loaded>>

\* The deferred call in main.
Close ==
    /\ open
    /\ open' = FALSE
    /\ UNCHANGED <<second, trades, table, runs, loaded, unsaved>>

\* The outcome is whether it returns an error: without a database it does not,
\* an INSERT may fail, and one whose identifier, the primary key, is in the
\* table already does.
SaveBacktestRun(rec, err) ==
    \/ ~open /\ ~err /\ UNCHANGED runs
    \/ open /\ err /\ UNCHANGED runs
    \/ open /\ ~err /\ (\A other \in runs : other.id # rec.id) /\ runs' = runs \cup {rec}

\* What loadTrades may make of the rows it gets: ORDER BY executed_at says
\* nothing of rows of one second.
LoadedInAnyOrder(rows) == SetToSeqs(rows)
Loaded(rows) == {s \in SetToSeqs(rows) :
                   \A i, j \in DOMAIN s : i < j => table[s[i]] <= table[s[j]]}

\* A new life: NewStore.  If the database cannot be opened it goes on in
\* memory.  Rows that cannot be scanned or decoded are skipped, and an error
\* of the query, or between two rows, ends the reading there: any of the rows
\* may be missing, and nothing tells.
NewStore ==
    /\ \/ /\ open' = TRUE
          /\ \E rows \in SUBSET Saved :
               trades' \in Loaded(rows) /\ loaded' = (rows = Saved)
       \/ open' = FALSE /\ loaded' = FALSE /\ trades' = <<>>
    /\ unsaved' = {}
    /\ UNCHANGED <<second, table, runs>>
=============================================================================
