------------------------------ MODULE Recorder ------------------------------
(***************************************************************************)
(* internal/recorder: frames.db.  The pool has one connection: a query     *)
(* keeps it until its rows are read, and whoever needs it next waits.      *)
(* A frame is [id, ts, exchange], ids in the order of insertion; ts is     *)
(* stamped by the connector, so ids and ts may disagree.                   *)
(***************************************************************************)
EXTENDS Integers, Sequences, FiniteSets, SequencesExt

CONSTANTS
    Exchanges,
    MaxTs,       \* bound: timestamps
    MaxFrames,   \* bound: frames
    Nothing

ASSUME RecorderConstants == MaxTs \in Nat /\ MaxFrames \in Nat

VARIABLES
    frames,     \* the rows of table frames
    conn,       \* who has the connection
    recording,  \* the flag recordingEnabled
    arriving,   \* the update the processing loop has in hand
    inserting   \* whether the loop has found the flag set and waits to insert

recorderVars == <<frames, conn, recording, arriving, inserting>>

Times == 1 .. MaxTs
Frame == [id : 1 .. MaxFrames, ts : Times, exchange : Exchanges]

RecorderInit ==
    /\ conn = Nothing
    /\ recording = TRUE
    /\ arriving = Nothing
    /\ inserting = FALSE

\* The loop takes an update from the aggregator.
TakeUpdate ==
    /\ arriving = Nothing
    /\ Cardinality(frames) < MaxFrames
    /\ \E ts \in Times, e \in Exchanges : arriving' = [ts |-> ts, exchange |-> e]
    /\ UNCHANGED <<frames, conn, recording, inserting>>

\* With the flag off the loop goes on; with the flag on it is bound to insert,
\* whatever becomes of the flag while it waits.
CheckRecording ==
    /\ arriving # Nothing /\ ~inserting
    /\ \/ recording /\ inserting' = TRUE /\ UNCHANGED arriving
       \/ ~recording /\ arriving' = Nothing /\ UNCHANGED inserting
    /\ UNCHANGED <<frames, conn, recording>>

\* A failed insert is only logged.
RecordFrame ==
    /\ inserting /\ conn = Nothing
    /\ inserting' = FALSE
    /\ arriving' = Nothing
    /\ frames' \in {frames, frames \cup {[id |-> Cardinality(frames) + 1,
                       ts |-> arriving.ts, exchange |-> arriving.exchange]}}
    /\ UNCHANGED <<conn, recording>>

\* POST /api/backtest/recording.
SetRecording(enabled) ==
    /\ recording # enabled
    /\ recording' = enabled
    /\ UNCHANGED <<frames, conn, arriving, inserting>>

Connect(p) ==
    /\ conn = Nothing
    /\ conn' = p
    /\ UNCHANGED <<frames, recording, arriving, inserting>>

\* Queries release the connection when they return, with rows or an error.
ReleaseOnSuccess(p, failed) ==
    /\ conn = p
    /\ conn' = IF failed THEN p ELSE Nothing
    /\ UNCHANGED <<frames, recording, arriving, inserting>>

Release(p, failed) ==
    /\ conn = p
    /\ conn' = Nothing
    /\ UNCHANGED <<frames, recording, arriving, inserting>>

\* The results QueryFrames may return: ORDER BY ts leaves ties open.
QueryFramesBefore(from, to) ==
    {s \in SetToSeqs({f \in frames : f.ts >= from /\ f.ts < to}) :
       \A i, j \in DOMAIN s : i < j => s[i].ts <= s[j].ts}

QueryFrames(from, to) ==
    {s \in SetToSeqs({f \in frames : f.ts >= from /\ f.ts <= to}) :
       \A i, j \in DOMAIN s : i < j => s[i].ts <= s[j].ts}

\* A new life of the process.
RecorderRestart ==
    /\ conn' = Nothing
    /\ recording' = TRUE
    /\ arriving' = Nothing
    /\ inserting' = FALSE
    /\ UNCHANGED frames
=============================================================================
