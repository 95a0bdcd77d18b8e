------------------------------ MODULE LogWindow ------------------------------
(***************************************************************************)
(* Reading the log of one cloud run page by page                           *)
(* (services/cloud_run_logs.py, cloud_run_log_sync.py): the entries that   *)
(* the control plane has committed, in the order of their creation, then   *)
(* the lines of the log stream, an object in storage: one line about the   *)
(* submission, until a reader has it replaced by the newest lines of the   *)
(* remote container.  The container's lines have one length, so that a     *)
(* window of lines and its size are what counts.                           *)
(***************************************************************************)
EXTENDS Integers, Sequences, FiniteSets

CONSTANTS
  Readers,
  MaxLimit,     \* entries in a page, at most
  TailLines,    \* lines that the provider returns at most
  MaxEntries,   \* bounds on the entries and the lines printed
  MaxLines

ASSUME MaxLimitAssumption  == MaxLimit \in Nat \ {0}
ASSUME TailLinesAssumption == TailLines \in Nat \ {0}
ASSUME LogBoundsAssumption == MaxEntries \in Nat /\ MaxLines \in Nat

VARIABLES
  entries,   \* control-plane entries that are committed, numbered by (created_at, id)
  printed,   \* lines that the container has printed
  seeded,    \* have the columns been set to the submission's line?
  stream,    \* log_stream_* columns: the window of the container's lines that they name
  rewound,   \* history: has a sync replaced newer lines by older ones?
  reader     \* readers

logVars == <<entries, printed, seeded, stream, rewound, reader>>

EntryIds == 1 .. MaxEntries
Lines    == 0 .. MaxLines

\* The lines from first + 1 to last, and log_stream_size_bytes; {0, 0} before the first.
Stream  == [first : Lines, last : Lines, size : Lines]
NoLines == [first |-> 0, last |-> 0, size |-> 0]
Window  == LET first == IF printed > TailLines THEN printed - TailLines ELSE 0
           IN [first |-> first, last |-> printed, size |-> printed - first]

\* A page's cursor: an entry, or the line with which the next page begins.
Cursor == [source : {"control_plane", "log_stream"}, at : 0 .. MaxEntries + MaxLines]
Start  == [source |-> "control_plane", at |-> 0]

Reader == [ pc : {"idle", "sync", "persist", "reload", "page", "again", "done"}, cursor : Cursor,
            saw : Stream, new : Stream,           \* the row as loaded or last read, what a sync has stored
            owed : SUBSET EntryIds,   \* history: committed at the first page, not delivered yet
            got : Seq(EntryIds), lines : Seq(1 .. MaxLines) ]   \* delivered
NotReading == [ pc |-> "idle", cursor |-> Start, saw |-> NoLines, new |-> NoLines,
                owed |-> {}, got |-> <<>>, lines |-> <<>> ]

LogInit ==
  /\ entries = {}
  /\ printed = 0 /\ seeded = FALSE /\ stream = NoLines /\ rewound = FALSE
  /\ reader = [r \in Readers |-> NotReading]

-----------------------------------------------------------------------------
\* created_at is set when the entry is made; the transactions end in any order, or never.
CommitEntry(e) ==
  /\ e \notin entries
  /\ entries' = entries \cup {e}
  /\ UNCHANGED <<printed, seeded, stream, rewound, reader>>

PrintLine ==
  /\ printed < MaxLines
  /\ printed' = printed + 1
  /\ UNCHANGED <<entries, seeded, stream, rewound, reader>>

\* The remote container has been asked for: in one commit the run gets its runtime_job_id and
\* the columns of a log of one line.
SubmitRuntime ==
  /\ ~seeded
  /\ seeded' = TRUE
  /\ UNCHANGED <<entries, printed, stream, rewound, reader>>

\* A page is asked for: the run is loaded.  Without a runtime_job_id there is no log to sync.
AskForPage(r) ==
  /\ reader[r].pc \in {"idle", "again"}
  /\ \E pc \in IF seeded THEN {"sync", "page"} ELSE {"page"} :
       reader' = [reader EXCEPT ![r].pc = pc, ![r].saw = stream,
                                ![r].owed = IF reader[r].pc = "idle" THEN entries ELSE @]
  /\ UNCHANGED <<entries, printed, seeded, stream, rewound>>

\* sync_logs: the container's tail, stored as a new object if it differs from what the row
\* named; else unchanged, skipped or unsupported, or the sync fails and is rolled back.
SyncLogs(r) ==
  /\ reader[r].pc = "sync"
  /\ \/ /\ printed > 0
        /\ Window.first # reader[r].saw.first \/ Window.last # reader[r].saw.last
        /\ reader' = [reader EXCEPT ![r].pc = "persist", ![r].new = Window]
     \/ reader' = [reader EXCEPT ![r].pc = "page"]
     \/ reader' = [reader EXCEPT ![r].pc = "reload", ![r].saw = NoLines]
  /\ UNCHANGED <<entries, printed, seeded, stream, rewound>>

\* _persist_log_stream_ref: a column that keeps its loaded value is not written.
PersistStream(r) ==
  LET new == reader[r].new
      row == [new EXCEPT !.size = IF new.size = reader[r].saw.size THEN stream.size ELSE new.size]
  IN /\ reader[r].pc = "persist"
     /\ stream' = row
     /\ rewound' = (rewound \/ new.last < stream.last)
     /\ reader' = [reader EXCEPT ![r].pc = "reload", ![r].saw = NoLines, ![r].new = NoLines]
     /\ UNCHANGED <<entries, printed, seeded>>

\* After a commit or a rollback.
ReloadRun(r) ==
  /\ reader[r].pc = "reload"
  /\ reader' = [reader EXCEPT ![r].pc = "page", ![r].saw = stream]
  /\ UNCHANGED <<entries, printed, seeded, stream, rewound>>

-----------------------------------------------------------------------------
\* The entries of a set, ordered by (created_at, id).
InOrder(S) == [i \in 1 .. Cardinality(S) |-> CHOOSE e \in S : Cardinality({x \in S : x <= e}) = i]

\* _control_plane_entries, _log_stream_entries: what follows the cursor, at most n of it.
ControlPlane(c, n) ==
  LET rest == IF c.source = "control_plane"
                THEN InOrder({e \in entries : e > c.at}) ELSE <<>>
  IN SubSeq(rest, 1, IF Len(rest) < n THEN Len(rest) ELSE n)

\* read_text refuses an object whose size is not what the row says.
Readable(s) == s.size = s.last - s.first

LogStream(s, c, n) ==
  LET begin == IF c.source = "log_stream" THEN c.at ELSE 0
      rest  == IF Readable(s) /\ begin < s.size
                 THEN [i \in 1 .. s.size - begin |-> s.first + begin + i] ELSE <<>>
  IN SubSeq(rest, 1, IF Len(rest) < n THEN Len(rest) ELSE n)

EntryCursor(e)     == [source |-> "control_plane", at |-> e]
LineCursor(number) == [source |-> "log_stream", at |-> number]

\* Bug: the next page begins behind the line that did not fit.
NextCursorSkips(c, limit, got) ==
  IF Len(got) >= limit THEN EntryCursor(got[limit])
  ELSE LineCursor(limit + 1 - Len(got) + (IF c.source = "log_stream" THEN c.at ELSE 0))

\* After the last entry that is returned.
NextCursor(c, limit, got) ==
  IF Len(got) >= limit THEN EntryCursor(got[limit])
  ELSE LineCursor(limit - Len(got) + (IF c.source = "log_stream" THEN c.at ELSE 0))

\* One entry more than fits is looked for, to know whether there is a next page; the stream
\* is read if it is asked for.  The submission's line counts, but is none of the container's.
AfterPage(v, limit, seen, stub) ==
  LET got   == ControlPlane(v.cursor, limit + 1)
      page  == IF Len(got) > limit THEN SubSeq(got, 1, limit) ELSE got
      lines == LogStream(seen, v.cursor, limit + 1 - Len(got))
      more  == Len(got) + Len(lines) + (IF stub THEN 1 ELSE 0) > limit
  IN [v EXCEPT !.pc     = IF more THEN "again" ELSE "done",
               !.cursor = IF more THEN NextCursor(v.cursor, limit, got) ELSE Start,
               !.got    = @ \o page,
               !.owed   = @ \ {page[i] : i \in 1 .. Len(page)},
               !.lines  = @ \o (IF more THEN SubSeq(lines, 1, limit - Len(page)) ELSE lines),
               !.saw    = IF more THEN NoLines ELSE seen]

ReadPage(r) ==
  /\ reader[r].pc = "page"
  /\ \E limit \in 1 .. MaxLimit, seen \in {NoLines, reader[r].saw}, stub \in BOOLEAN :
       /\ stub => /\ seeded /\ reader[r].saw = NoLines
                  /\ reader[r].cursor.source = "control_plane"
       /\ reader' = [reader EXCEPT ![r] = AfterPage(@, limit, seen, stub)]
  /\ UNCHANGED <<entries, printed, seeded, stream, rewound>>

\* The request dies, or the client gives up: nothing but the cursor is kept.
PageIsLost(r) ==
  /\ reader[r].pc \in {"sync", "persist", "reload", "page"}
  /\ reader' = [reader EXCEPT ![r].pc = "again", ![r].saw = NoLines, ![r].new = NoLines]
  /\ UNCHANGED <<entries, printed, seeded, stream, rewound>>

ReadAgain(r) ==
  /\ reader[r].pc = "done"
  /\ reader' = [reader EXCEPT ![r] = NotReading]
  /\ UNCHANGED <<entries, printed, seeded, stream, rewound>>

LogNext ==
  \/ PrintLine \/ SubmitRuntime \/ \E e \in EntryIds : CommitEntry(e)
  \/ \E r \in Readers :
       \/ AskForPage(r) \/ SyncLogs(r) \/ PersistStream(r) \/ ReloadRun(r) \/ ReadPage(r)
       \/ PageIsLost(r) \/ ReadAgain(r)

LogSpec == LogInit /\ [][LogNext]_logVars

-----------------------------------------------------------------------------
LogTypeOK ==
  /\ entries \subseteq EntryIds
  /\ printed \in Lines /\ seeded \in BOOLEAN /\ stream \in Stream /\ rewound \in BOOLEAN
  /\ reader \in [Readers -> Reader]

Ascending(s) == \A i \in 1 .. Len(s) - 1 : s[i] < s[i + 1]

\* list_cloud_run_log_window: a reader that follows the cursors is given every entry that was
\* committed when it began, each entry once and in order, and then lines in order, each once,
\* while other readers replace the stream (unless they put back an older one); as long as
\* the provider returns the whole log, no line is left out either, and who reaches the end has
\* every line that the stream had then.
LogReadOnce ==
  \A r \in Readers :
    LET got   == reader[r].got
        lines == reader[r].lines
    IN /\ Ascending(got)
       /\ reader[r].pc = "done" \/ lines # <<>> => reader[r].owed = {}
       /\ ~rewound => Ascending(lines)
       /\ printed <= TailLines => \A i \in 1 .. Len(lines) : lines[i] = i
       /\ printed <= TailLines /\ ~rewound /\ reader[r].pc = "done" /\ reader[r].saw # NoLines
            => Len(lines) = reader[r].saw.last
=============================================================================
