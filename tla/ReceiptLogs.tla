---------------------------- MODULE ReceiptLogs ----------------------------
(***************************************************************************)
(* The two logs of the controller: the hash-chained receipts of one Witness*)
(* scope, and the audit events with their JSON-lines file and their SQLite *)
(* table.                                                                  *)
(*                                                                         *)
(* An append runs under the lock of its log, but what it does to the file  *)
(* runs in a worker thread: a coroutine that is cancelled while it waits   *)
(* gives the lock back and the thread goes on, with nobody to wait for it. *)
(*                                                                         *)
(* A line is its receipt's identifier and the one it is chained to: the    *)
(* hash of a line stands for its content, and that is the identifier.      *)
(***************************************************************************)
EXTENDS Naturals, Sequences, SequencesExt, ServiceValues

CONSTANTS Writer,       \* coroutines that append a receipt or an event
          Amounts,      \* bound: [receipt, event], how many of each are ever made
          MaxEvents,    \* audit_max_events
          TrimInterval, \* audit_file_trim_interval
          MaxCrashes,   \* bound of the restarts of the controller
          MaxCancels    \* bound of the appends that are cancelled

ASSUME LogsAssumption ==
  /\ Amounts \subseteq [receipt : Nat, event : Nat] /\ MaxEvents \in Nat \ {0} /\ TrimInterval \in Nat \ {0}
  /\ MaxCrashes \in Nat /\ MaxCancels \in Nat /\ None \notin Writer \cup Nat

VARIABLES log,        \* the JSON-lines file of the scope
          head,       \* _heads[scope]
          logLock,    \* WitnessRecorder._lock
          writer,     \* the coroutines: where they are, with which line, and with the
                      \* lines that a trim has read
          thread,     \* lines that worker threads have not written yet
          kept,       \* history: receipts whose append returned
          events,     \* events.jsonl of the audit log
          table,      \* the rows of audit_events
          primary,    \* what AuditStore.list reads: "file" or "sqlite"
          sinceTrim,  \* _writes_since_trim
          auditLock,  \* AuditStore._lock
          orphan,     \* what threads of cancelled appends of events still have to do
          heard,      \* history: events whose append returned, with the primary then
          made,       \* history: identifiers given out, per log
          amount,     \* and how many there may be
          crashes, cancels

wvars == <<log, head, logLock, writer, thread, kept, events, table, primary, sinceTrim,
           auditLock, orphan, heard, made, amount, crashes, cancels>>
receiptVars == <<log, head, logLock, thread, kept>>
auditVars == <<events, table, primary, sinceTrim, auditLock, orphan, heard>>

Resting == [pc |-> "idle", line |-> None, lines |-> <<>>]

WInit ==
  /\ log = <<>> /\ head = None /\ logLock = None /\ thread = {} /\ kept = {}
  /\ events = <<>> /\ table = <<>> /\ primary \in {"file", "sqlite"}
  /\ sinceTrim = 0 /\ auditLock = None /\ orphan = {} /\ heard = {}
  /\ writer = [w \in Writer |-> Resting]
  /\ made = [receipt |-> 0, event |-> 0] /\ amount \in Amounts
  /\ crashes = 0 /\ cancels = 0

-----------------------------------------------------------------------------
(* WitnessRecorder.append.                                                 *)

\* The item is chained and handed to a worker thread.
Chain(w, previous) ==
  LET line == [id |-> made.receipt + 1, prev |-> previous] IN
  /\ made.receipt < amount.receipt
  /\ made' = [made EXCEPT !.receipt = @ + 1]
  /\ thread' = thread \cup {line}
  /\ writer' = [writer EXCEPT ![w] = [Resting EXCEPT !.pc = "writing", !.line = line]]

\* Mutant: without the lock.
BeginUnlocked(w) ==
  /\ writer[w].pc = "idle" /\ made.receipt < amount.receipt
  /\ IF head # None
     THEN Chain(w, head)
     ELSE writer' = [writer EXCEPT ![w].pc = "reading"] /\ UNCHANGED <<thread, made>>
  /\ UNCHANGED <<log, head, logLock, kept, auditVars, amount, crashes, cancels>>

\* The lock is taken; without a cached head the file is read in a thread first.
BeginReceipt(w) ==
  /\ writer[w].pc = "idle" /\ logLock = None /\ made.receipt < amount.receipt
  /\ logLock' = w
  /\ IF head # None
     THEN Chain(w, head)
     ELSE writer' = [writer EXCEPT ![w].pc = "reading"] /\ UNCHANGED <<thread, made>>
  /\ UNCHANGED <<log, head, kept, auditVars, amount, crashes, cancels>>

LastHash == IF log = <<>> THEN None ELSE log[Len(log)].id

ReadHead(w) ==
  /\ writer[w].pc = "reading"
  /\ Chain(w, LastHash)
  /\ UNCHANGED <<log, head, logLock, kept, auditVars, amount, crashes, cancels>>

\* _append_text, in its thread.
ThreadWrites ==
  /\ \E line \in thread : log' = Append(log, line) /\ thread' = thread \ {line}
  /\ UNCHANGED <<head, logLock, writer, kept, auditVars, made, amount, crashes, cancels>>

\* The coroutine resumes after its thread, caches the head, gives the lock back.
EndReceipt(w) ==
  /\ writer[w].pc = "writing" /\ writer[w].line \notin thread
  /\ head' = writer[w].line.id
  /\ kept' = kept \cup {writer[w].line.id}
  /\ logLock' = None
  /\ writer' = [writer EXCEPT ![w] = Resting]
  /\ UNCHANGED <<log, thread, auditVars, made, amount, crashes, cancels>>

\* CancelledError where it waits for a thread: the lock goes back; a thread that
\* has started goes on, a job that has not is taken out of the pool.
CancelReceipt(w) ==
  /\ cancels < MaxCancels /\ cancels' = cancels + 1
  /\ writer[w].pc \in {"reading", "writing"}
  /\ thread' \in {thread, thread \ {writer[w].line}}
  /\ logLock' = None
  /\ writer' = [writer EXCEPT ![w] = Resting]
  /\ UNCHANGED <<log, head, kept, auditVars, made, amount, crashes>>

-----------------------------------------------------------------------------
(* AuditStore.append: the file, its trimming, then the table.              *)

\* Mutant: the oldest lines are kept.
Oldest(s) == IF Len(s) <= MaxEvents THEN s ELSE SubSeq(s, 1, MaxEvents)
Newest(s) == IF Len(s) <= MaxEvents THEN s ELSE SubSeq(s, Len(s) - MaxEvents + 1, Len(s))

BeginEvent(w) ==
  /\ writer[w].pc = "idle" /\ auditLock = None /\ made.event < amount.event
  /\ auditLock' = w
  /\ made' = [made EXCEPT !.event = @ + 1]
  /\ writer' = [writer EXCEPT ![w] = [Resting EXCEPT !.pc = "file", !.line = made.event + 1]]
  /\ UNCHANGED <<receiptVars, events, table, primary, sinceTrim, orphan, heard, amount, crashes, cancels>>

\* FileAuditStore.append_event, and what follows it without a trim.
AppendEvent(w) ==
  /\ writer[w].pc = "file"
  /\ events' = Append(events, writer[w].line)
  /\ sinceTrim' = sinceTrim + 1
  /\ writer' = [writer EXCEPT ![w].pc = IF sinceTrim + 1 >= TrimInterval THEN "trim" ELSE "row"]
  /\ UNCHANGED <<receiptVars, table, primary, auditLock, orphan, heard, made, amount, crashes, cancels>>

\* _trim_sync reads the lines, and has nothing to do when they are few;
ReadForTrim(w) ==
  /\ writer[w].pc = "trim"
  /\ IF Len(events) <= MaxEvents
     THEN /\ writer' = [writer EXCEPT ![w].pc = "row"]
          /\ sinceTrim' = 0
     ELSE /\ writer' = [writer EXCEPT ![w].pc = "replace", ![w].lines = events]
          /\ UNCHANGED sinceTrim
  /\ UNCHANGED <<receiptVars, events, table, primary, auditLock, orphan, heard, made, amount, crashes, cancels>>

\* else the newest of them replace the file.
TrimEvents(w) ==
  /\ writer[w].pc = "replace"
  /\ events' = Newest(writer[w].lines)
  /\ sinceTrim' = 0
  /\ writer' = [writer EXCEPT ![w].pc = "row", ![w].lines = <<>>]
  /\ UNCHANGED <<receiptVars, table, primary, auditLock, orphan, heard, made, amount, crashes, cancels>>

\* The row, with the rows beyond max_events deleted in the same transaction; a
\* store that started without its database writes none.
InsertRow(w) ==
  /\ writer[w].pc = "row"
  /\ table' = IF primary = "sqlite" THEN Newest(Append(table, writer[w].line)) ELSE table
  /\ heard' = heard \cup {[id |-> writer[w].line, primary |-> primary]}
  /\ auditLock' = None
  /\ writer' = [writer EXCEPT ![w] = Resting]
  /\ UNCHANGED <<receiptVars, events, primary, sinceTrim, orphan, made, amount, crashes, cancels>>

\* CancelledError in one of the three threads: the lock goes back, the writes are not
\* counted; a thread that has started goes on.
CancelEvent(w) ==
  /\ cancels < MaxCancels /\ cancels' = cancels + 1
  /\ writer[w].pc \in {"file", "trim", "replace", "row"}
  /\ \/ orphan' = orphan \cup {writer[w]}
     \/ writer[w].pc # "replace" /\ UNCHANGED orphan
  /\ auditLock' = None
  /\ writer' = [writer EXCEPT ![w] = Resting]
  /\ UNCHANGED <<receiptVars, events, table, primary, sinceTrim, heard, made, amount, crashes>>

OrphanGoesOn ==
  /\ \E o \in orphan :
       \/ /\ o.pc = "file" /\ events' = Append(events, o.line)
          /\ orphan' = orphan \ {o} /\ UNCHANGED table
       \/ /\ o.pc = "trim" /\ Len(events) > MaxEvents
          /\ orphan' = (orphan \ {o}) \cup {[o EXCEPT !.pc = "replace", !.lines = events]}
          /\ UNCHANGED <<events, table>>
       \/ /\ o.pc = "replace" /\ events' = Newest(o.lines)
          /\ orphan' = orphan \ {o} /\ UNCHANGED table
       \/ /\ o.pc = "row" /\ primary = "sqlite" /\ table' = Newest(Append(table, o.line))
          /\ orphan' = orphan \ {o} /\ UNCHANGED events
  /\ UNCHANGED <<receiptVars, writer, primary, sinceTrim, auditLock, heard, made, amount, crashes, cancels>>

\* The controller stops and starts: what is in memory and in threads is gone, and
\* the database may now be available, or not.
CrashLogs ==
  /\ crashes < MaxCrashes
  /\ crashes' = crashes + 1
  /\ head' = None /\ logLock' = None /\ thread' = {}
  /\ sinceTrim' = 0 /\ auditLock' = None /\ orphan' = {} /\ primary' \in {"file", "sqlite"}
  /\ writer' = [w \in Writer |-> Resting]
  /\ UNCHANGED <<log, kept, events, table, heard, made, amount, cancels>>

WNext ==
  \/ \E w \in Writer :
       \/ BeginReceipt(w) \/ ReadHead(w) \/ EndReceipt(w) \/ CancelReceipt(w)
       \/ BeginEvent(w) \/ AppendEvent(w) \/ ReadForTrim(w) \/ TrimEvents(w) \/ InsertRow(w) \/ CancelEvent(w)
  \/ ThreadWrites \/ OrphanGoesOn
  \/ CrashLogs

WSpec == WInit /\ [][WNext]_wvars

-----------------------------------------------------------------------------
(* Properties.                                                             *)

\* The walk of verify: every line is chained to the line before it.
Verified(lines) ==
  \A i \in 1..Len(lines) : lines[i].prev = IF i = 1 THEN None ELSE lines[i - 1].id

\* The receipts of a scope verify end to end, whatever interleaves and whenever the
\* controller restarts (witness.WitnessRecorder: "append-only, hash-chained", "the
\* asyncio.Lock serializes concurrent appends within one event loop").
ChainVerifies == Verified(log)

\* The chain is whole as long as no append was cancelled, and even then no receipt
\* whose append returned is missing (witness.append, _read_last_hash).
ReceiptsKept ==
  /\ cancels = 0 => Verified(log)
  /\ kept \subseteq {log[i].id : i \in 1..Len(log)}

(* AuditStore.list: what the primary store has, the newest first.          *)

FirstOf(limit, s) == SubSeq(s, 1, IF Len(s) < limit THEN Len(s) ELSE limit)
ListedByFile(limit) == FirstOf(limit, Reverse(events))
ListedByTable(limit) == FirstOf(limit, Reverse(table))
list(limit) == IF primary = "sqlite" THEN ListedByTable(limit) ELSE ListedByFile(limit)

\* Unless an append was cancelled, the answer of list has no event twice and none before
\* a newer one, and every event whose append returned is in it, unless max_events newer
\* ones are, or the store listed is the table and the event was appended by a run of the
\* controller that had no database (audit._trim_sync, the retention of _append_sync).
NewestEventsListed ==
  cancels = 0 =>
    /\ \A i, j \in DOMAIN list(MaxEvents) : i < j => list(MaxEvents)[i] > list(MaxEvents)[j]
    /\ \A e \in heard : (primary = "file" \/ e.primary = "sqlite") =>
         \/ \E i \in DOMAIN list(MaxEvents) : list(MaxEvents)[i] = e.id
         \/ Len(list(MaxEvents)) = MaxEvents /\ \A i \in 1..MaxEvents : list(MaxEvents)[i] > e.id

\* The file outgrows its limit only by the writes between two trims, once more for
\* every restart, as the count of the writes since the last trim is not kept on disk, and
\* by one line for every append that was cancelled before it was counted or trimmed.
EventsFileBounded == Len(events) <= MaxEvents + (crashes + 1) * TrimInterval + cancels

\* PROPERTY EventsKept: trimming takes no event that should still be listed, in the file or the
\* table, and happens often enough, whatever restarts and cancellations come between.
EventsKept == NewestEventsListed /\ EventsFileBounded
=============================================================================
