----------------------------- MODULE SessionLog -----------------------------
(***************************************************************************)
(* The file of one Session: FileSessionStore of runtime/session_store.py.  *)
(*                                                                         *)
(* A record has three pieces, two halves of its JSON and the end of its    *)
(* line; a death may leave a part of it in the file.                       *)
(* Runtimes work under the Session lease.  Listers call list_overviews or  *)
(* latest_session_id, which load every Session without its lease.  The     *)
(* RLock of a store orders the threads of one process only, so here each   *)
(* process is one actor.                                                   *)
(***************************************************************************)
EXTENDS Naturals, Sequences, SequencesExt

CONSTANTS
  Runtimes,        \* processes that run the Session
  Listers,         \* processes that list the Sessions
  MaxRecords,      \* bound: records of the Session
  MaxLoads,        \* bound: loads, all processes together
  MaxCrashes       \* bound: deaths of processes

Processes == Runtimes \union Listers
Nobody == "nobody"

\* What an instance has to give the constants.
SessionAssumption ==
  /\ Nobody \notin Processes /\ Runtimes \intersect Listers = {}
  /\ {MaxRecords, MaxLoads, MaxCrashes} \subseteq Nat

VARIABLES
  file,     \* pieces in the file
  exists,   \* has the file been created?
  lease,    \* holder of the lock file
  proc,     \* proc[p]: what process p is doing, with what it has in memory
  acked,    \* records whose append has returned
  written,  \* records so far, the unfinished one included
  loads, crashes,
  disturbed \* history: has a process died while it rewrote the file, or has a
            \* lister, who holds no lease, repaired it?

vars == <<file, exists, lease, proc, acked, written, loads, crashes, disturbed>>

-----------------------------------------------------------------------------
(* Records are numbered; the first is the metadata, the second a state.     *)

Pieces(r) == <<[rec |-> r, part |-> 1], [rec |-> r, part |-> 2], [rec |-> r, part |-> 3]>>
NewLine == 3

\* raw.rpartition(b"\n"): the last end of a line, and what precedes it.
LineEnds(raw) == {i \in 1..Len(raw) : raw[i].part = NewLine}
LastEnd(raw) == IF LineEnds(raw) = {} THEN 0 ELSE Max(LineEnds(raw))
Prefix(raw) == SubSeq(raw, 1, LastEnd(raw))

\* Where lines begin, blank ones left out,
Starts(raw) ==
  {i \in 1..Len(raw) : raw[i].part # NewLine /\ (i = 1 \/ raw[i - 1].part = NewLine)}

\* and where the line is valid JSON: one whole record, and nothing but it.
Records(raw) ==
  {i \in Starts(raw) :
     /\ i < Len(raw) /\ raw[i].part = 1 /\ raw[i + 1].part = 2 /\ raw[i + 1].rec = raw[i].rec
     /\ i + 1 = Len(raw) \/ raw[i + 2].part = NewLine}

Readable(raw) ==
  /\ Starts(raw) = Records(raw)
  /\ \E i \in Records(raw) : raw[i].rec = 1
  /\ \E i \in Records(raw) : raw[i].rec > 1

-----------------------------------------------------------------------------
(* pc: "idle"; "ready", holding the lease of an open Session; "append";     *)
(* "load", "scan", "newline", "truncate", "rewrite", "replay" of a load;    *)
(* "failed" after a load that raised.  todo are the pieces still to be      *)
(* written, raw the bytes that were read.                                   *)

Idle == [pc |-> "idle", todo |-> <<>>, raw |-> <<>>]

Init ==
  /\ file = <<>> /\ exists = FALSE
  /\ lease = Nobody
  /\ proc = [p \in Processes |-> Idle]
  /\ acked = <<>> /\ written = 0
  /\ loads = 0 /\ crashes = 0 /\ disturbed = FALSE

Goto(p, pc) == proc' = [proc EXCEPT ![p].pc = pc]

\* lease(): the lock file is taken without waiting, before anything is read.
Acquire(p) ==
  /\ p \in Runtimes /\ proc[p].pc = "idle" /\ lease = Nobody
  /\ lease' = p
  /\ Goto(p, IF exists THEN "load" ELSE "ready")
  /\ UNCHANGED <<file, exists, acked, written, loads, crashes, disturbed>>

Release(p) ==
  /\ proc[p].pc \in {"ready", "failed"}
  /\ lease' = IF lease = p THEN Nobody ELSE lease
  /\ proc' = [proc EXCEPT ![p] = Idle]
  /\ UNCHANGED <<file, exists, acked, written, loads, crashes, disturbed>>

\* create() writes the metadata and then a state; append_message() and
\* save_state() ask for the file again.
StartAppend(p) ==
  /\ p \in Runtimes /\ proc[p].pc = "ready" /\ written < MaxRecords
  /\ written = 0 \/ exists
  /\ written' = written + 1
  /\ exists' = TRUE
  /\ proc' = [proc EXCEPT ![p].pc = "append", ![p].todo = Pieces(written + 1)]
  /\ UNCHANGED <<file, lease, acked, loads, crashes, disturbed>>

\* _append: opened for appending, so the pieces go to the end of the file as
\* it is now; after the last one and its fsync the call returns.
AppendPieces(p, n) ==
  /\ proc[p].pc = "append"
  /\ LET todo == proc[p].todo
     IN  /\ n \in 1..Len(todo)
         /\ file' = file \o SubSeq(todo, 1, n)
         /\ proc' = [proc EXCEPT ![p].todo = SubSeq(todo, n + 1, Len(todo)),
                                 ![p].pc = IF n = Len(todo) THEN "ready" ELSE "append"]
         /\ acked' = IF n = Len(todo) THEN Append(acked, Last(todo).rec) ELSE acked
  /\ UNCHANGED <<exists, lease, written, loads, crashes, disturbed>>

\* list_overviews(), latest_session_id()
List(p) ==
  /\ p \in Listers /\ proc[p].pc = "idle" /\ exists
  /\ Goto(p, "load")
  /\ UNCHANGED <<file, exists, lease, acked, written, loads, crashes, disturbed>>

\* _recover_partial_tail reads the whole file and decides by what it read.
ReadFile(p) ==
  /\ proc[p].pc = "load" /\ loads < MaxLoads
  /\ loads' = loads + 1
  /\ proc' = [proc EXCEPT ![p].raw = file, ![p].pc =
       IF LastEnd(file) = Len(file) THEN "replay"
       ELSE IF LastEnd(file) + 1 \in Records(file) THEN "newline"
       ELSE IF LineEnds(file) = {} THEN "failed"
       ELSE "truncate"]
  /\ UNCHANGED <<file, exists, lease, acked, written, crashes, disturbed>>

EndLine(p) ==
  /\ proc[p].pc = "newline"
  /\ file' = Append(file, [rec |-> 0, part |-> NewLine])
  /\ Goto(p, "replay")
  /\ disturbed' = (disturbed \/ p \in Listers)
  /\ UNCHANGED <<exists, lease, acked, written, loads, crashes>>

\* path.open("wb"): the copy of the tail is on disk, the file is empty.
Truncate(p) ==
  /\ proc[p].pc = "truncate"
  /\ file' = <<>>
  /\ Goto(p, "rewrite")
  /\ disturbed' = (disturbed \/ p \in Listers)
  /\ UNCHANGED <<exists, lease, acked, written, loads, crashes>>

\* Mutant of Rewrite: the last whole record is taken for part of the tail.
RewriteShort(p) ==
  /\ proc[p].pc = "rewrite"
  /\ file' = SubSeq(Prefix(proc[p].raw), 1, LastEnd(Prefix(proc[p].raw)) - 3)
  /\ Goto(p, "replay")
  /\ UNCHANGED <<exists, lease, acked, written, loads, crashes, disturbed>>

\* The prefix is written from the start of the file, over what others have
\* appended in the meantime.
Rewrite(p) ==
  /\ proc[p].pc = "rewrite"
  /\ LET prefix == Prefix(proc[p].raw)
     IN  file' = prefix \o SubSeq(file, Len(prefix) + 1, Len(file))
  /\ Goto(p, "replay")
  /\ UNCHANGED <<exists, lease, acked, written, loads, crashes, disturbed>>

\* load() opens the file again and validates every line.
Replay(p) ==
  /\ proc[p].pc = "replay"
  /\ Goto(p, IF Readable(file) THEN "ready" ELSE "failed")
  /\ UNCHANGED <<file, exists, lease, acked, written, loads, crashes, disturbed>>

\* A part of an append may have reached the file.  The operating system
\* frees the lock; nothing else is undone.
Crash(p, n) ==
  /\ proc[p].pc # "idle" /\ crashes < MaxCrashes
  /\ n \in 0..Len(proc[p].todo)
  /\ file' = file \o SubSeq(proc[p].todo, 1, n)
  /\ crashes' = crashes + 1
  /\ disturbed' = (disturbed \/ proc[p].pc = "rewrite")
  /\ proc' = [proc EXCEPT ![p] = Idle]
  /\ lease' = IF lease = p THEN Nobody ELSE lease
  /\ UNCHANGED <<exists, acked, written, loads>>

Next ==
  \E p \in Processes :
    \/ Acquire(p) \/ Release(p) \/ StartAppend(p)
    \/ \E n \in 1..3 : AppendPieces(p, n)
    \/ List(p) \/ ReadFile(p) \/ EndLine(p) \/ Truncate(p) \/ Rewrite(p) \/ Replay(p)
    \/ \E n \in 0..3 : Crash(p, n)

Spec == Init /\ [][Next]_vars

-----------------------------------------------------------------------------
Recovering == \E p \in Processes : proc[p].pc = "rewrite"

\* "以追加式 JSONL 保存权威会话": a record whose append has returned is in the file
\* for good, in the order of the appends.  What the file holds beyond them are
\* records whose append was cut off.
AckedRecordsSurvive ==
  ~Recovering =>
    /\ \A k \in DOMAIN acked : \E i \in Records(file) :
         \A j \in Records(file) : file[j].rec = acked[k] <=> j = i
    /\ \A i, j \in Records(file), k, m \in DOMAIN acked :
         k < m /\ file[i].rec = acked[k] /\ file[j].rec = acked[m] => i < j

\* Once create() has returned, the Session can be loaded again after any
\* crash: no later load raises.
SessionStaysReadable ==
  Len(acked) >= 2 => \A p \in Runtimes : proc[p].pc # "failed"

=============================================================================
