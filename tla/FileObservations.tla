-------------------------- MODULE FileObservations --------------------------
(***************************************************************************)
(* What the Agent may overwrite: read_file, write_file and edit_file of    *)
(* tools/filesystem.py over one path, with the observations of             *)
(* WorkspaceState, the transcript they consult, and the instruction files  *)
(* of the directory.                                                       *)
(*                                                                         *)
(* A text stands for the whole file; "absent" is a missing file.  A        *)
(* modification time is the number of the change that set it.  Other       *)
(* programs, the Agent's own Bash commands among them, change the file     *)
(* between two calls, and within a call where Within allows it.  The       *)
(* worktree tools move the Agent between checkouts of the path.            *)
(***************************************************************************)
EXTENDS Naturals, Sequences, FiniteSets

CONSTANTS
  Checkouts,     \* directories the path is resolved in
  Inputs,        \* read inputs in use, of "whole" and "part"
  Instructed,    \* may an AGENTS.md below the root be there?
  Within,        \* points in a call where another program gets in: "read", "guard", "observe"
  MaxTotal,      \* bound: calls in all messages
  MaxCalls,      \* bound: calls in one message
  MaxEdits       \* bound: changes by other programs

\* What an instance has to give the constants.
FilesAssumption ==
  /\ IsFiniteSet(Checkouts) /\ Checkouts # {}
  /\ Inputs \subseteq {"whole", "part"} /\ Within \subseteq {"read", "guard", "observe"}
  /\ Instructed \in BOOLEAN /\ {MaxTotal, MaxCalls, MaxEdits} \subseteq Nat

Texts == {"a", "b", "c"}
Absent == "absent"
None == [complete |-> FALSE, text |-> Absent, time |-> 0]   \* no observation
CallKinds == Inputs \union {"write", "edit"}
             \union (IF Cardinality(Checkouts) > 1 THEN {"move"} ELSE {})

Written == "c"   \* what a write_file call carries
\* edit_file replaces one occurrence: the new text depends on the old one.
Edited(text) == CASE text = "a" -> "b" [] text = "b" -> "c" [] OTHER -> "a"

VARIABLES
  disk,       \* disk[d]: the text in checkout d and its modification time
  here,       \* the checkout the Agent works in
  clock,      \* modification times given out
  edits,      \* changes by other programs so far
  obs,        \* the observation of the path in the Agent's state
  batch,      \* the observation the calls of the running batch see
  transcript, \* calls and results so far, one record per call
  todo,       \* calls of the current message that have not been answered
  messages,   \* messages so far
  at,         \* where the running call is, with what it has read
  known,      \* texts that a read has returned whole or the Agent has written
  blind,      \* has a write replaced a text that is not known?
  raced,      \* has another program written between a guard and its observation?
  nested,     \* the AGENTS.md next to the file: "none", or by name after ("last") or before the root's
  active,     \* instruction_state.active_paths
  reviewed,   \* has the last model request carried it?
  unread      \* has the first call of a message written under instructions no request carried?

file == <<disk, clock, edits, raced>>
agent == <<here, obs, batch, known, blind>>
rules == <<nested, active, reviewed, unread>>
vars == <<file, agent, transcript, todo, messages, at, rules>>

Idle == [step |-> "idle", text |-> Absent, time |-> 0]

-----------------------------------------------------------------------------
(* What the tools look at.                                                 *)

\* The earlier results of the same input that no later write_file or edit_file
\* call of the path follows, as the calls of the current message see them.
ExactReads(input) ==
  {i \in DOMAIN transcript :
     /\ transcript[i].kind = input /\ transcript[i].ok /\ transcript[i].message < messages
     /\ \A j \in DOMAIN transcript :
          j > i => transcript[j].kind # "write" \/ transcript[j].message = transcript[i].message}

\* The calls of one message precede all of its results.
WriteCalled ==
  \/ \E i \in DOMAIN transcript : transcript[i].kind = "write" /\ transcript[i].message = messages
  \/ \E i \in DOMAIN todo : todo[i] \in {"write", "edit"}

Matches(observation, current) ==
  observation # None /\ observation.text = current.text /\ observation.time = current.time

\* activate_for_path: the instruction files from the root to the file, by depth.
Activated == IF nested = "none" THEN <<"root">> ELSE <<"root", "nested">>

\* InstructionsActivated in AgentRunState.apply: the same files, by name.
Named == IF nested = "first" THEN <<"nested", "root">> ELSE Activated

\* The tools compare the sequences.
Discovered == Activated # active

\* _runtime_reminder: does a request carry the instructions of the file?
Reminder == active # <<"root">>

\* No call of the current message has been answered.
FirstCall == \A i \in DOMAIN transcript : transcript[i].message # messages

\* _atomic_write_text: the whole text at once, with a new modification time.
Replaced(text) == [text |-> text, time |-> clock + 1]

\* As it could be by mistake: the file itself is not looked at again.
UnchangedByTranscript(input, observation) ==
  disk[here].text # Absent /\ observation # None /\ ExactReads(input) # {} /\ ~WriteCalled

\* _is_exact_unchanged_read
IsExactUnchangedRead(input, observation) ==
  /\ disk[here].text # Absent
  /\ Matches(observation, disk[here])
  /\ ExactReads(input) # {} /\ ~WriteCalled

\* As it could be by mistake: no comparison with the file.
GuardOnce(observation) ==
  IF disk[here].text # Absent /\ ~observation.complete THEN "FILE_NOT_FULLY_READ" ELSE "none"

\* _existing_file_guard
GuardError(observation) ==
  IF disk[here].text = Absent THEN "none"
  ELSE IF ~observation.complete THEN "FILE_NOT_FULLY_READ"
  ELSE IF ~Matches(observation, disk[here]) THEN "FILE_CHANGED_SINCE_READ"
  ELSE "none"

-----------------------------------------------------------------------------
Init ==
  /\ \E texts \in [Checkouts -> {"a", "b", Absent}] : \E order \in [Checkouts -> 1..Cardinality(Checkouts)] :
       /\ \A d, e \in Checkouts : order[d] = order[e] => d = e
       /\ disk = [d \in Checkouts |-> [text |-> texts[d], time |-> order[d]]]
  /\ here = CHOOSE d \in Checkouts : TRUE
  /\ clock = Cardinality(Checkouts) /\ edits = 0 /\ raced = FALSE
  /\ obs = None /\ batch = None /\ known = {} /\ blind = FALSE
  /\ transcript = <<>> /\ todo = <<>> /\ messages = 0 /\ at = Idle
  /\ nested \in (IF Instructed THEN {"none", "last", "first"} ELSE {"none"})
  /\ active = <<"root">> /\ reviewed = FALSE /\ unread = FALSE

\* The next message of the model: a request with the active instructions in its
\* reminder, and one or more calls of file tools in the answer.
CallTools ==
  /\ todo = <<>>
  /\ \E n \in 1..MaxCalls : \E calls \in [1..n -> CallKinds] :
       Len(transcript) + n <= MaxTotal /\ todo' = calls
  /\ messages' = messages + 1
  /\ batch' = obs
  /\ reviewed' = Reminder
  /\ UNCHANGED <<file, here, obs, known, blind, transcript, at, nested, active, unread>>

\* The result of the first call of todo.  Reads that follow each other are one
\* batch and see the state it began with; any other call sees the present state.
Answer(kind, ok, code, text, observation) ==
  /\ transcript' = Append(transcript,
       [kind |-> kind, ok |-> ok, code |-> code, text |-> text,
        now |-> disk[here], message |-> messages])
  /\ todo' = Tail(todo)
  /\ at' = Idle
  /\ obs' = observation
  /\ batch' = IF kind \in Inputs /\ todo' # <<>> /\ Head(todo') \in Inputs THEN batch ELSE observation

\* ReadFileTool.call: answered from the transcript, without a state change.
ReadUnchanged ==
  /\ todo # <<>> /\ Head(todo) \in Inputs /\ at = Idle
  /\ IsExactUnchangedRead(Head(todo), batch)
  /\ LET last == CHOOSE i \in ExactReads(Head(todo)) : \A j \in ExactReads(Head(todo)) : j <= i
     IN Answer(Head(todo), TRUE, "unchanged", transcript[last].text, obs)
  /\ UNCHANGED <<file, here, known, blind, messages, rules>>

\* ReadFileTool.call: the text is read, and in the next thread its stat.
ReadText ==
  /\ todo # <<>> /\ Head(todo) \in Inputs /\ at = Idle
  /\ ~IsExactUnchangedRead(Head(todo), batch)
  /\ IF disk[here].text = Absent
       THEN /\ Answer(Head(todo), FALSE, "FILE_OPERATION_FAILED", Absent, obs)
            /\ UNCHANGED <<here, known, blind>>
       ELSE /\ at' = [step |-> "stat", text |-> disk[here].text, time |-> 0]
            /\ UNCHANGED <<agent, transcript, todo>>
  /\ UNCHANGED <<file, messages, rules>>

ReadStat ==
  /\ at.step = "stat"
  /\ IF disk[here].text = Absent
       THEN /\ Answer(Head(todo), FALSE, "FILE_OPERATION_FAILED", Absent, obs)
            /\ UNCHANGED <<known, active>>
       ELSE /\ Answer(Head(todo), TRUE, "read", at.text,
                 [text |-> at.text, time |-> disk[here].time, complete |-> Head(todo) = "whole"])
            /\ known' = IF Head(todo) = "whole" THEN known \union {at.text} ELSE known
            /\ active' = Named
  /\ UNCHANGED <<file, here, blind, messages, nested, reviewed, unread>>

\* WriteFileTool.call, EditFileTool.call: instructions first, then the guard.
Refuse ==
  /\ todo # <<>> /\ Head(todo) \in {"write", "edit"} /\ at = Idle
  /\ \/ Discovered /\ active' = Named
        /\ Answer("write", FALSE, "REPOSITORY_INSTRUCTIONS_DISCOVERED", Absent, obs)
     \/ ~Discovered /\ GuardError(obs) # "none" /\ UNCHANGED active
        /\ Answer("write", FALSE, GuardError(obs), Absent, obs)
  /\ UNCHANGED <<file, here, known, blind, messages, nested, reviewed, unread>>

Guard ==
  /\ todo # <<>> /\ Head(todo) \in {"write", "edit"} /\ at = Idle
  /\ ~Discovered /\ GuardError(obs) = "none"
  /\ at' = [Idle EXCEPT !.step = "write"]
  /\ UNCHANGED <<file, agent, transcript, todo, messages, rules>>

\* files.write_file: whatever is there is replaced.
WriteFile ==
  /\ at.step = "write" /\ Head(todo) = "write"
  /\ disk' = [disk EXCEPT ![here] = Replaced(Written)]
  /\ known' = known \union {Written}
  /\ at' = [at EXCEPT !.step = "observe"]
  /\ blind' = (blind \/ disk[here].text \notin known \union {Absent})
  /\ unread' = (unread \/ (nested # "none" /\ ~reviewed /\ FirstCall))
  /\ clock' = clock + 1
  /\ UNCHANGED <<edits, raced, here, obs, batch, transcript, todo, messages, nested, active, reviewed>>

\* files.edit_file reads the text again, under its lock: old_text is replaced in
\* what is there, or is not found.
EditFile ==
  /\ at.step = "write" /\ Head(todo) = "edit"
  /\ \/ /\ disk[here].text # Absent
        /\ disk' = [disk EXCEPT ![here] = Replaced(Edited(@.text))]
        /\ known' = known \union (IF disk[here].text \in known THEN {Edited(disk[here].text)} ELSE {})
        /\ clock' = clock + 1
        /\ at' = [at EXCEPT !.step = "observe"]
        /\ unread' = (unread \/ (nested # "none" /\ ~reviewed /\ FirstCall))
        /\ UNCHANGED <<edits, raced, obs, batch, transcript, todo>>
     \/ /\ Answer("write", FALSE, "FILE_OPERATION_FAILED", Absent, obs)
        /\ UNCHANGED <<file, known, unread>>
  /\ UNCHANGED <<here, blind, messages, nested, active, reviewed>>

\* _observe_written_file, in a thread of its own.
ObserveWritten ==
  /\ at.step = "observe"
  /\ IF disk[here].text = Absent
       THEN Answer("write", FALSE, "FILE_OPERATION_FAILED", Absent, obs)
       ELSE Answer("write", TRUE, "none", Absent,
              [text |-> disk[here].text, time |-> disk[here].time, complete |-> TRUE])
  /\ UNCHANGED <<file, here, known, blind, messages, rules>>

\* EnterWorktreeTool, ExitWorktreeTool: another checkout, no observations.
Move ==
  /\ todo # <<>> /\ Head(todo) = "move" /\ at = Idle
  /\ here' \in Checkouts \ {here}
  /\ Answer("move", TRUE, "none", Absent, None)
  /\ active' = <<"root">>
  /\ UNCHANGED <<file, known, blind, messages, nested, reviewed, unread>>

\* Another program replaces or deletes the file.
Point == CASE at.step = "stat" -> "read" [] at.step = "write" -> "guard"
           [] at.step = "observe" -> "observe" [] OTHER -> "idle"
OtherProgram ==
  /\ edits < MaxEdits
  /\ edits' = edits + 1
  /\ Point \in Within \union {"idle"}
  /\ \E text \in (Texts \union {Absent}) \ {disk[here].text} :
       disk' = [disk EXCEPT ![here] = [text |-> text, time |-> clock + 1]]
  /\ clock' = clock + 1
  /\ raced' = (raced \/ Point \in {"guard", "observe"})
  /\ UNCHANGED <<agent, transcript, todo, messages, at, rules>>

Next ==
  \/ CallTools \/ ReadUnchanged \/ ReadText \/ ReadStat
  \/ Refuse \/ Guard \/ WriteFile \/ EditFile \/ ObserveWritten
  \/ Move \/ OtherProgram

Spec == Init /\ [][Next]_vars

-----------------------------------------------------------------------------
(* Properties.                                                             *)

\* Every variable keeps its shape, and no time is of the future.
TypeOK ==
  /\ disk \in [Checkouts -> [text : Texts \union {Absent}, time : 1..clock]]
  /\ here \in Checkouts /\ known \subseteq Texts
  /\ {obs, batch} \subseteq [text : Texts \union {Absent}, time : 0..clock, complete : BOOLEAN]
  /\ at.step \in {"idle", "stat", "write", "observe"}
  /\ nested \in {"none", "last", "first"}
  /\ active \in {<<"root">>, <<"root", "nested">>, <<"nested", "root">>}
  /\ {blind, raced, reviewed, unread} \subseteq BOOLEAN

\* A write never replaces a text that no read returned whole and the Agent did
\* not write itself.
ReplacedWasKnown == ~blind

\* The guard, the observation made after a write and the answers without a state
\* change see to it, up to the first time that another program writes after the
\* guard of a write and before its observation.
OnlyRacesAreBlind == blind => raced

\* An answer "File unchanged since last exact read" that refers to a result which
\* does not show what the file holds.
Untrue(i) ==
  /\ transcript[i].code = "unchanged" /\ transcript[i].kind = "whole"
  /\ transcript[i].text # transcript[i].now.text

\* Before the call at i a page was asked for; or two calls shared a message.
Paged(i) == \E j \in 1..i - 1 : transcript[j].kind = "part"
Shared(i) == \E j \in 1..i : \E k \in 1..j - 1 : transcript[k].message = transcript[j].message

\* "File unchanged since last exact read" is true.
UnchangedIsTrue == \A i \in DOMAIN transcript : ~Untrue(i)

\* It is, up to the first page and the first message with two calls: a page or the
\* writes of the read's own message can come between the result and the observation.
UntrueOnlyAround == \A i \in DOMAIN transcript : Untrue(i) => Paged(i) \/ Shared(i)

\* A write that is refused as not fully read, although the message before has just
\* read the file whole and it has not changed since.
RefusedAfterRead(i) ==
  /\ transcript[i].code = "FILE_NOT_FULLY_READ" /\ i > 1
  /\ transcript[i - 1].kind = "whole" /\ transcript[i - 1].ok
  /\ transcript[i - 1].now = transcript[i].now
  /\ transcript[i - 1].message < transcript[i].message

\* The guard asks for a whole read only when there was none.
WholeReadSuffices == \A i \in DOMAIN transcript : ~RefusedAfterRead(i)

\* It does, except that a page may have replaced the observation and the whole read
\* after it was answered as unchanged, without an observation.
RefusedOnlyPaged ==
  \A i \in DOMAIN transcript :
    RefusedAfterRead(i) => transcript[i - 1].code = "unchanged" /\ Paged(i - 1)

\* The refusals say what to do: after a message whose only call was a write, refused
\* for what is known of the file, and a message that reads the file whole, the write
\* is not refused so again unless somebody changed the file.
RetryIsAccepted ==
  \A i \in DOMAIN transcript \ {1, 2} :
    ~ /\ transcript[i].code \in {"FILE_NOT_FULLY_READ", "FILE_CHANGED_SINCE_READ"}
      /\ transcript[i - 1].kind = "whole" /\ transcript[i - 1].ok
      /\ transcript[i - 2].kind = "write" /\ ~transcript[i - 2].ok
      /\ transcript[i - 2].now = transcript[i].now /\ transcript[i - 1].now = transcript[i].now
      /\ \A k \in 1..i - 3 : transcript[k].message # transcript[i - 2].message
      /\ transcript[i - 2].message < transcript[i - 1].message
      /\ transcript[i - 1].message < transcript[i].message

\* "review them and retry the write": a write that was refused for the
\* instructions of its directory is not made by a later call of the same
\* message, which the model sent before it could see them.
RefusedIsReviewed ==
  \A i, j \in DOMAIN transcript :
    ~ /\ i < j /\ transcript[i].message = transcript[j].message
      /\ transcript[i].code = "REPOSITORY_INSTRUCTIONS_DISCOVERED"
      /\ transcript[j].kind = "write" /\ transcript[j].ok

\* The first call of a message writes a file only if the request carried the
\* instructions of its directory.
WritesAreInstructed == ~unread

\* "review them and retry the write": once refused for the instructions of its
\* directory, a write is not refused for them by a later message, unless the Agent
\* has moved.
ReviewIsEnough ==
  \A i \in DOMAIN transcript : \A j \in 1..i - 1 :
    ~ /\ transcript[j].code = "REPOSITORY_INSTRUCTIONS_DISCOVERED"
      /\ transcript[i].code = "REPOSITORY_INSTRUCTIONS_DISCOVERED"
      /\ \A k \in j..i : transcript[k].kind # "move"

\* It is enough where the order of the names is the order of the depths.
ReviewIsEnoughInOrder == nested # "first" => ReviewIsEnough
=============================================================================
