-------------------------- MODULE WorkspaceProofs --------------------------
(***************************************************************************)
(* What an Agent knows of its workspace, proved for any values of the      *)
(* constants.                                                              *)
(*                                                                         *)
(* FileObservations: what the guards of write_file and edit_file are       *)
(* worth.  A write replaces only a text the Agent knows, until another     *)
(* program writes between the guard of a write and the observation after   *)
(* it; the first call of a message writes under instructions its request   *)
(* carried; and what the tools tell the Agent of the file, that it is      *)
(* unchanged or has to be read, is true and enough, but for what pages and *)
(* several calls in a message spoil.                                       *)
(*                                                                         *)
(* CompletionEvidence, an instance with its constants left open: what the  *)
(* gate of a run accepts is in order and of the workspace as it is.        *)
(***************************************************************************)
EXTENDS FileObservations, FiniteSetTheorems, SequenceTheorems, WellFoundedInduction, TLAPS

-----------------------------------------------------------------------------
(* What the answers say: calls and results, and what the Agent has seen.   *)

FileTexts == Texts \cup {Absent}
FileState == [text : FileTexts, time : Nat]
Steps == {"idle", "stat", "write", "observe"}
Codes ==
  {"none", "read", "unchanged", "FILE_OPERATION_FAILED", "FILE_NOT_FULLY_READ",
   "FILE_CHANGED_SINCE_READ", "REPOSITORY_INSTRUCTIONS_DISCOVERED"}
Entry ==
  [kind : CallKinds \cup {"write", "move"}, ok : BOOLEAN, code : Codes, text : FileTexts,
   now : FileState, message : Nat]

(* The text of an edit is one of the texts.                                *)
LEMMA EditedIsText == \A text : Edited(text) \in Texts
BY DEF Edited, Texts

(* The shapes of the variables the tools consult.                          *)
TalkTypes ==
  /\ disk \in [Checkouts -> FileState] /\ here \in Checkouts /\ clock \in Nat
  /\ obs \in [text : FileTexts, time : Nat, complete : BOOLEAN]
  /\ batch \in [text : FileTexts, time : Nat, complete : BOOLEAN]
  /\ transcript \in Seq(Entry) /\ todo \in Seq(CallKinds) /\ messages \in Nat
  /\ at \in [step : Steps, text : FileTexts, time : Nat]
  /\ at.step # "idle" => todo # <<>>
  /\ at.step = "stat" => Head(todo) \in Inputs

(* An answer has the shape of an entry, and ends its call.                 *)
LEMMA AnswerTypes ==
  ASSUME TalkTypes, todo # <<>>, UNCHANGED <<disk, clock, messages>>, here' \in Checkouts,
         NEW kind \in CallKinds \cup {"write", "move"}, NEW ok \in BOOLEAN, NEW code \in Codes,
         NEW text \in FileTexts,
         NEW observation \in [text : FileTexts, time : Nat, complete : BOOLEAN],
         Answer(kind, ok, code, text, observation)
  PROVE  TalkTypes'
<1>1. [kind |-> kind, ok |-> ok, code |-> code, text |-> text, now |-> disk[here],
       message |-> messages] \in Entry
  BY DEF TalkTypes, Entry
<1>2. transcript' \in Seq(Entry)
  BY <1>1 DEF Answer, TalkTypes
<1>3. todo' \in Seq(CallKinds)
  BY DEF Answer, TalkTypes
<1>4. at' \in [step : Steps, text : FileTexts, time : Nat] /\ at'.step = "idle"
  BY DEF Answer, Idle, Steps, FileTexts
<1>5. obs' \in [text : FileTexts, time : Nat, complete : BOOLEAN]
  BY DEF Answer
<1>6. batch' \in [text : FileTexts, time : Nat, complete : BOOLEAN]
  BY DEF Answer, TalkTypes
<1> QED BY <1>2, <1>3, <1>4, <1>5, <1>6 DEF TalkTypes

(* Nothing was observed.                                                   *)
LEMMA NoneIsObservation == None \in [text : FileTexts, time : Nat, complete : BOOLEAN]
BY DEF None, FileTexts

(* The earlier result that the answer "unchanged" refers to.               *)
LEMMA LastExactRead ==
  ASSUME TalkTypes, NEW input, ExactReads(input) # {},
         NEW last, last = CHOOSE i \in ExactReads(input) : \A j \in ExactReads(input) : j <= i
  PROVE  /\ last \in ExactReads(input) /\ last \in 1 .. Len(transcript)
         /\ \A j \in ExactReads(input) : j <= last
<1> DEFINE n == Len(transcript)
           back == {n - i : i \in ExactReads(input)}
<1>1. n \in Nat /\ DOMAIN transcript = 1 .. n
  BY DEF TalkTypes
<1>2. ExactReads(input) \subseteq 1 .. n
  BY <1>1 DEF ExactReads
<1> HIDE DEF n
<1>3. back \subseteq Nat /\ back # {}
  BY <1>1, <1>2
<1> HIDE DEF back
<1>4. PICK e \in back : \A y \in back : ~(<<y, e>> \in OpToRel(<, Nat))
  BY <1>3, WFMin, NatLessThanWellFounded
<1>5. \A y \in back : ~(y < e)
  BY <1>3, <1>4 DEF OpToRel
<1>6. PICK i \in ExactReads(input) : e = n - i
  BY DEF back
<1>7. \A j \in ExactReads(input) : j <= i
  <2> SUFFICES ASSUME NEW j \in ExactReads(input) PROVE j <= i
    OBVIOUS
  <2>1. n - j \in back
    BY DEF back
  <2>2. ~(n - j < n - i)
    BY <1>5, <1>6, <2>1
  <2> QED BY <1>1, <1>2, <2>2
<1> QED BY <1>2, <1>6, <1>7 DEF n

(* A call that is made first: its message has one call at least.           *)
LEMMA CallsAreSequence ==
  ASSUME NEW n \in 1 .. MaxCalls, MaxCalls \in Nat, NEW calls \in [1 .. n -> CallKinds]
  PROVE  calls \in Seq(CallKinds) /\ Len(calls) = n
<1>1. n \in Nat
  OBVIOUS
<1>2. [1 .. n -> CallKinds] \in {[1 .. k -> CallKinds] : k \in Nat}
  BY <1>1
<1>3. calls \in UNION {[1 .. k -> CallKinds] : k \in Nat}
  BY <1>2
<1>4. calls \in Seq(CallKinds)
  BY <1>3, SeqDef
<1> QED BY <1>1, <1>4, LenProperties

(* The file another program leaves behind.                                 *)
LEMMA OthersWrite ==
  ASSUME TalkTypes, OtherProgram
  PROVE  /\ disk' \in [Checkouts -> FileState] /\ clock' \in Nat /\ clock' = clock + 1
         /\ \A d \in Checkouts : disk'[d] = disk[d] \/ disk'[d].time = clock + 1
         /\ UNCHANGED <<agent, transcript, todo, messages, at>>
<1>1. PICK text \in FileTexts : disk' = [disk EXCEPT ![here] = [text |-> text, time |-> clock + 1]]
  BY DEF OtherProgram, FileTexts
<1>2. [text |-> text, time |-> clock + 1] \in FileState
  BY DEF TalkTypes, FileState
<1>3. clock' = clock + 1 /\ UNCHANGED <<agent, transcript, todo, messages, at>>
  BY DEF OtherProgram
<1> QED BY <1>1, <1>2, <1>3 DEF TalkTypes

(* Every step keeps the shapes.                                            *)
LEMMA TalkStep ==
  ASSUME MaxCalls \in Nat, Inputs \subseteq {"whole", "part"}, TalkTypes, [Next]_vars
  PROVE  TalkTypes'
<1> USE DEF file, agent, rules
<1>0. /\ \A k \in Codes : k \in Codes
      /\ Absent \in FileTexts /\ obs \in [text : FileTexts, time : Nat, complete : BOOLEAN]
      /\ \A t \in Texts : t \in FileTexts
  BY DEF TalkTypes, FileTexts
<1>1. CASE UNCHANGED vars
  BY <1>1 DEF vars, TalkTypes
<1>2. CASE CallTools
  <2>1. PICK n \in 1 .. MaxCalls : \E calls \in [1 .. n -> CallKinds] : todo' = calls
    BY <1>2 DEF CallTools
  <2>2. todo' \in Seq(CallKinds)
    BY <2>1, CallsAreSequence
  <2>3. todo = <<>> /\ messages' = messages + 1 /\ batch' = obs
        /\ UNCHANGED <<file, here, obs, transcript, at>>
    BY <1>2 DEF CallTools
  <2>4. at.step = "idle"
    BY <2>3 DEF TalkTypes
  <2> QED BY <2>2, <2>3, <2>4 DEF TalkTypes
<1>3. CASE ReadUnchanged
  <2> DEFINE last == CHOOSE i \in ExactReads(Head(todo)) : \A j \in ExactReads(Head(todo)) : j <= i
  <2>1. /\ todo # <<>> /\ Head(todo) \in Inputs /\ ExactReads(Head(todo)) # {}
        /\ Answer(Head(todo), TRUE, "unchanged", transcript[last].text, obs)
        /\ UNCHANGED <<disk, clock, messages, here>>
    BY <1>3 DEF ReadUnchanged, IsExactUnchangedRead
  <2>2. last \in 1 .. Len(transcript)
    BY <2>1, LastExactRead
  <2> HIDE DEF last
  <2>3. transcript[last].text \in FileTexts
    <3>1. transcript[last] \in Entry
      BY <2>2 DEF TalkTypes
    <3> QED BY <3>1 DEF Entry
  <2>4. Head(todo) \in CallKinds /\ "unchanged" \in Codes /\ here' \in Checkouts
    BY <2>1 DEF TalkTypes, Codes
  <2> QED BY <1>0, <2>1, <2>3, <2>4, AnswerTypes
<1>4. CASE ReadText
  <2>1. todo # <<>> /\ Head(todo) \in Inputs /\ UNCHANGED <<disk, clock, messages>>
    BY <1>4 DEF ReadText
  <2>2. CASE disk[here].text = Absent
    <3>1. /\ Answer(Head(todo), FALSE, "FILE_OPERATION_FAILED", Absent, obs) /\ here' = here
      BY <1>4, <2>2 DEF ReadText
    <3>2. Head(todo) \in CallKinds /\ "FILE_OPERATION_FAILED" \in Codes /\ here' \in Checkouts
      BY <2>1, <3>1 DEF TalkTypes, Codes
    <3> QED BY <1>0, <2>1, <3>1, <3>2, AnswerTypes
  <2>3. CASE disk[here].text # Absent
    <3>1. /\ at' = [step |-> "stat", text |-> disk[here].text, time |-> 0]
          /\ UNCHANGED <<agent, transcript, todo>>
      BY <1>4, <2>3 DEF ReadText
    <3>2. at' \in [step : Steps, text : FileTexts, time : Nat] /\ at'.step = "stat"
      BY <3>1 DEF TalkTypes, FileState, Steps
    <3> QED BY <2>1, <3>1, <3>2 DEF TalkTypes
  <2> QED BY <2>2, <2>3
<1>5. CASE ReadStat
  <2>1. /\ todo # <<>> /\ Head(todo) \in CallKinds /\ UNCHANGED <<disk, clock, messages, here>>
        /\ here' \in Checkouts
    BY <1>5 DEF ReadStat, TalkTypes
  <2>2. CASE disk[here].text = Absent
    <3>1. Answer(Head(todo), FALSE, "FILE_OPERATION_FAILED", Absent, obs)
      BY <1>5, <2>2 DEF ReadStat
    <3>2. "FILE_OPERATION_FAILED" \in Codes
      BY DEF Codes
    <3> QED BY <1>0, <2>1, <3>1, <3>2, AnswerTypes
  <2>3. CASE disk[here].text # Absent
    <3> DEFINE seen ==
          [text |-> at.text, time |-> disk[here].time, complete |-> Head(todo) = "whole"]
    <3>1. Answer(Head(todo), TRUE, "read", at.text, seen)
      BY <1>5, <2>3 DEF ReadStat
    <3>2. /\ seen \in [text : FileTexts, time : Nat, complete : BOOLEAN] /\ at.text \in FileTexts
          /\ "read" \in Codes
      BY DEF TalkTypes, FileState, Codes
    <3> HIDE DEF seen
    <3> QED BY <2>1, <3>1, <3>2, AnswerTypes
  <2> QED BY <2>2, <2>3
<1>6. CASE Refuse
  <2>1. PICK code : /\ Answer("write", FALSE, code, Absent, obs)
                    /\ code = "REPOSITORY_INSTRUCTIONS_DISCOVERED"
                         \/ (code = GuardError(obs) /\ GuardError(obs) # "none")
    BY <1>6 DEF Refuse
  <2>2. code \in Codes
    BY <2>1 DEF GuardError, Codes
  <2>3. todo # <<>> /\ UNCHANGED <<disk, clock, messages, here>> /\ here' \in Checkouts
    BY <1>6 DEF Refuse, TalkTypes
  <2> QED BY <1>0, <2>1, <2>2, <2>3, AnswerTypes
<1>7. CASE Guard
  <2>1. at' = [Idle EXCEPT !.step = "write"] /\ todo # <<>>
        /\ UNCHANGED <<file, agent, transcript, todo, messages>>
    BY <1>7 DEF Guard
  <2>2. at' \in [step : Steps, text : FileTexts, time : Nat] /\ at'.step = "write"
    BY <2>1 DEF Idle, Steps, FileTexts
  <2> QED BY <2>1, <2>2 DEF TalkTypes
<1>8. CASE WriteFile
  <2>1. /\ disk' = [disk EXCEPT ![here] = Replaced(Written)] /\ clock' = clock + 1
        /\ at.step = "write" /\ at' = [at EXCEPT !.step = "observe"]
        /\ UNCHANGED <<here, obs, batch, transcript, todo, messages>>
    BY <1>8 DEF WriteFile
  <2>2. Replaced(Written) \in FileState
    BY DEF Replaced, Written, Texts, TalkTypes, FileState, FileTexts
  <2>3. at' \in [step : Steps, text : FileTexts, time : Nat] /\ at'.step = "observe"
    BY <2>1 DEF TalkTypes, Steps
  <2> QED BY <2>1, <2>2, <2>3 DEF TalkTypes
<1>9. CASE EditFile
  <2>1. CASE /\ disk' = [disk EXCEPT ![here] = Replaced(Edited(@.text))]
             /\ clock' = clock + 1 /\ at' = [at EXCEPT !.step = "observe"]
             /\ UNCHANGED <<obs, batch, transcript, todo>>
    <3>1. Replaced(Edited(disk[here].text)) \in FileState
      BY EditedIsText DEF Replaced, TalkTypes, FileState, FileTexts
    <3>2. at.step = "write" /\ UNCHANGED <<here, messages>>
      BY <1>9 DEF EditFile
    <3>3. at' \in [step : Steps, text : FileTexts, time : Nat] /\ at'.step = "observe"
      BY <2>1 DEF TalkTypes, Steps
    <3>4. disk' \in [Checkouts -> FileState]
      BY <2>1, <3>1 DEF TalkTypes
    <3> QED BY <2>1, <3>2, <3>3, <3>4 DEF TalkTypes
  <2>2. CASE /\ Answer("write", FALSE, "FILE_OPERATION_FAILED", Absent, obs)
             /\ UNCHANGED file
    <3>1. /\ todo # <<>> /\ UNCHANGED <<disk, clock, messages, here>> /\ here' \in Checkouts
          /\ "FILE_OPERATION_FAILED" \in Codes
      BY <1>9, <2>2 DEF EditFile, TalkTypes, Codes
    <3> QED BY <1>0, <2>2, <3>1, AnswerTypes
  <2> QED BY <1>9, <2>1, <2>2 DEF EditFile
<1>10. CASE ObserveWritten
  <2>1. todo # <<>> /\ UNCHANGED <<disk, clock, messages, here>> /\ here' \in Checkouts
    BY <1>10 DEF ObserveWritten, TalkTypes
  <2>2. CASE disk[here].text = Absent
    <3>1. Answer("write", FALSE, "FILE_OPERATION_FAILED", Absent, obs)
      BY <1>10, <2>2 DEF ObserveWritten
    <3>2. "FILE_OPERATION_FAILED" \in Codes
      BY DEF Codes
    <3> QED BY <1>0, <2>1, <3>1, <3>2, AnswerTypes
  <2>3. CASE disk[here].text # Absent
    <3> DEFINE seen == [text |-> disk[here].text, time |-> disk[here].time, complete |-> TRUE]
    <3>1. Answer("write", TRUE, "none", Absent, seen)
      BY <1>10, <2>3 DEF ObserveWritten
    <3>2. seen \in [text : FileTexts, time : Nat, complete : BOOLEAN] /\ "none" \in Codes
      BY DEF TalkTypes, FileState, Codes
    <3> HIDE DEF seen
    <3> QED BY <1>0, <2>1, <3>1, <3>2, AnswerTypes
  <2> QED BY <2>2, <2>3
<1>11. CASE Move
  <2>1. /\ Answer("move", TRUE, "none", Absent, None) /\ here' \in Checkouts
        /\ todo # <<>> /\ UNCHANGED <<disk, clock, messages>> /\ "none" \in Codes
    BY <1>11 DEF Move, Codes
  <2> QED BY <1>0, <2>1, NoneIsObservation, AnswerTypes
<1>12. CASE OtherProgram
  BY <1>12, OthersWrite DEF TalkTypes
<1> QED BY <1>1, <1>2, <1>3, <1>4, <1>5, <1>6, <1>7, <1>8, <1>9, <1>10, <1>11, <1>12 DEF Next

(* The shapes at the start.                                                *)
LEMMA TalkInit ==
  ASSUME FilesAssumption, Init
  PROVE  TalkTypes /\ clock = Cardinality(Checkouts) /\ \A d \in Checkouts : disk[d].time <= clock
<1>1. Cardinality(Checkouts) \in Nat
  BY FS_CardinalityType DEF FilesAssumption
<1>2. clock \in Nat /\ clock = Cardinality(Checkouts)
  BY <1>1 DEF Init
<1>3. disk \in [Checkouts -> FileState] /\ \A d \in Checkouts : disk[d].time <= clock
  <2>1. PICK texts \in [Checkouts -> {"a", "b", Absent}] :
          \E order \in [Checkouts -> 1 .. Cardinality(Checkouts)] :
            disk = [d \in Checkouts |-> [text |-> texts[d], time |-> order[d]]]
    BY DEF Init
  <2>2. PICK order \in [Checkouts -> 1 .. Cardinality(Checkouts)] :
          disk = [d \in Checkouts |-> [text |-> texts[d], time |-> order[d]]]
    BY <2>1
  <2>3. \A d \in Checkouts : texts[d] \in FileTexts /\ order[d] \in Nat /\ order[d] <= clock
    BY <1>1, <1>2 DEF FileTexts, Texts
  <2> QED BY <2>2, <2>3 DEF FileState
<1>4. here \in Checkouts
  BY DEF Init, FilesAssumption
<1>5. /\ obs = None /\ batch = None /\ transcript = <<>> /\ todo = <<>> /\ messages = 0 /\ at = Idle
  BY DEF Init
<1>6. at \in [step : Steps, text : FileTexts, time : Nat] /\ at.step = "idle"
  BY <1>5 DEF Idle, Steps, FileTexts
<1>7. transcript \in Seq(Entry) /\ todo \in Seq(CallKinds)
  BY <1>5
<1> QED BY <1>2, <1>3, <1>4, <1>5, <1>6, <1>7, NoneIsObservation DEF TalkTypes

-----------------------------------------------------------------------------
(* The types: texts that are there, and times that were given out.         *)

(* The rules of the directory and the marks of what happened.              *)
RulesShaped ==
  /\ nested \in {"none", "last", "first"}
  /\ active \in {<<"root">>, <<"root", "nested">>, <<"nested", "root">>}
  /\ {blind, raced, reviewed, unread} \subseteq BOOLEAN

(* The paths are stored by name.                                           *)
LEMMA NamedShaped == Named \in {<<"root">>, <<"root", "nested">>, <<"nested", "root">>}
BY DEF Named, Activated

(* Every step keeps the rules.                                             *)
LEMMA RulesStep ==
  ASSUME RulesShaped, [Next]_vars
  PROVE  RulesShaped'
<1> USE DEF file, agent, rules
<1>1. CASE UNCHANGED vars \/ ReadUnchanged \/ ReadText \/ Guard \/ ObserveWritten
  <2>1. UNCHANGED <<nested, active, blind, raced, reviewed, unread>>
    BY <1>1 DEF vars, ReadUnchanged, ReadText, Guard, ObserveWritten
  <2> QED BY <2>1 DEF RulesShaped
<1>2. CASE CallTools
  <2>1. UNCHANGED <<nested, active, blind, raced, unread>> /\ reviewed' \in BOOLEAN
    BY <1>2 DEF CallTools, Reminder
  <2> QED BY <2>1 DEF RulesShaped
<1>3. CASE ReadStat \/ Refuse \/ Move
  <2>1. UNCHANGED <<nested, blind, raced, reviewed, unread>> /\ active' \in {active, Named, <<"root">>}
    BY <1>3 DEF ReadStat, Refuse, Move
  <2> QED BY <2>1, NamedShaped DEF RulesShaped
<1>4. CASE WriteFile \/ EditFile
  <2>1. UNCHANGED <<nested, active, raced, reviewed>>
    BY <1>4 DEF WriteFile, EditFile, Answer
  <2>2. blind' \in BOOLEAN /\ unread' \in BOOLEAN
    BY <1>4 DEF WriteFile, EditFile, Answer, RulesShaped
  <2> QED BY <2>1, <2>2 DEF RulesShaped
<1>5. CASE OtherProgram
  <2>1. UNCHANGED <<nested, active, blind, reviewed, unread>> /\ raced' \in BOOLEAN
    BY <1>5 DEF OtherProgram, RulesShaped
  <2> QED BY <2>1 DEF RulesShaped
<1> QED BY <1>1, <1>2, <1>3, <1>4, <1>5 DEF Next

ShapeInv ==
  /\ TalkTypes
  /\ \A d \in Checkouts : disk[d].time > 0 /\ disk[d].time <= clock
  /\ obs.time <= clock /\ batch.time <= clock
  /\ at.step = "stat" => at.text \in Texts
  /\ known \subseteq Texts
  /\ RulesShaped

(* An answer leaves an observation of a time that was given out.           *)
LEMMA AnswerShaped ==
  ASSUME ShapeInv, TalkTypes', UNCHANGED <<disk, clock>>, NEW kind, NEW ok, NEW code, NEW text,
         NEW observation, Answer(kind, ok, code, text, observation), observation.time <= clock,
         known' \subseteq Texts, RulesShaped'
  PROVE  ShapeInv'
<1>1. obs' = observation /\ batch' \in {batch, observation} /\ at'.step # "stat"
  BY DEF Answer, Idle
<1>2. obs'.time <= clock' /\ batch'.time <= clock'
  BY <1>1 DEF ShapeInv
<1> QED BY <1>1, <1>2 DEF ShapeInv

(* Every step keeps them.                                                  *)
LEMMA ShapeStep ==
  ASSUME FilesAssumption, ShapeInv, [Next]_vars
  PROVE  ShapeInv'
<1> USE DEF file, agent, rules
<1>0. TalkTypes' /\ TalkTypes /\ RulesShaped'
  BY TalkStep, RulesStep DEF FilesAssumption, ShapeInv
<1>1. CASE UNCHANGED vars
  BY <1>0, <1>1 DEF vars, ShapeInv
<1>2. CASE CallTools
  BY <1>0, <1>2 DEF CallTools, Reminder, ShapeInv
<1>3. CASE ReadUnchanged
  <2>1. \E text : Answer(Head(todo), TRUE, "unchanged", text, obs)
    BY <1>3 DEF ReadUnchanged
  <2> QED BY <1>0, <1>3, <2>1, AnswerShaped DEF ReadUnchanged, ShapeInv
<1>4. CASE ReadText
  <2>1. CASE disk[here].text = Absent
    <3>1. Answer(Head(todo), FALSE, "FILE_OPERATION_FAILED", Absent, obs)
      BY <1>4, <2>1 DEF ReadText
    <3> QED BY <1>0, <1>4, <2>1, <3>1, AnswerShaped DEF ReadText, ShapeInv
  <2>2. CASE disk[here].text # Absent
    <3>1. disk[here].text \in Texts
      BY <1>0, <2>2 DEF TalkTypes, FileState, FileTexts
    <3> QED BY <1>0, <1>4, <2>2, <3>1 DEF ReadText, ShapeInv
  <2> QED BY <2>1, <2>2
<1>5. CASE ReadStat
  <2>1. CASE disk[here].text = Absent
    <3>1. Answer(Head(todo), FALSE, "FILE_OPERATION_FAILED", Absent, obs)
      BY <1>5, <2>1 DEF ReadStat
    <3> QED BY <1>0, <1>5, <2>1, <3>1, AnswerShaped DEF ReadStat, ShapeInv
  <2>2. CASE disk[here].text # Absent
    <3> DEFINE seen ==
          [text |-> at.text, time |-> disk[here].time, complete |-> Head(todo) = "whole"]
    <3>1. /\ Answer(Head(todo), TRUE, "read", at.text, seen)
          /\ known' = IF Head(todo) = "whole" THEN known \union {at.text} ELSE known
          /\ UNCHANGED <<disk, clock>> /\ at.step = "stat"
      BY <1>5, <2>2 DEF ReadStat
    <3>2. seen.time <= clock
      BY <1>0 DEF ShapeInv, TalkTypes
    <3> HIDE DEF seen
    <3>3. known' \subseteq Texts
      BY <3>1 DEF ShapeInv
    <3> QED BY <1>0, <3>1, <3>2, <3>3, AnswerShaped DEF ShapeInv
  <2> QED BY <2>1, <2>2
<1>6. CASE Refuse
  <2>1. /\ \E code : Answer("write", FALSE, code, Absent, obs)
        /\ UNCHANGED <<disk, clock, known>>
    BY <1>6 DEF Refuse
  <2> QED BY <1>0, <2>1, AnswerShaped DEF ShapeInv
<1>7. CASE Guard
  <2>1. at'.step = "write"
    BY <1>7 DEF Guard, Idle
  <2> QED BY <1>0, <1>7, <2>1 DEF Guard, ShapeInv
<1>8. CASE WriteFile
  <2>1. /\ disk' = [disk EXCEPT ![here] = [text |-> Written, time |-> clock + 1]]
        /\ known' = known \union {Written} /\ at'.step = "observe" /\ clock' = clock + 1
        /\ UNCHANGED <<obs, batch>>
    BY <1>0, <1>8 DEF WriteFile, Replaced, TalkTypes, ShapeInv
  <2>2. \A d \in Checkouts : disk'[d].time > 0 /\ disk'[d].time <= clock'
    <3>1. \A d \in Checkouts : disk'[d] = IF d = here THEN [text |-> Written, time |-> clock + 1]
                                          ELSE disk[d]
      BY <1>0, <2>1 DEF TalkTypes
    <3>2. \A d \in Checkouts : disk[d].time \in Nat /\ clock \in Nat
      BY <1>0 DEF TalkTypes, FileState
    <3> QED BY <2>1, <3>1, <3>2 DEF ShapeInv
  <2>3. obs'.time <= clock' /\ batch'.time <= clock'
    BY <1>0, <2>1 DEF ShapeInv, TalkTypes
  <2>4. Written \in Texts
    BY DEF Written, Texts
  <2> QED BY <1>0, <2>1, <2>2, <2>3, <2>4 DEF ShapeInv
<1>9. CASE EditFile
  <2>1. CASE disk[here].text # Absent /\ clock' = clock + 1
    <3> DEFINE new == [text |-> Edited(disk[here].text), time |-> clock + 1]
    <3>1. /\ disk' = [disk EXCEPT ![here] = new]
          /\ known' = known \union (IF disk[here].text \in known THEN {Edited(disk[here].text)} ELSE {})
          /\ at'.step = "observe" /\ UNCHANGED <<obs, batch>>
      BY <1>0, <1>9, <2>1 DEF EditFile, Replaced, Answer, TalkTypes, ShapeInv
    <3>2. \A d \in Checkouts : disk'[d].time > 0 /\ disk'[d].time <= clock'
      <4>1. \A d \in Checkouts : disk'[d] = IF d = here THEN new ELSE disk[d]
        BY <1>0, <3>1 DEF TalkTypes
      <4>2. \A d \in Checkouts : disk[d].time \in Nat /\ clock \in Nat
        BY <1>0 DEF TalkTypes, FileState
      <4>3. new.time = clock + 1
        OBVIOUS
      <4> HIDE DEF new
      <4> QED BY <2>1, <4>1, <4>2, <4>3 DEF ShapeInv
    <3>3. obs'.time <= clock' /\ batch'.time <= clock'
      BY <1>0, <2>1, <3>1 DEF ShapeInv, TalkTypes
    <3>4. known' \subseteq Texts
      BY <3>1, EditedIsText DEF ShapeInv
    <3> QED BY <1>0, <2>1, <3>1, <3>2, <3>3, <3>4 DEF ShapeInv
  <2>2. CASE ~(disk[here].text # Absent /\ clock' = clock + 1)
    <3>1. /\ Answer("write", FALSE, "FILE_OPERATION_FAILED", Absent, obs)
          /\ UNCHANGED <<disk, clock, known>>
      BY <1>9, <2>2 DEF EditFile
    <3> QED BY <1>0, <3>1, AnswerShaped DEF ShapeInv
  <2> QED BY <2>1, <2>2
<1>10. CASE ObserveWritten
  <2>1. UNCHANGED <<disk, clock, known>>
    BY <1>10 DEF ObserveWritten
  <2>2. CASE disk[here].text = Absent
    <3>1. Answer("write", FALSE, "FILE_OPERATION_FAILED", Absent, obs)
      BY <1>10, <2>2 DEF ObserveWritten
    <3> QED BY <1>0, <2>1, <3>1, AnswerShaped DEF ShapeInv
  <2>3. CASE disk[here].text # Absent
    <3> DEFINE seen == [text |-> disk[here].text, time |-> disk[here].time, complete |-> TRUE]
    <3>1. Answer("write", TRUE, "none", Absent, seen)
      BY <1>10, <2>3 DEF ObserveWritten
    <3>2. seen.time <= clock
      BY <1>0 DEF ShapeInv, TalkTypes
    <3> HIDE DEF seen
    <3> QED BY <1>0, <2>1, <3>1, <3>2, AnswerShaped DEF ShapeInv
  <2> QED BY <2>2, <2>3
<1>11. CASE Move
  <2>1. None.time <= clock
    BY <1>0 DEF None, TalkTypes
  <2>2. /\ Answer("move", TRUE, "none", Absent, None) 
        /\ UNCHANGED <<disk, clock, known>>
    BY <1>11 DEF Move
  <2>3. obs' = None /\ batch' \in {batch, None} /\ at'.step # "stat"
    BY <2>2 DEF Answer, Idle
  <2>5. obs'.time <= clock' /\ batch'.time <= clock'
    BY <2>1, <2>2, <2>3 DEF ShapeInv
  <2> QED BY <1>0, <2>2, <2>3, <2>5 DEF ShapeInv
<1>12. CASE OtherProgram
  <2>1. /\ clock' = clock + 1 /\ clock \in Nat
        /\ \A d \in Checkouts : disk'[d] = disk[d] \/ disk'[d].time = clock + 1
        /\ UNCHANGED <<obs, batch, known, at>>
    BY <1>0, <1>12, OthersWrite DEF OtherProgram, TalkTypes
  <2>2. \A d \in Checkouts : disk[d].time \in Nat
    BY <1>0 DEF TalkTypes, FileState
  <2>3. \A d \in Checkouts : disk'[d].time > 0 /\ disk'[d].time <= clock'
    BY <2>1, <2>2 DEF ShapeInv
  <2>4. obs'.time <= clock' /\ batch'.time <= clock'
    BY <1>0, <2>1 DEF ShapeInv, TalkTypes
  <2> QED BY <1>0, <2>1, <2>3, <2>4 DEF ShapeInv
<1> QED BY <1>1, <1>2, <1>3, <1>4, <1>5, <1>6, <1>7, <1>8, <1>9, <1>10, <1>11, <1>12 DEF Next

(* What is observed of a file, and what is known, keeps its shape; no time *)
(* is of the future (FileObservation of runtime/state.py).                 *)
THEOREM FilesAreTyped ==
  ASSUME FilesAssumption
  PROVE  Spec => []TypeOK
<1>1. Init => ShapeInv
  <2> SUFFICES ASSUME Init PROVE ShapeInv
    OBVIOUS
  <2>1. TalkTypes /\ \A d \in Checkouts : disk[d].time <= clock
    BY TalkInit
  <2>2. \A d \in Checkouts : disk[d].time > 0
    <3>1. PICK texts \in [Checkouts -> {"a", "b", Absent}],
               order \in [Checkouts -> 1 .. Cardinality(Checkouts)] :
            disk = [d \in Checkouts |-> [text |-> texts[d], time |-> order[d]]]
      BY DEF Init
    <3>2. \A d \in Checkouts : order[d] \in 1 .. Cardinality(Checkouts)
      BY <3>1
    <3>3. Cardinality(Checkouts) \in Nat
      BY FS_CardinalityType DEF FilesAssumption
    <3> QED BY <3>1, <3>2, <3>3
  <2>3. obs.time <= clock /\ batch.time <= clock
    BY <2>1 DEF Init, None, TalkTypes
  <2>4. at.step = "idle" /\ known = {}
    BY DEF Init, Idle
  <2>5. RulesShaped
    BY DEF Init, RulesShaped
  <2> QED BY <2>1, <2>2, <2>3, <2>4, <2>5 DEF ShapeInv
<1>2. ShapeInv => TypeOK
  <2> SUFFICES ASSUME ShapeInv PROVE TypeOK
    OBVIOUS
  <2>1. clock \in Nat /\ TalkTypes
    BY DEF ShapeInv, TalkTypes
  <2>2. \A d \in Checkouts : disk[d].text \in FileTexts /\ disk[d].time \in 1 .. clock
    BY <2>1 DEF ShapeInv, TalkTypes, FileState
  <2>3. \A d \in Checkouts : disk[d] \in [text : FileTexts, time : 1 .. clock]
    <3> SUFFICES ASSUME NEW d \in Checkouts PROVE disk[d] \in [text : FileTexts, time : 1 .. clock]
      OBVIOUS
    <3>1. disk[d] \in FileState
      BY <2>1 DEF TalkTypes
    <3> QED BY <2>2, <3>1 DEF FileState
  <2>4. disk \in [Checkouts -> [text : FileTexts, time : 1 .. clock]]
    BY <2>1, <2>3 DEF TalkTypes
  <2>5. /\ obs \in [text : FileTexts, time : 0 .. clock, complete : BOOLEAN]
        /\ batch \in [text : FileTexts, time : 0 .. clock, complete : BOOLEAN]
    <3>1. obs.time \in 0 .. clock /\ batch.time \in 0 .. clock
      BY <2>1 DEF ShapeInv, TalkTypes
    <3> QED BY <2>1, <3>1 DEF TalkTypes
  <2>6. at.step \in {"idle", "stat", "write", "observe"} /\ here \in Checkouts
    BY <2>1 DEF TalkTypes, Steps
  <2>7. known \subseteq Texts /\ RulesShaped
    BY DEF ShapeInv
  <2> QED BY <2>4, <2>5, <2>6, <2>7 DEF TypeOK, FileTexts, RulesShaped
<1> QED BY <1>1, <1>2, ShapeStep, PTL DEF Spec

-----------------------------------------------------------------------------
(* What is known of the text that is replaced.                             *)

(* While no write was raced, a complete observation is of a known text.    *)
(* From the guard to the observation of the new text the file is what the  *)
(* observation said or what the Agent wrote.                               *)
KnownInv ==
  /\ clock \in Nat
  /\ disk \in [Checkouts -> [text : Texts \cup {Absent}, time : Nat]]
  /\ here \in Checkouts
  /\ obs.complete => obs.text \in known
  /\ at.step = "write" => disk[here].text \in known \cup {Absent}
  /\ at.step = "observe" => disk[here].text \in known
  /\ ~blind

(* A write is let through if nothing is there or the text is the one that  *)
(* was observed.                                                           *)
LEMMA GuardKnows ==
  ASSUME KnownInv, GuardError(obs) = "none"
  PROVE  disk[here].text \in known \cup {Absent}
<1>1. CASE disk[here].text = Absent
  BY <1>1
<1>2. CASE disk[here].text # Absent
  <2>1. obs.complete
    BY <1>2 DEF GuardError
  <2>2. obs.text = disk[here].text
    BY <1>2, <2>1 DEF GuardError, Matches
  <2> QED BY <2>1, <2>2 DEF KnownInv
<1> QED BY <1>1, <1>2

(* What an answer leaves to be shown.                                      *)
LEMMA AnswerKnows ==
  ASSUME KnownInv, NEW kind, NEW ok, NEW code, NEW text, NEW observation,
         Answer(kind, ok, code, text, observation),
         disk' = disk, clock' = clock, here' \in Checkouts, blind' = blind, known \subseteq known',
         observation.complete => observation.text \in known'
  PROVE  KnownInv'
<1>1. obs' = observation /\ at'.step = "idle"
  BY DEF Answer, Idle
<1>2. obs'.complete => obs'.text \in known'
  BY <1>1
<1> QED BY <1>1, <1>2 DEF KnownInv

(* No observation is complete by itself.                                   *)
LEMMA NoneIsPartial == ~None.complete
BY DEF None

(* A race is not forgotten.                                                *)
LEMMA RacesGrow ==
  ASSUME [Next]_vars, raced
  PROVE  raced'
BY DEF vars, file, agent, rules, Next, CallTools, ReadUnchanged, ReadText, ReadStat, Refuse, Guard,
       WriteFile, EditFile, ObserveWritten, Move, OtherProgram

(* Every step that is no race keeps the invariant.                         *)
LEMMA KnownStep ==
  ASSUME ~raced', KnownInv, [Next]_vars
  PROVE  KnownInv'
<1> USE DEF file, agent, rules
<1>1. CASE UNCHANGED vars
  BY <1>1 DEF vars, KnownInv
<1>2. CASE CallTools
  BY <1>2 DEF CallTools, KnownInv
<1>3. CASE ReadUnchanged
  <2>1. \E text : Answer(Head(todo), TRUE, "unchanged", text, obs)
    BY <1>3 DEF ReadUnchanged
  <2>2. UNCHANGED <<disk, clock, here, known, blind>>
    BY <1>3 DEF ReadUnchanged
  <2> QED BY <2>1, <2>2, AnswerKnows DEF KnownInv
<1>4. CASE ReadText
  <2>1. CASE disk[here].text = Absent
    <3>1. /\ Answer(Head(todo), FALSE, "FILE_OPERATION_FAILED", Absent, obs)
          /\ UNCHANGED <<disk, clock, here, known, blind>>
      BY <1>4, <2>1 DEF ReadText
    <3> QED BY <3>1, AnswerKnows DEF KnownInv
  <2>2. CASE disk[here].text # Absent
    <3>1. at'.step = "stat" /\ UNCHANGED <<disk, clock, here, obs, known, blind>>
      BY <1>4, <2>2 DEF ReadText
    <3> QED BY <3>1 DEF KnownInv
  <2> QED BY <2>1, <2>2
<1>5. CASE ReadStat
  <2>1. CASE disk[here].text = Absent
    <3>1. /\ Answer(Head(todo), FALSE, "FILE_OPERATION_FAILED", Absent, obs)
          /\ UNCHANGED <<disk, clock, here, known, blind>>
      BY <1>5, <2>1 DEF ReadStat
    <3> QED BY <3>1, AnswerKnows DEF KnownInv
  <2>2. CASE disk[here].text # Absent
    <3> DEFINE seen ==
          [text |-> at.text, time |-> disk[here].time, complete |-> Head(todo) = "whole"]
    <3>1. /\ Answer(Head(todo), TRUE, "read", at.text, seen)
          /\ known' = IF Head(todo) = "whole" THEN known \cup {at.text} ELSE known
          /\ UNCHANGED <<disk, clock, here, blind>>
      BY <1>5, <2>2 DEF ReadStat
    <3>2. seen.complete = (Head(todo) = "whole") /\ seen.text = at.text
      OBVIOUS
    <3> HIDE DEF seen
    <3>3. known \subseteq known' /\ (seen.complete => seen.text \in known')
      BY <3>1, <3>2
    <3> QED BY <3>1, <3>3, AnswerKnows DEF KnownInv
  <2> QED BY <2>1, <2>2
<1>6. CASE Refuse
  <2>1. /\ \E code : Answer("write", FALSE, code, Absent, obs)
        /\ UNCHANGED <<disk, clock, here, known, blind>>
    BY <1>6 DEF Refuse
  <2> QED BY <2>1, AnswerKnows DEF KnownInv
<1>7. CASE Guard
  <2>1. at'.step = "write" /\ UNCHANGED <<disk, clock, here, obs, known, blind>>
    BY <1>7 DEF Guard, Idle
  <2>2. disk[here].text \in known \cup {Absent}
    BY <1>7, GuardKnows DEF Guard
  <2> QED BY <2>1, <2>2 DEF KnownInv
<1>8. CASE WriteFile
  <2>1. /\ at.step = "write" /\ disk' = [disk EXCEPT ![here] = Replaced(Written)]
        /\ known' = known \cup {Written} /\ UNCHANGED <<here, obs>> /\ clock' \in Nat
        /\ blind' = (blind \/ disk[here].text \notin known \cup {Absent})
    BY <1>8 DEF WriteFile, KnownInv
  <2>2. at'.step = "observe"
    BY <1>8 DEF WriteFile
  <2>3. Replaced(Written) \in [text : Texts \cup {Absent}, time : Nat]
    BY DEF Replaced, Written, Texts, KnownInv
  <2>4. disk'[here].text = Written /\ disk' \in [Checkouts -> [text : Texts \cup {Absent}, time : Nat]]
    BY <2>1, <2>3 DEF KnownInv, Replaced
  <2>5. ~blind'
    BY <2>1 DEF KnownInv
  <2> QED BY <2>1, <2>2, <2>4, <2>5 DEF KnownInv
<1>9. CASE EditFile
  <2>1. CASE Answer("write", FALSE, "FILE_OPERATION_FAILED", Absent, obs)
             /\ UNCHANGED <<disk, clock, here, known, blind>>
    BY <2>1, AnswerKnows DEF KnownInv
  <2>2. CASE /\ disk[here].text # Absent
             /\ disk' = [disk EXCEPT ![here] = Replaced(Edited(@.text))]
             /\ known' = known \cup (IF disk[here].text \in known THEN {Edited(disk[here].text)} ELSE {})
             /\ at' = [at EXCEPT !.step = "observe"]
             /\ clock' = clock + 1 /\ UNCHANGED <<here, obs, blind>>
    <3>1. disk[here].text \in known
      BY <1>9, <2>2 DEF EditFile, KnownInv
    <3>2. Replaced(Edited(disk[here].text)) \in [text : Texts \cup {Absent}, time : Nat]
      BY EditedIsText DEF Replaced, KnownInv
    <3>3. /\ disk' \in [Checkouts -> [text : Texts \cup {Absent}, time : Nat]]
          /\ disk'[here].text = Edited(disk[here].text)
      BY <2>2, <3>2 DEF KnownInv, Replaced
    <3> QED BY <2>2, <3>1, <3>3 DEF KnownInv
  <2> QED BY <1>9, <2>1, <2>2 DEF EditFile
<1>10. CASE ObserveWritten
  <2>1. UNCHANGED <<disk, clock, here, known, blind>> /\ at.step = "observe"
    BY <1>10 DEF ObserveWritten
  <2>2. CASE disk[here].text = Absent
    <3>1. Answer("write", FALSE, "FILE_OPERATION_FAILED", Absent, obs)
      BY <1>10, <2>2 DEF ObserveWritten
    <3> QED BY <2>1, <3>1, AnswerKnows DEF KnownInv
  <2>3. CASE disk[here].text # Absent
    <3> DEFINE seen == [text |-> disk[here].text, time |-> disk[here].time, complete |-> TRUE]
    <3>1. Answer("write", TRUE, "none", Absent, seen)
      BY <1>10, <2>3 DEF ObserveWritten
    <3>2. seen.text \in known
      BY <2>1 DEF KnownInv
    <3> HIDE DEF seen
    <3> QED BY <2>1, <3>1, <3>2, AnswerKnows DEF KnownInv
  <2> QED BY <2>2, <2>3
<1>11. CASE Move
  <2>1. /\ Answer("move", TRUE, "none", Absent, None) /\ here' \in Checkouts
        /\ UNCHANGED <<disk, clock, known, blind>>
    BY <1>11 DEF Move
  <2> QED BY <2>1, NoneIsPartial, AnswerKnows
<1>12. CASE OtherProgram
  <2>1. UNCHANGED <<here, obs, known, blind, at>> /\ clock' = clock + 1 /\ at.step # "write" /\ at.step # "observe"
    BY <1>12 DEF OtherProgram, Point
  <2>2. disk' \in [Checkouts -> [text : Texts \cup {Absent}, time : Nat]]
    <3>1. PICK text \in Texts \cup {Absent} :
            disk' = [disk EXCEPT ![here] = [text |-> text, time |-> clock + 1]]
      BY <1>12 DEF OtherProgram
    <3>2. [text |-> text, time |-> clock + 1] \in [text : Texts \cup {Absent}, time : Nat]
      BY DEF KnownInv
    <3> QED BY <3>1, <3>2 DEF KnownInv
  <2> QED BY <2>1, <2>2 DEF KnownInv
<1> QED BY <1>1, <1>2, <1>3, <1>4, <1>5, <1>6, <1>7, <1>8, <1>9, <1>10, <1>11, <1>12 DEF Next

(* A write replaces a text that no read returned whole and the Agent did   *)
(* not write itself (_existing_file_guard, _observe_written_file) only     *)
(* after another program has written between the guard of a write and the  *)
(* observation after it: for any calls in a message, whole or by pages, in *)
(* any checkouts, and whatever other programs do.                          *)
THEOREM WritesReplaceTheKnown ==
  ASSUME FilesAssumption
  PROVE  Spec => []OnlyRacesAreBlind
<1>1. Init => KnownInv
  <2> SUFFICES ASSUME Init PROVE KnownInv
    OBVIOUS
  <2>1. Cardinality(Checkouts) \in Nat
    BY FS_CardinalityType DEF FilesAssumption
  <2>2. clock \in Nat
    BY <2>1 DEF Init
  <2>3. disk \in [Checkouts -> [text : Texts \cup {Absent}, time : Nat]]
    <3>1. PICK texts \in [Checkouts -> {"a", "b", Absent}] :
            \E order \in [Checkouts -> 1 .. Cardinality(Checkouts)] :
              disk = [d \in Checkouts |-> [text |-> texts[d], time |-> order[d]]]
      BY DEF Init
    <3>2. PICK order \in [Checkouts -> 1 .. Cardinality(Checkouts)] :
            disk = [d \in Checkouts |-> [text |-> texts[d], time |-> order[d]]]
      BY <3>1
    <3>3. \A d \in Checkouts : texts[d] \in Texts \cup {Absent} /\ order[d] \in Nat
      BY <2>1 DEF Texts
    <3> QED BY <3>2, <3>3
  <2>4. here \in Checkouts
    BY DEF Init, FilesAssumption
  <2>5. ~obs.complete /\ at.step = "idle" /\ ~blind
    BY DEF Init, None, Idle
  <2> QED BY <2>2, <2>3, <2>4, <2>5 DEF KnownInv
<1>2. KnownInv \/ raced => OnlyRacesAreBlind
  BY DEF KnownInv, OnlyRacesAreBlind
<1>3. (KnownInv \/ raced) /\ [Next]_vars => (KnownInv \/ raced)'
  BY KnownStep, RacesGrow
<1> QED BY <1>1, <1>2, <1>3, PTL DEF Spec

-----------------------------------------------------------------------------
(* What the instructions of a directory precede.                           *)

(* Until a call of the message is answered, the instructions that are      *)
(* active are those the request carried; a write that passed its guard is  *)
(* under active ones.                                                      *)
InstructedInv ==
  /\ TalkTypes
  /\ FirstCall => (reviewed <=> Reminder)
  /\ at.step \in {"write", "observe"} => (nested # "none" => Reminder)
  /\ ~unread

(* A transcript with one more entry.                                       *)
LEMMA EntryAppended ==
  ASSUME NEW s \in Seq(Entry), NEW e
  PROVE  /\ Len(Append(s, e)) = Len(s) + 1 /\ Append(s, e)[Len(s) + 1] = e
         /\ \A i \in 1 .. Len(s) : Append(s, e)[i] = s[i]
         /\ DOMAIN Append(s, e) = 1 .. Len(s) + 1 /\ DOMAIN s = 1 .. Len(s)
<1>1. s \in Seq(Entry \cup {e}) /\ e \in Entry \cup {e}
  OBVIOUS
<1>2. Append(s, e) \in Seq(Entry \cup {e}) /\ Len(Append(s, e)) = Len(s) + 1
  BY <1>1, AppendProperties
<1> QED BY <1>1, <1>2, AppendProperties

(* What an answer adds to the transcript; no later call is the first of    *)
(* the message.                                                            *)
LEMMA AnswerAppends ==
  ASSUME TalkTypes, messages' = messages,
         NEW kind, NEW ok, NEW code, NEW text, NEW observation,
         Answer(kind, ok, code, text, observation),
         NEW n, n = Len(transcript),
         NEW e, e = [kind |-> kind, ok |-> ok, code |-> code, text |-> text, now |-> disk[here],
                     message |-> messages]
  PROVE  /\ transcript \in Seq(Entry) /\ n \in Nat
         /\ Len(transcript') = n + 1 /\ transcript'[n + 1] = e /\ e.message = messages
         /\ \A i \in 1 .. n : transcript'[i] = transcript[i]
         /\ DOMAIN transcript' = 1 .. n + 1 /\ DOMAIN transcript = 1 .. n
         /\ obs' = observation /\ at'.step = "idle" /\ ~FirstCall'
<1>1. transcript \in Seq(Entry) /\ n \in Nat /\ transcript' = Append(transcript, e)
  BY DEF TalkTypes, Answer
<1>2. e.message = messages
  OBVIOUS
<1>3. /\ Len(transcript') = n + 1 /\ transcript'[n + 1] = e
      /\ \A i \in 1 .. n : transcript'[i] = transcript[i]
      /\ DOMAIN transcript' = 1 .. n + 1 /\ DOMAIN transcript = 1 .. n
  BY <1>1, EntryAppended
<1>4. n + 1 \in DOMAIN transcript' /\ transcript'[n + 1].message = messages'
  BY <1>1, <1>2, <1>3
<1>5. obs' = observation /\ at'.step = "idle"
  BY DEF Answer, Idle
<1> QED BY <1>1, <1>2, <1>3, <1>4, <1>5 DEF FirstCall

(* After an answer the next call is no first call.                         *)
LEMMA AnswerIsLast ==
  ASSUME InstructedInv, TalkTypes', messages' = messages, unread' = unread,
         NEW kind, NEW ok, NEW code, NEW text, NEW observation,
         Answer(kind, ok, code, text, observation)
  PROVE  InstructedInv'
<1>0. TalkTypes
  BY DEF InstructedInv
<1>1. ~FirstCall' /\ at'.step = "idle"
  BY <1>0, AnswerAppends
<1> QED BY <1>1 DEF InstructedInv

(* Every step keeps the invariant.                                         *)
LEMMA InstructedStep ==
  ASSUME FilesAssumption, InstructedInv, [Next]_vars
  PROVE  InstructedInv'
<1> USE DEF file, agent, rules
<1>0. TalkTypes'
  BY TalkStep DEF FilesAssumption, InstructedInv
<1>1. CASE UNCHANGED vars \/ OtherProgram \/ (ReadText /\ disk[here].text # Absent)
  <2>1. UNCHANGED <<transcript, messages, reviewed, active, nested, unread>>
    BY <1>1 DEF vars, OtherProgram, ReadText
  <2>2. at' = at \/ at'.step = "stat"
    <3>1. CASE UNCHANGED vars \/ OtherProgram
      BY <3>1 DEF vars, OtherProgram
    <3>2. CASE ReadText /\ disk[here].text # Absent
      <4>1. at' = [step |-> "stat", text |-> disk[here].text, time |-> 0]
        BY <3>2 DEF ReadText
      <4> QED BY <4>1
    <3> QED BY <1>1, <3>1, <3>2
  <2> QED BY <1>0, <2>1, <2>2 DEF InstructedInv, FirstCall, Reminder
<1>2. CASE CallTools
  <2>1. todo = <<>> /\ at' = at /\ (reviewed' <=> Reminder') /\ unread' = unread
        /\ UNCHANGED <<nested, active>>
    BY <1>2 DEF CallTools, Reminder
  <2> QED BY <1>0, <2>1 DEF InstructedInv, Reminder
<1>3. CASE ReadUnchanged \/ (ReadText /\ disk[here].text = Absent) \/ ReadStat \/ Refuse
             \/ ObserveWritten \/ Move
  <2>1. messages' = messages /\ unread' = unread
    BY <1>3 DEF ReadUnchanged, ReadText, ReadStat, Refuse, ObserveWritten, Move
  <2>2. \E kind, ok, code, text, seen : Answer(kind, ok, code, text, seen)
    BY <1>3 DEF ReadUnchanged, ReadText, ReadStat, Refuse, ObserveWritten, Move
  <2> QED BY <1>0, <2>1, <2>2, AnswerIsLast
<1>4. CASE Guard
  <2>1. UNCHANGED <<transcript, messages, reviewed, active, nested, unread>>
    BY <1>4 DEF Guard
  <2>2. nested # "none" => Reminder
    <3>1. Activated = active
      BY <1>4 DEF Guard, Discovered
    <3>2. <<"root", "nested">> # <<"root">>
      <4>1. Len(<<"root", "nested">>) = 2 /\ Len(<<"root">>) = 1
        OBVIOUS
      <4> QED BY <4>1
    <3> QED BY <3>1, <3>2 DEF Activated, Reminder
  <2> QED BY <1>0, <2>1, <2>2 DEF InstructedInv, FirstCall, Reminder
<1>5. ASSUME at.step = "write", at' = [at EXCEPT !.step = "observe"],
             UNCHANGED <<transcript, messages, reviewed, active, nested>>,
             unread' = (unread \/ (nested # "none" /\ ~reviewed /\ FirstCall))
      PROVE  InstructedInv'
  <2>1. ~unread'
    BY <1>5 DEF InstructedInv
  <2> QED BY <1>0, <1>5, <2>1 DEF InstructedInv, FirstCall, Reminder
<1>6. CASE WriteFile
  BY <1>5, <1>6 DEF WriteFile
<1>7. CASE EditFile
  <2>1. at.step = "write" /\ UNCHANGED <<messages, reviewed, active, nested>>
    BY <1>7 DEF EditFile
  <2>2. CASE /\ at' = [at EXCEPT !.step = "observe"] /\ transcript' = transcript
             /\ unread' = (unread \/ (nested # "none" /\ ~reviewed /\ FirstCall))
    BY <1>5, <2>1, <2>2
  <2>3. CASE /\ Answer("write", FALSE, "FILE_OPERATION_FAILED", Absent, obs)
             /\ unread' = unread
    BY <1>0, <2>1, <2>3, AnswerIsLast
  <2> QED BY <1>7, <2>2, <2>3 DEF EditFile
<1> QED BY <1>1, <1>2, <1>3, <1>4, <1>6, <1>7 DEF Next

(* The first call of a message writes a file only if its request carried   *)
(* the instructions of the file's directory (activate_for_path,            *)
(* _runtime_reminder), whatever other programs do, wherever the worktree   *)
(* tools move the Agent and however many calls the messages make.          *)
THEOREM WritesFollowInstructions ==
  ASSUME FilesAssumption
  PROVE  Spec => []WritesAreInstructed
<1>1. Init => InstructedInv
  <2> SUFFICES ASSUME Init PROVE InstructedInv
    OBVIOUS
  <2>1. TalkTypes
    BY TalkInit
  <2>2. ~reviewed /\ ~Reminder /\ at.step = "idle" /\ ~unread
    BY DEF Init, Reminder, Idle
  <2> QED BY <2>1, <2>2 DEF InstructedInv
<1>2. InstructedInv => WritesAreInstructed
  BY DEF InstructedInv, WritesAreInstructed
<1> QED BY <1>1, <1>2, InstructedStep, PTL DEF Spec

(* Where names sort as depths, what a refusal or a read has activated      *)
(* stays active until the Agent moves.                                     *)
ReviewInv ==
  /\ TalkTypes
  /\ nested # "first" =>
       \A j \in 1 .. Len(transcript) :
         (/\ transcript[j].code = "REPOSITORY_INSTRUCTIONS_DISCOVERED"
          /\ \A k \in j .. Len(transcript) : transcript[k].kind # "move")
         => ~Discovered
  /\ ReviewIsEnoughInOrder

(* What an answer leaves to be shown.                                      *)
LEMMA AnswerReviewed ==
  ASSUME ReviewInv, TalkTypes', UNCHANGED <<messages, nested>>,
         NEW kind, NEW ok, NEW code, NEW text, NEW observation,
         Answer(kind, ok, code, text, observation),
         active' = active \/ active' = Named \/ kind = "move",
         code = "REPOSITORY_INSTRUCTIONS_DISCOVERED" => Discovered /\ active' = Named
  PROVE  ReviewInv'
<1> DEFINE n == Len(transcript)
           e == [kind |-> kind, ok |-> ok, code |-> code, text |-> text, now |-> disk[here],
                 message |-> messages]
<1>1. e.kind = kind /\ e.code = code
  OBVIOUS
<1>0. TalkTypes
  BY DEF ReviewInv
<1>2. /\ n \in Nat /\ Len(transcript') = n + 1 /\ transcript'[n + 1] = e
      /\ \A i \in 1 .. n : transcript'[i] = transcript[i]
      /\ DOMAIN transcript' = 1 .. n + 1 /\ DOMAIN transcript = 1 .. n
  BY <1>0, AnswerAppends
<1> HIDE DEF e, n
<1>3. SUFFICES ASSUME nested # "first"
               PROVE  /\ ReviewIsEnough'
                      /\ \A j \in 1 .. n + 1 :
                           (/\ transcript'[j].code = "REPOSITORY_INSTRUCTIONS_DISCOVERED"
                            /\ \A k \in j .. n + 1 : transcript'[k].kind # "move")
                           => ~Discovered'
  BY <1>2 DEF ReviewInv, ReviewIsEnoughInOrder
<1>4. active' = Named => ~Discovered'
  BY <1>3 DEF Named, Discovered, Activated
<1>5. ASSUME NEW j \in 1 .. n, transcript'[j].code = "REPOSITORY_INSTRUCTIONS_DISCOVERED",
             \A k \in j .. n + 1 : transcript'[k].kind # "move"
      PROVE  ~Discovered /\ kind # "move"
  <2>1. j \in 1 .. Len(transcript) /\ transcript[j] = transcript'[j]
    BY <1>2, <1>5 DEF n
  <2>2. \A k \in j .. Len(transcript) : transcript[k].kind # "move"
    <3>1. \A k \in j .. n : k \in 1 .. n /\ k \in j .. n + 1
      BY <1>2
    <3> QED BY <1>2, <1>5, <3>1 DEF n
  <2>3. n + 1 \in j .. n + 1
    BY <1>2
  <2> QED BY <1>1, <1>2, <1>3, <1>5, <2>1, <2>2, <2>3 DEF ReviewInv
<1>6. ASSUME NEW j \in 1 .. n + 1,
             transcript'[j].code = "REPOSITORY_INSTRUCTIONS_DISCOVERED",
             \A k \in j .. n + 1 : transcript'[k].kind # "move"
      PROVE  ~Discovered'
  <2>1. CASE j = n + 1
    BY <1>1, <1>2, <1>4, <1>6, <2>1
  <2>2. CASE j # n + 1
    <3>1. j \in 1 .. n
      BY <1>2, <2>2
    <3>2. ~Discovered /\ kind # "move"
      BY <1>5, <1>6, <3>1
    <3> QED BY <1>4, <3>2 DEF Discovered, Activated
  <2> QED BY <2>1, <2>2
<1>7. ReviewIsEnough'
  <2> SUFFICES ASSUME NEW i \in 1 .. n + 1, NEW j \in 1 .. i - 1,
                      transcript'[j].code = "REPOSITORY_INSTRUCTIONS_DISCOVERED",
                      transcript'[i].code = "REPOSITORY_INSTRUCTIONS_DISCOVERED",
                      \A k \in j .. i : transcript'[k].kind # "move"
               PROVE  FALSE
    BY <1>2 DEF ReviewIsEnough
  <2>1. j \in 1 .. n
    BY <1>2
  <2>2. CASE i = n + 1
    <3>1. code = "REPOSITORY_INSTRUCTIONS_DISCOVERED"
      BY <1>1, <1>2, <2>2
    <3> QED BY <1>5, <2>1, <2>2, <3>1
  <2>3. CASE i # n + 1
    <3>1. i \in DOMAIN transcript /\ \A k \in j .. i : k \in 1 .. n
      BY <1>2, <2>3
    <3>2. i \in j .. i
      BY <1>2
    <3>3. /\ transcript[i].code = "REPOSITORY_INSTRUCTIONS_DISCOVERED"
          /\ transcript[j].code = "REPOSITORY_INSTRUCTIONS_DISCOVERED"
          /\ \A k \in j .. i : transcript[k].kind # "move"
      BY <1>2, <2>1, <3>1, <3>2
    <3> QED BY <1>3, <3>1, <3>3 DEF ReviewInv, ReviewIsEnoughInOrder, ReviewIsEnough
  <2> QED BY <2>2, <2>3
<1> QED BY <1>6, <1>7

(* Every step keeps the invariant.                                         *)
LEMMA ReviewStep ==
  ASSUME FilesAssumption, ReviewInv, [Next]_vars
  PROVE  ReviewInv'
<1> USE DEF file, agent, rules
<1>0. TalkTypes'
  BY TalkStep DEF FilesAssumption, ReviewInv
<1>1. ASSUME UNCHANGED <<transcript, nested, active>> PROVE ReviewInv'
  <2>1. ReviewIsEnoughInOrder'
    BY <1>1 DEF ReviewInv, ReviewIsEnoughInOrder, ReviewIsEnough
  <2> QED BY <1>0, <1>1, <2>1 DEF ReviewInv, Discovered, Activated
<1>2. CASE UNCHANGED vars \/ CallTools \/ Guard \/ WriteFile \/ OtherProgram
             \/ (ReadText /\ disk[here].text # Absent)
  BY <1>1, <1>2 DEF vars, CallTools, Guard, WriteFile, OtherProgram, ReadText
<1>3. CASE ReadUnchanged
  <2>1. /\ \E text : Answer(Head(todo), TRUE, "unchanged", text, obs)
        /\ UNCHANGED <<messages, nested, active>>
    BY <1>3 DEF ReadUnchanged
  <2> QED BY <1>0, <2>1, AnswerReviewed
<1>4. CASE ReadText /\ disk[here].text = Absent
  <2>1. /\ Answer(Head(todo), FALSE, "FILE_OPERATION_FAILED", Absent, obs)
        /\ UNCHANGED <<messages, nested, active>>
    BY <1>4 DEF ReadText
  <2> QED BY <1>0, <2>1, AnswerReviewed
<1>5. CASE ReadStat
  <2>1. UNCHANGED <<messages, nested>> /\ (active' = active \/ active' = Named)
    BY <1>5 DEF ReadStat
  <2>2. \E ok, text, seen : \/ Answer(Head(todo), ok, "FILE_OPERATION_FAILED", text, seen)
                            \/ Answer(Head(todo), ok, "read", text, seen)
    BY <1>5 DEF ReadStat
  <2> QED BY <1>0, <2>1, <2>2, AnswerReviewed
<1>6. CASE Refuse
  <2>1. UNCHANGED <<messages, nested>>
    BY <1>6 DEF Refuse
  <2>2. CASE /\ Discovered /\ active' = Named
             /\ Answer("write", FALSE, "REPOSITORY_INSTRUCTIONS_DISCOVERED", Absent, obs)
    BY <1>0, <2>1, <2>2, AnswerReviewed
  <2>3. CASE UNCHANGED active /\ Answer("write", FALSE, GuardError(obs), Absent, obs)
    <3>1. GuardError(obs) # "REPOSITORY_INSTRUCTIONS_DISCOVERED"
      BY DEF GuardError
    <3> QED BY <1>0, <2>1, <2>3, <3>1, AnswerReviewed
  <2> QED BY <1>6, <2>2, <2>3 DEF Refuse
<1>7. CASE EditFile
  <2>1. UNCHANGED <<messages, nested, active>>
    BY <1>7 DEF EditFile
  <2>2. transcript' = transcript \/ Answer("write", FALSE, "FILE_OPERATION_FAILED", Absent, obs)
    BY <1>7 DEF EditFile
  <2> QED BY <1>0, <1>1, <2>1, <2>2, AnswerReviewed
<1>8. CASE ObserveWritten
  <2>1. UNCHANGED <<messages, nested, active>>
    BY <1>8 DEF ObserveWritten
  <2>2. \E ok, seen : \/ Answer("write", ok, "FILE_OPERATION_FAILED", Absent, seen)
                      \/ Answer("write", ok, "none", Absent, seen)
    BY <1>8 DEF ObserveWritten
  <2> QED BY <1>0, <2>1, <2>2, AnswerReviewed
<1>9. CASE Move
  <2>1. Answer("move", TRUE, "none", Absent, None) /\ UNCHANGED <<messages, nested>>
    BY <1>9 DEF Move
  <2> QED BY <1>0, <2>1, AnswerReviewed
<1> QED BY <1>2, <1>3, <1>4, <1>5, <1>6, <1>7, <1>8, <1>9 DEF Next

(* "Review them and retry the write": a write that was refused for the     *)
(* instructions of its directory is not refused for them again before the  *)
(* Agent moves, if their names sort as their depths do (activate_for_path, *)
(* AgentRunState.apply).                                                   *)
THEOREM ReviewsAreEnough ==
  ASSUME FilesAssumption
  PROVE  Spec => []ReviewIsEnoughInOrder
<1>1. Init => ReviewInv
  <2> SUFFICES ASSUME Init PROVE ReviewInv
    OBVIOUS
  <2>1. TalkTypes
    BY TalkInit
  <2>2. transcript = <<>>
    BY DEF Init
  <2> QED BY <2>1, <2>2 DEF ReviewInv, ReviewIsEnoughInOrder, ReviewIsEnough
<1>2. ReviewInv => ReviewIsEnoughInOrder
  BY DEF ReviewInv
<1> QED BY <1>1, <1>2, ReviewStep, PTL DEF Spec

-----------------------------------------------------------------------------
(* A whole read is enough to write.                                        *)

(* The result at place i is of a read that succeeded.                      *)
WasRead(i) == transcript[i].kind = "whole" /\ transcript[i].ok

(* No page has been asked for.                                             *)
NoPages == \A i \in 1 .. Len(transcript) : transcript[i].kind # "part"

(* Before the first page, what is observed is complete, also where a batch *)
(* still sees the state it began with.  After a whole read there is a      *)
(* complete observation, if it was made or there was no page before.       *)
WholeInv ==
  /\ TalkTypes
  /\ NoPages => /\ obs = None \/ obs.complete
                /\ batch = None \/ batch.complete
                /\ batch.complete => obs.complete
  /\ Len(transcript) > 0 /\ WasRead(Len(transcript))
       /\ (transcript[Len(transcript)].code = "unchanged" => ~Paged(Len(transcript)))
       => obs.complete
  /\ RefusedOnlyPaged

(* What an answer leaves to be shown.                                      *)
LEMMA AnswerWhole ==
  ASSUME WholeInv, TalkTypes', messages' = messages,
         NEW kind, NEW ok, NEW code, NEW text, NEW observation,
         Answer(kind, ok, code, text, observation),
         NoPages /\ kind # "part" =>
           /\ observation = None \/ observation.complete
           /\ kind \in Inputs /\ batch.complete => observation.complete,
         kind = "whole" /\ ok /\ (code = "unchanged" => NoPages) => observation.complete,
         code = "FILE_NOT_FULLY_READ" => ~obs.complete
  PROVE  WholeInv'
<1> SUFFICES ASSUME NEW n, n = Len(transcript),
                    NEW e, e = [kind |-> kind, ok |-> ok, code |-> code, text |-> text,
                                now |-> disk[here], message |-> messages]
             PROVE  WholeInv'
  OBVIOUS
<1>0. TalkTypes
  BY DEF WholeInv
<1>1. /\ n \in Nat /\ Len(transcript') = n + 1 /\ transcript'[n + 1] = e
      /\ \A i \in 1 .. n : transcript'[i] = transcript[i]
      /\ DOMAIN transcript' = 1 .. n + 1 /\ DOMAIN transcript = 1 .. n
      /\ obs' = observation
  BY <1>0, AnswerAppends
<1>2. e.kind = kind /\ e.ok = ok /\ e.code = code
  OBVIOUS
<1>3. n = Len(transcript)
  OBVIOUS
<1>4. batch' \in {batch, observation} /\ (batch' = batch => kind \in Inputs \/ batch = observation)
  BY DEF Answer
<1>5. RefusedOnlyPaged'
  <2> SUFFICES ASSUME NEW i \in 1 .. n + 1, RefusedAfterRead(i)'
               PROVE  (transcript[i - 1].code = "unchanged" /\ Paged(i - 1))'
    BY <1>1 DEF RefusedOnlyPaged
  <2>1. /\ transcript'[i].code = "FILE_NOT_FULLY_READ" /\ i > 1
        /\ transcript'[i - 1].kind = "whole" /\ transcript'[i - 1].ok
        /\ transcript'[i - 1].now = transcript'[i].now
        /\ transcript'[i - 1].message < transcript'[i].message
    BY DEF RefusedAfterRead
  <2>2. i - 1 \in 1 .. n /\ transcript'[i - 1] = transcript[i - 1]
    BY <1>1, <2>1
  <2>3. \A j \in 1 .. i - 1 - 1 : j \in 1 .. n /\ transcript'[j] = transcript[j]
    BY <1>1
  <2>4. transcript[i - 1].code = "unchanged" /\ Paged(i - 1)
    <3>1. CASE i = n + 1
      <4>1. i - 1 = Len(transcript) /\ Len(transcript) > 0 /\ code = "FILE_NOT_FULLY_READ"
            /\ WasRead(Len(transcript))
        BY <1>1, <1>2, <1>3, <2>1, <2>2, <3>1 DEF WasRead
      <4>2. ~obs.complete
        BY <4>1
      <4> QED BY <4>1, <4>2 DEF WholeInv
    <3>2. CASE i # n + 1
      <4>1. i \in DOMAIN transcript /\ transcript'[i] = transcript[i]
        BY <1>1, <3>2
      <4>2. RefusedAfterRead(i)
        BY <2>1, <2>2, <4>1 DEF RefusedAfterRead
      <4> QED BY <4>1, <4>2 DEF WholeInv, RefusedOnlyPaged
    <3> QED BY <3>1, <3>2
  <2>5. Paged(i - 1)'
    BY <2>3, <2>4 DEF Paged
  <2> QED BY <2>2, <2>4, <2>5
<1>6. NoPages' => NoPages /\ kind # "part"
  <2>1. \A i \in 1 .. n : i \in 1 .. n + 1
    BY <1>1
  <2>2. n + 1 \in 1 .. n + 1
    BY <1>1
  <2> QED BY <1>1, <1>2, <1>3, <2>1, <2>2 DEF NoPages
<1>7. Len(transcript') > 0 /\ WasRead(Len(transcript))'
        /\ (transcript'[Len(transcript')].code = "unchanged" => ~Paged(Len(transcript))')
        => obs'.complete
  <2>1. ASSUME ~Paged(Len(transcript))' PROVE NoPages
    <3>1. \A j \in 1 .. n + 1 - 1 : transcript'[j].kind # "part"
      BY <1>1, <2>1 DEF Paged
    <3>2. \A j \in 1 .. n : j \in 1 .. n + 1 - 1
      BY <1>1
    <3> QED BY <1>1, <1>3, <3>1, <3>2 DEF NoPages
  <2>2. transcript'[Len(transcript')] = e
    BY <1>1
  <2>3. WasRead(Len(transcript))' => kind = "whole" /\ ok
    BY <1>2, <2>2 DEF WasRead
  <2>4. (transcript'[Len(transcript')].code = "unchanged" => ~Paged(Len(transcript))')
        => (code = "unchanged" => NoPages)
    BY <1>2, <2>1, <2>2
  <2> QED BY <1>1, <2>3, <2>4
<1>8. NoPages' => /\ obs' = None \/ obs'.complete
                  /\ batch' = None \/ batch'.complete
                  /\ batch'.complete => obs'.complete
  <2> SUFFICES ASSUME NoPages, kind # "part"
               PROVE  /\ obs' = None \/ obs'.complete
                      /\ batch' = None \/ batch'.complete
                      /\ batch'.complete => obs'.complete
    BY <1>6
  <2>1. batch = None \/ batch.complete
    BY DEF WholeInv
  <2> QED BY <1>1, <1>4, <2>1
<1> QED BY <1>5, <1>7, <1>8 DEF WholeInv

(* Steps that answer nothing.                                              *)
LEMMA SilentWhole ==
  ASSUME WholeInv, TalkTypes', UNCHANGED <<transcript, obs>>, batch' \in {batch, obs}
  PROVE  WholeInv'
<1>1. RefusedOnlyPaged'
  BY DEF WholeInv, RefusedOnlyPaged, RefusedAfterRead, Paged
<1>2. Len(transcript') > 0 /\ WasRead(Len(transcript))'
        /\ (transcript'[Len(transcript')].code = "unchanged" => ~Paged(Len(transcript))')
        => obs'.complete
  BY DEF WholeInv, WasRead, Paged
<1>3. NoPages' => NoPages
  BY DEF NoPages
<1> QED BY <1>1, <1>2, <1>3 DEF WholeInv

(* Every step keeps the invariant.                                         *)
LEMMA WholeStep ==
  ASSUME FilesAssumption, WholeInv, [Next]_vars
  PROVE  WholeInv'
<1> USE DEF file, agent, rules
<1>1. TalkTypes'
  BY TalkStep DEF WholeInv, FilesAssumption
<1>2. CASE UNCHANGED vars \/ CallTools \/ Guard \/ WriteFile \/ OtherProgram
  <2>1. UNCHANGED <<transcript, obs>> /\ batch' \in {batch, obs}
    BY <1>2 DEF vars, CallTools, Guard, WriteFile, OtherProgram
  <2> QED BY <1>1, <2>1, SilentWhole
<1>3. CASE ReadUnchanged
  <2>1. PICK text : /\ Answer(Head(todo), TRUE, "unchanged", text, obs)
                    /\ Head(todo) \in Inputs /\ batch # None /\ messages' = messages
    BY <1>3 DEF ReadUnchanged, IsExactUnchangedRead, Matches
  <2>2. NoPages => obs.complete
    BY <2>1 DEF WholeInv
  <2> QED BY <1>1, <2>1, <2>2, AnswerWhole
<1>4. CASE ReadText
  <2>1. CASE disk[here].text = Absent
    <3>1. Answer(Head(todo), FALSE, "FILE_OPERATION_FAILED", Absent, obs) /\ messages' = messages
      BY <1>4, <2>1 DEF ReadText
    <3> QED BY <1>1, <3>1, AnswerWhole DEF WholeInv
  <2>2. CASE disk[here].text # Absent
    <3>1. UNCHANGED <<transcript, obs, batch>>
      BY <1>4, <2>2 DEF ReadText
    <3> QED BY <1>1, <3>1, SilentWhole
  <2> QED BY <2>1, <2>2
<1>5. CASE ReadStat
  <2>1. CASE disk[here].text = Absent
    <3>1. Answer(Head(todo), FALSE, "FILE_OPERATION_FAILED", Absent, obs) /\ messages' = messages
      BY <1>5, <2>1 DEF ReadStat
    <3> QED BY <1>1, <3>1, AnswerWhole DEF WholeInv
  <2>2. CASE disk[here].text # Absent
    <3> DEFINE seen ==
          [text |-> at.text, time |-> disk[here].time, complete |-> Head(todo) = "whole"]
    <3>1. Answer(Head(todo), TRUE, "read", at.text, seen) /\ messages' = messages
      BY <1>5, <2>2 DEF ReadStat
    <3>2. Head(todo) \in {"whole", "part"}
      BY <1>5 DEF ReadStat, WholeInv, TalkTypes, FilesAssumption
    <3>3. Head(todo) # "part" => seen.complete
      BY <3>2
    <3> HIDE DEF seen
    <3> QED BY <1>1, <3>1, <3>3, AnswerWhole
  <2> QED BY <2>1, <2>2
<1>6. CASE Refuse
  <2>1. PICK code : /\ Answer("write", FALSE, code, Absent, obs)
                    /\ code = "REPOSITORY_INSTRUCTIONS_DISCOVERED" \/ code = GuardError(obs)
                    /\ messages' = messages
    BY <1>6 DEF Refuse
  <2>2. code = "FILE_NOT_FULLY_READ" => ~obs.complete
    BY <2>1 DEF GuardError
  <2> QED BY <1>1, <2>1, <2>2, AnswerWhole DEF WholeInv, FilesAssumption
<1>7. CASE EditFile
  <2>1. CASE UNCHANGED <<obs, batch, transcript>>
    BY <1>1, <2>1, SilentWhole
  <2>2. CASE Answer("write", FALSE, "FILE_OPERATION_FAILED", Absent, obs)
    <3>1. messages' = messages
      BY <1>7 DEF EditFile
    <3> QED BY <1>1, <2>2, <3>1, AnswerWhole DEF WholeInv, FilesAssumption
  <2> QED BY <1>7, <2>1, <2>2 DEF EditFile
<1>8. CASE ObserveWritten
  <2>0. messages' = messages
    BY <1>8 DEF ObserveWritten
  <2>1. CASE disk[here].text = Absent
    <3>1. Answer("write", FALSE, "FILE_OPERATION_FAILED", Absent, obs)
      BY <1>8, <2>1 DEF ObserveWritten
    <3> QED BY <1>1, <2>0, <3>1, AnswerWhole DEF WholeInv, FilesAssumption
  <2>2. CASE disk[here].text # Absent
    <3> DEFINE seen == [text |-> disk[here].text, time |-> disk[here].time, complete |-> TRUE]
    <3>1. Answer("write", TRUE, "none", Absent, seen)
      BY <1>8, <2>2 DEF ObserveWritten
    <3>2. seen.complete
      OBVIOUS
    <3> HIDE DEF seen
    <3> QED BY <1>1, <2>0, <3>1, <3>2, AnswerWhole
  <2> QED BY <2>1, <2>2
<1>9. CASE Move
  <2>1. Answer("move", TRUE, "none", Absent, None) /\ messages' = messages
    BY <1>9 DEF Move
  <2> QED BY <1>1, <2>1, AnswerWhole DEF FilesAssumption
<1> QED BY <1>2, <1>3, <1>4, <1>5, <1>6, <1>7, <1>8, <1>9 DEF Next

(* A write that follows a whole read of the file as it is is refused as    *)
(* not fully read only if that read was answered as unchanged and a page   *)
(* was read before it (_existing_file_guard, ReadFileTool.call): for any   *)
(* calls in a message, in any checkouts, and whatever other programs do at *)
(* any time.                                                               *)
THEOREM WholeReadsSuffice ==
  ASSUME FilesAssumption
  PROVE  Spec => []RefusedOnlyPaged
<1>1. Init => WholeInv
  <2> SUFFICES ASSUME Init PROVE WholeInv
    OBVIOUS
  <2>1. TalkTypes
    BY TalkInit
  <2>2. obs = None /\ batch = None /\ transcript = <<>>
    BY DEF Init
  <2> QED BY <2>1, <2>2, NoneIsPartial DEF WholeInv, RefusedOnlyPaged
<1>2. WholeInv => RefusedOnlyPaged
  BY DEF WholeInv
<1> QED BY <1>1, <1>2, WholeStep, PTL DEF Spec

-----------------------------------------------------------------------------
(* The calls stand in the order of their messages, and the first call of a *)
(* message sees the present state.                                         *)

Turns ==
  /\ TalkTypes
  /\ FirstCall => batch = obs
  /\ \A i \in 1 .. Len(transcript) :
       /\ transcript[i].message <= messages
       /\ \A j \in 1 .. i - 1 : transcript[j].message <= transcript[i].message

(* The messages of the transcript have numbers.                            *)
LEMMA MessagesAreNumbers ==
  ASSUME TalkTypes
  PROVE  /\ messages \in Nat /\ Len(transcript) \in Nat
         /\ \A i \in 1 .. Len(transcript) : transcript[i].message \in Nat
<1>1. \A i \in 1 .. Len(transcript) : transcript[i] \in Entry
  BY DEF TalkTypes
<1> QED BY <1>1 DEF TalkTypes, Entry

(* An answer keeps the order, and adds one entry.                          *)
LEMMA AnswerTurns ==
  ASSUME Turns, TalkTypes', messages' = messages,
         NEW kind, NEW ok, NEW code, NEW text, NEW observation,
         Answer(kind, ok, code, text, observation),
         NEW n, n = Len(transcript),
         NEW e, e = [kind |-> kind, ok |-> ok, code |-> code, text |-> text, now |-> disk[here],
                     message |-> messages]
  PROVE  /\ Turns' /\ e.message = messages
         /\ n \in Nat /\ Len(transcript') = n + 1 /\ transcript'[n + 1] = e
         /\ \A i \in 1 .. n : transcript'[i] = transcript[i]
         /\ DOMAIN transcript' = 1 .. n + 1 /\ DOMAIN transcript = 1 .. n
         /\ obs' = observation /\ at'.step = "idle"
<1>0. TalkTypes
  BY DEF Turns
<1>1. /\ n \in Nat /\ Len(transcript') = n + 1 /\ transcript'[n + 1] = e /\ e.message = messages
      /\ \A i \in 1 .. n : transcript'[i] = transcript[i]
      /\ DOMAIN transcript' = 1 .. n + 1 /\ DOMAIN transcript = 1 .. n
      /\ obs' = observation /\ at'.step = "idle" /\ ~FirstCall'
  BY <1>0, AnswerAppends
<1>2. messages \in Nat /\ \A i \in 1 .. n : transcript[i].message \in Nat
  BY MessagesAreNumbers DEF Turns
<1>3. ASSUME NEW i \in 1 .. n + 1
      PROVE  /\ transcript'[i].message <= messages'
             /\ \A j \in 1 .. i - 1 : transcript'[j].message <= transcript'[i].message
  <2>1. CASE i = n + 1
    <3>1. \A j \in 1 .. i - 1 : j \in 1 .. n
      BY <1>1, <2>1
    <3> QED BY <1>1, <1>2, <2>1, <3>1 DEF Turns
  <2>2. CASE i # n + 1
    <3>1. i \in 1 .. n /\ \A j \in 1 .. i - 1 : j \in 1 .. n
      BY <1>1, <2>2
    <3> QED BY <1>1, <3>1 DEF Turns
  <2> QED BY <2>1, <2>2
<1>4. Turns'
  BY <1>1, <1>3 DEF Turns
<1> QED BY <1>1, <1>4

(* Steps that answer nothing.                                              *)
LEMMA SilentTurns ==
  ASSUME Turns, TalkTypes',
         UNCHANGED vars \/ CallTools \/ Guard \/ WriteFile \/ OtherProgram
           \/ (ReadText /\ disk[here].text # Absent)
           \/ (EditFile /\ UNCHANGED <<obs, batch, transcript, todo>>)
  PROVE  Turns' /\ UNCHANGED <<transcript, obs, here>>
<1> USE DEF file, agent, rules
<1>1. CASE CallTools
  <2>1. messages' = messages + 1 /\ batch' = obs /\ UNCHANGED <<transcript, obs, here>>
    BY <1>1 DEF CallTools
  <2>2. messages \in Nat /\ \A i \in 1 .. Len(transcript) : transcript[i].message \in Nat
    BY MessagesAreNumbers DEF Turns
  <2>3. \A i \in 1 .. Len(transcript) : transcript[i].message <= messages'
    BY <2>1, <2>2 DEF Turns
  <2> QED BY <2>1, <2>3 DEF Turns
<1>2. CASE ~CallTools
  <2>1. UNCHANGED <<transcript, obs, batch, messages, here>>
    BY <1>2 DEF vars, Guard, WriteFile, OtherProgram, ReadText, EditFile
  <2> QED BY <2>1 DEF Turns, FirstCall
<1> QED BY <1>1, <1>2

(* The transcript at the start.                                            *)
LEMMA TurnsInit ==
  ASSUME FilesAssumption, Init
  PROVE  Turns
<1>1. TalkTypes
  BY TalkInit
<1>2. obs = None /\ batch = None /\ transcript = <<>>
  BY DEF Init
<1> QED BY <1>1, <1>2 DEF Turns

-----------------------------------------------------------------------------
(* What is called unchanged.                                               *)

(* As long as each message made one call and none asked for a page: while  *)
(* the file is observed, the last read that no write follows showed what   *)
(* was observed.                                                           *)
SeenInv ==
  /\ Turns
  /\ ~Shared(Len(transcript)) /\ NoPages /\ obs # None =>
       \A i \in 1 .. Len(transcript) :
         (/\ WasRead(i)
          /\ \A j \in i + 1 .. Len(transcript) : transcript[j].kind # "write" /\ ~WasRead(j))
         => transcript[i].text = obs.text
  /\ UntrueOnlyAround

(* The earlier reads are those that no write follows.                      *)
LEMMA ReadsAreExact ==
  ASSUME Turns, FirstCall, ~Shared(Len(transcript)), NEW i
  PROVE  i \in ExactReads("whole") <=>
           /\ i \in 1 .. Len(transcript) /\ WasRead(i)
           /\ \A j \in i + 1 .. Len(transcript) : transcript[j].kind # "write"
<1>1. DOMAIN transcript = 1 .. Len(transcript) /\ Len(transcript) \in Nat
  BY DEF Turns, TalkTypes
<1>2. \A k \in 1 .. Len(transcript) : transcript[k].message < messages
  BY <1>1, MessagesAreNumbers DEF Turns, FirstCall
<1>3. ASSUME i \in 1 .. Len(transcript)
      PROVE  (\A j \in 1 .. Len(transcript) :
                j > i => transcript[j].kind # "write" \/ transcript[j].message = transcript[i].message)
             <=> \A j \in i + 1 .. Len(transcript) : transcript[j].kind # "write"
  <2>1. ASSUME NEW j \in 1 .. Len(transcript), j > i
        PROVE  transcript[j].message # transcript[i].message
    <3>1. i \in 1 .. j - 1
      BY <1>1, <1>3, <2>1
    <3> QED BY <3>1 DEF Shared
  <2> QED BY <1>1, <1>3, <2>1
<1> QED BY <1>1, <1>2, <1>3 DEF ExactReads, WasRead

(* What an answer leaves to be shown.                                      *)
LEMMA AnswerSeen ==
  ASSUME SeenInv, TalkTypes', messages' = messages,
         NEW kind, NEW ok, NEW code, NEW text, NEW observation,
         Answer(kind, ok, code, text, observation),
         FirstCall /\ ~Shared(Len(transcript)) /\ NoPages /\ kind # "part" =>
           /\ code = "unchanged" => text = disk[here].text
           /\ \/ kind = "write" \/ observation = None
              \/ kind = "whole" /\ ok /\ text = observation.text
              \/ kind = "whole" /\ ~ok /\ observation = obs
  PROVE  SeenInv'
<1>0. PICK n, e :
        /\ e = [kind |-> kind, ok |-> ok, code |-> code, text |-> text, now |-> disk[here],
                message |-> messages]
        /\ n = Len(transcript) /\ Turns
  BY DEF SeenInv
<1>1. e.kind = kind /\ e.ok = ok /\ e.code = code /\ e.text = text /\ e.now = disk[here]
  BY <1>0
<1>2. /\ Turns' /\ e.message = messages
      /\ n \in Nat /\ Len(transcript') = n + 1 /\ transcript'[n + 1] = e
      /\ \A i \in 1 .. n : transcript'[i] = transcript[i]
      /\ DOMAIN transcript' = 1 .. n + 1 /\ DOMAIN transcript = 1 .. n
      /\ obs' = observation
  BY <1>0, AnswerTurns
<1>3. ~Shared(n + 1)' => FirstCall /\ ~Shared(n)
  <2> SUFFICES ASSUME ~Shared(n + 1)' PROVE FirstCall /\ ~Shared(n)
    OBVIOUS
  <2>1. \A j \in 1 .. n + 1 : \A k \in 1 .. j - 1 : transcript'[k].message # transcript'[j].message
    BY DEF Shared
  <2>2. \A k \in 1 .. n : transcript[k].message # messages
    <3>1. n + 1 \in 1 .. n + 1 /\ \A k \in 1 .. n : k \in 1 .. n + 1 - 1
      BY <1>2
    <3> QED BY <1>2, <2>1, <3>1
  <2>3. \A j \in 1 .. n : \A k \in 1 .. j - 1 : transcript[k].message # transcript[j].message
    <3>1. \A j \in 1 .. n : j \in 1 .. n + 1 /\ \A k \in 1 .. j - 1 : k \in 1 .. n
      BY <1>2
    <3> QED BY <1>2, <2>1, <3>1
  <2> QED BY <1>2, <2>2, <2>3 DEF FirstCall, Shared
<1>4. (\A i \in 1 .. n : transcript[i].kind # "part") => NoPages
  BY <1>0 DEF NoPages
<1>5. UntrueOnlyAround'
  <2> SUFFICES ASSUME NEW i \in 1 .. n + 1, Untrue(i)', ~Paged(i)', ~Shared(i)'
               PROVE  FALSE
    BY <1>2 DEF UntrueOnlyAround
  <2>1. \A j \in 1 .. i - 1 : j \in 1 .. n /\ transcript'[j] = transcript[j]
    BY <1>2
  <2>2. CASE i = n + 1
    <3>1. kind = "whole" /\ code = "unchanged" /\ text # disk[here].text
      BY <1>1, <1>2, <2>2 DEF Untrue
    <3>2. FirstCall /\ ~Shared(n)
      BY <1>3, <2>2
    <3>3. \A j \in 1 .. i - 1 : transcript[j].kind # "part"
      BY <2>1 DEF Paged
    <3>4. NoPages
      <4>1. \A j \in 1 .. n : j \in 1 .. i - 1
        BY <1>2, <2>2
      <4> QED BY <1>4, <3>3, <4>1
    <3> QED BY <1>0, <3>1, <3>2, <3>4
  <2>3. CASE i # n + 1
    <3>1. i \in DOMAIN transcript /\ transcript'[i] = transcript[i] /\ i \in 1 .. n
      BY <1>2, <2>3
    <3>2. Untrue(i)
      BY <3>1 DEF Untrue
    <3>3. ~Paged(i)
      BY <2>1 DEF Paged
    <3>4. ~Shared(i)
      <4>1. \A j \in 1 .. i : j \in 1 .. n /\ \A k \in 1 .. j - 1 : k \in 1 .. n
        BY <1>2, <3>1
      <4> QED BY <1>2, <4>1 DEF Shared
    <3> QED BY <3>1, <3>2, <3>3, <3>4 DEF SeenInv, UntrueOnlyAround
  <2> QED BY <2>2, <2>3
<1>6. ASSUME ~Shared(n + 1)', NoPages', obs' # None, NEW i \in 1 .. n + 1, WasRead(i)',
             \A j \in i + 1 .. n + 1 : transcript'[j].kind # "write" /\ ~WasRead(j)'
      PROVE  transcript'[i].text = obs'.text
  <2>1. NoPages /\ kind # "part"
    <3>1. \A j \in 1 .. n + 1 : transcript'[j].kind # "part"
      BY <1>2, <1>6 DEF NoPages
    <3>2. n + 1 \in 1 .. n + 1 /\ \A j \in 1 .. n : j \in 1 .. n + 1
      BY <1>2
    <3> QED BY <1>1, <1>2, <1>4, <3>1, <3>2
  <2>2. \/ kind = "write" \/ observation = None
        \/ kind = "whole" /\ ok /\ text = observation.text
        \/ kind = "whole" /\ ~ok /\ observation = obs
    BY <1>0, <1>3, <1>6, <2>1
  <2>3. CASE i = n + 1
    BY <1>1, <1>2, <1>6, <2>2, <2>3 DEF WasRead
  <2>4. CASE i # n + 1
    <3>1. i \in 1 .. n /\ n + 1 \in i + 1 .. n + 1 /\ transcript'[i] = transcript[i]
      BY <1>2, <2>4
    <3>2. e.kind # "write" /\ ~(e.kind = "whole" /\ e.ok)
      BY <1>2, <1>6, <3>1 DEF WasRead
    <3>3. observation = obs /\ obs # None
      BY <1>1, <1>2, <1>6, <2>2, <3>2
    <3>4. WasRead(i) /\ \A j \in i + 1 .. n : transcript[j].kind # "write" /\ ~WasRead(j)
      <4>1. \A j \in i + 1 .. n : j \in 1 .. n /\ j \in i + 1 .. n + 1
        BY <1>2
      <4> QED BY <1>2, <1>6, <3>1, <4>1 DEF WasRead
    <3> QED BY <1>0, <1>2, <1>3, <1>6, <2>1, <3>1, <3>3, <3>4 DEF SeenInv
  <2> QED BY <2>3, <2>4
<1>7. ~Shared(Len(transcript))' => ~Shared(n + 1)'
  BY <1>2 DEF Shared
<1> QED BY <1>2, <1>5, <1>6, <1>7 DEF SeenInv

(* Every step keeps the invariant.                                         *)
LEMMA SeenStep ==
  ASSUME FilesAssumption, SeenInv, [Next]_vars
  PROVE  SeenInv'
<1> USE DEF file, agent, rules
<1>1. TalkTypes'
  BY TalkStep DEF SeenInv, Turns, FilesAssumption
<1>2. ASSUME UNCHANGED vars \/ CallTools \/ Guard \/ WriteFile \/ OtherProgram
           \/ (ReadText /\ disk[here].text # Absent)
           \/ (EditFile /\ UNCHANGED <<obs, batch, transcript, todo>>)
      PROVE  SeenInv'
  <2>1. Turns' /\ UNCHANGED <<transcript, obs>>
    BY <1>1, <1>2, SilentTurns DEF SeenInv
  <2>2. UntrueOnlyAround'
    BY <2>1 DEF SeenInv, UntrueOnlyAround, Untrue, Paged, Shared
  <2> QED BY <2>1, <2>2 DEF SeenInv, WasRead, NoPages, Shared
<1>3. CASE ReadUnchanged
  <2>1. todo # <<>> /\ Head(todo) \in {"whole", "part"} /\ messages' = messages
    BY <1>3 DEF ReadUnchanged, FilesAssumption
  <2>2. CASE Head(todo) = "part"
    <3>1. PICK text : Answer("part", TRUE, "unchanged", text, obs)
      BY <1>3, <2>2 DEF ReadUnchanged
    <3> QED BY <1>1, <2>1, <3>1, AnswerSeen
  <2>3. CASE Head(todo) = "whole"
    <3> DEFINE last == CHOOSE i \in ExactReads("whole") : \A j \in ExactReads("whole") : j <= i
    <3>1. /\ ExactReads("whole") # {} /\ Matches(batch, disk[here])
          /\ Answer("whole", TRUE, "unchanged", transcript[last].text, obs)
      BY <1>3, <2>3 DEF ReadUnchanged, IsExactUnchangedRead
    <3>2. /\ last \in ExactReads("whole") /\ last \in 1 .. Len(transcript)
          /\ \A j \in ExactReads("whole") : j <= last
      BY <3>1, LastExactRead DEF SeenInv, Turns
    <3> HIDE DEF last
    <3>3. ASSUME FirstCall, ~Shared(Len(transcript)), NoPages
          PROVE  transcript[last].text = obs.text /\ obs.text = disk[here].text
      <4>1. obs # None /\ obs.text = disk[here].text
        BY <3>1, <3>3 DEF Matches, SeenInv, Turns
      <4>2. WasRead(last) /\ \A j \in last + 1 .. Len(transcript) : transcript[j].kind # "write"
        BY <3>2, <3>3, ReadsAreExact DEF SeenInv
      <4>3. ASSUME NEW j \in last + 1 .. Len(transcript), WasRead(j) PROVE FALSE
        <5>1. Len(transcript) \in Nat
          BY DEF SeenInv, Turns, TalkTypes
        <5>2. j \in 1 .. Len(transcript) /\ j > last
              /\ \A k \in j + 1 .. Len(transcript) : k \in last + 1 .. Len(transcript)
          BY <3>2, <5>1
        <5>3. j \in ExactReads("whole")
          BY <3>3, <4>2, <4>3, <5>2, ReadsAreExact DEF SeenInv
        <5> QED BY <3>2, <5>1, <5>2, <5>3
      <4> QED BY <3>2, <3>3, <4>1, <4>2, <4>3 DEF SeenInv
    <3> QED BY <1>1, <2>1, <3>1, <3>3, AnswerSeen
  <2> QED BY <2>1, <2>2, <2>3
<1>4. CASE ReadText /\ disk[here].text = Absent
  <2>1. /\ Answer(Head(todo), FALSE, "FILE_OPERATION_FAILED", Absent, obs) /\ messages' = messages
        /\ todo # <<>> /\ Head(todo) \in {"whole", "part"}
    BY <1>4 DEF ReadText, FilesAssumption
  <2> QED BY <1>1, <2>1, AnswerSeen
<1>5. CASE ReadStat
  <2>1. Head(todo) \in {"whole", "part"} /\ todo # <<>> /\ messages' = messages
    BY <1>5 DEF ReadStat, SeenInv, Turns, TalkTypes, FilesAssumption
  <2>2. CASE disk[here].text = Absent
    <3>1. Answer(Head(todo), FALSE, "FILE_OPERATION_FAILED", Absent, obs)
      BY <1>5, <2>1, <2>2 DEF ReadStat
    <3> QED BY <1>1, <2>1, <3>1, AnswerSeen
  <2>3. CASE disk[here].text # Absent
    <3> DEFINE seen ==
          [text |-> at.text, time |-> disk[here].time, complete |-> Head(todo) = "whole"]
    <3>1. Answer(Head(todo), TRUE, "read", at.text, seen)
      BY <1>5, <2>1, <2>3 DEF ReadStat
    <3>2. seen.text = at.text
      OBVIOUS
    <3> HIDE DEF seen
    <3> QED BY <1>1, <2>1, <3>1, <3>2, AnswerSeen
  <2> QED BY <2>2, <2>3
<1>6. CASE Refuse
  <2>1. PICK code : /\ Answer("write", FALSE, code, Absent, obs)
                    /\ code = "REPOSITORY_INSTRUCTIONS_DISCOVERED" \/ code = GuardError(obs)
    BY <1>6 DEF Refuse
  <2>2. code # "unchanged" /\ messages' = messages
    BY <1>6, <2>1 DEF Refuse, GuardError
  <2> QED BY <1>1, <2>1, <2>2, AnswerSeen
<1>7. CASE EditFile
  <2>1. messages' = messages
    BY <1>7 DEF EditFile
  <2>2. CASE Answer("write", FALSE, "FILE_OPERATION_FAILED", Absent, obs)
    BY <1>1, <2>1, <2>2, AnswerSeen
  <2>3. CASE UNCHANGED <<obs, batch, transcript, todo>>
    BY <1>2, <1>7, <2>3
  <2> QED BY <1>7, <2>2, <2>3 DEF EditFile
<1>8. CASE ObserveWritten
  <2>1. messages' = messages
    BY <1>8 DEF ObserveWritten
  <2>2. \E ok \in BOOLEAN, code \in {"none", "FILE_OPERATION_FAILED"} : \E seen :
          Answer("write", ok, code, Absent, seen)
    BY <1>8 DEF ObserveWritten
  <2> QED BY <1>1, <2>1, <2>2, AnswerSeen
<1>9. CASE Move
  <2>1. Answer("move", TRUE, "none", Absent, None) /\ messages' = messages
    BY <1>9 DEF Move
  <2> QED BY <1>1, <2>1, AnswerSeen
<1> QED BY <1>2, <1>3, <1>4, <1>5, <1>6, <1>7, <1>8, <1>9 DEF Next

(* The answer "unchanged" (_is_exact_unchanged_read) is true, the earlier  *)
(* result it refers to shows what the file holds, up to the first page and *)
(* the first message that makes two calls: whatever other programs do at   *)
(* any time and wherever the worktree tools move the Agent.                *)
THEOREM UnchangedStaysTrue ==
  ASSUME FilesAssumption
  PROVE  Spec => []UntrueOnlyAround
<1>1. Init => SeenInv
  <2> SUFFICES ASSUME Init PROVE SeenInv
    OBVIOUS
  <2>1. transcript = <<>> /\ obs = None
    BY DEF Init
  <2> QED BY <2>1, TurnsInit DEF SeenInv, UntrueOnlyAround
<1>2. SeenInv => UntrueOnlyAround
  BY DEF SeenInv
<1> QED BY <1>1, <1>2, SeenStep, PTL DEF Spec

-----------------------------------------------------------------------------
(* What a refusal asks for.                                                *)

(* The result at place i is of a write that was refused or failed, the     *)
(* first call of its message.                                              *)
WasRefused(i) ==
  /\ transcript[i].kind = "write" /\ ~transcript[i].ok
  /\ \A k \in 1 .. i - 1 : transcript[k].message # transcript[i].message

(* Changes have times of their own, so an equal time is an equal text.     *)
(* After such a write the next read is made, not answered from the         *)
(* transcript: while it is under way its text is that of the file, unless  *)
(* the file has changed since, and then it is observed.                    *)
RetryInv ==
  /\ Turns
  /\ \A d \in Checkouts : disk[d].time <= clock
  /\ \A i \in 1 .. Len(transcript) : transcript[i].now.time <= clock
  /\ LET n == Len(transcript)
     IN  /\ n > 0 /\ WasRefused(n) /\ at.step = "stat" /\ transcript[n].now = disk[here] =>
              at.text = disk[here].text
         /\ n > 1 /\ WasRead(n) /\ WasRefused(n - 1) /\ transcript[n - 1].now = transcript[n].now =>
              obs.complete /\ obs.text = transcript[n].now.text /\ obs.time = transcript[n].now.time
  /\ RetryIsAccepted

(* What an answer leaves to be shown.                                      *)
LEMMA AnswerRetry ==
  ASSUME RetryInv, TalkTypes', UNCHANGED <<disk, clock, messages>>,
         NEW kind, NEW ok, NEW code, NEW text, NEW observation,
         Answer(kind, ok, code, text, observation),
         code \in {"FILE_NOT_FULLY_READ", "FILE_CHANGED_SINCE_READ"} =>
           code = GuardError(obs) /\ observation = obs,
         kind = "whole" /\ ok =>
           /\ Len(transcript) > 0 /\ WasRefused(Len(transcript))
                /\ transcript[Len(transcript)].now = disk[here] =>
                observation.complete /\ observation.text = disk[here].text
                /\ observation.time = disk[here].time
  PROVE  RetryInv'
<1>0. PICK n, e :
        /\ e = [kind |-> kind, ok |-> ok, code |-> code, text |-> text, now |-> disk[here],
                message |-> messages]
        /\ n = Len(transcript) /\ Turns
  BY DEF RetryInv
<1>1. /\ e.kind = kind /\ e.ok = ok /\ e.code = code /\ e.now = disk[here]
      /\ here \in Checkouts /\ disk[here] \in FileState
  BY <1>0 DEF RetryInv, Turns, TalkTypes
<1>2. /\ Turns'
      /\ n \in Nat /\ Len(transcript') = n + 1 /\ transcript'[n + 1] = e
      /\ \A i \in 1 .. n : transcript'[i] = transcript[i]
      /\ DOMAIN transcript' = 1 .. n + 1 /\ DOMAIN transcript = 1 .. n
      /\ obs' = observation /\ at'.step = "idle"
  BY <1>0, AnswerTurns
<1>3. ASSUME NEW i \in 1 .. n + 1 PROVE transcript'[i].now.time <= clock'
  <2>1. CASE i = n + 1
    BY <1>1, <1>2, <2>1 DEF RetryInv
  <2>2. CASE i # n + 1
    BY <1>0, <1>2, <2>2 DEF RetryInv
  <2> QED BY <2>1, <2>2
<1>4. ASSUME n + 1 > 1, transcript'[n + 1].kind = "whole", transcript'[n + 1].ok,
             transcript'[n].kind = "write", ~transcript'[n].ok,
             \A k \in 1 .. n - 1 : transcript'[k].message # transcript'[n].message,
             transcript'[n].now = transcript'[n + 1].now
      PROVE  /\ obs'.complete /\ obs'.text = transcript'[n + 1].now.text
             /\ obs'.time = transcript'[n + 1].now.time
  <2>1. n \in 1 .. n /\ transcript'[n] = transcript[n]
    BY <1>2, <1>4
  <2>2. n > 0 /\ transcript[n].now = disk[here] /\ kind = "whole" /\ ok
    BY <1>1, <1>2, <1>4, <2>1
  <2>3. WasRefused(n)
    <3>1. \A k \in 1 .. n - 1 : k \in 1 .. n
      BY <1>2
    <3> QED BY <1>2, <1>4, <2>1, <3>1 DEF WasRefused
  <2> QED BY <1>0, <1>1, <1>2, <2>2, <2>3
<1>5. RetryIsAccepted'
  <2> SUFFICES ASSUME NEW i \in 1 .. n + 1, i \notin {1, 2},
                      transcript'[i].code \in {"FILE_NOT_FULLY_READ", "FILE_CHANGED_SINCE_READ"},
                      transcript'[i - 1].kind = "whole", transcript'[i - 1].ok,
                      transcript'[i - 2].kind = "write", ~transcript'[i - 2].ok,
                      transcript'[i - 2].now = transcript'[i].now,
                      transcript'[i - 1].now = transcript'[i].now,
                      \A k \in 1 .. i - 3 : transcript'[k].message # transcript'[i - 2].message,
                      transcript'[i - 2].message < transcript'[i - 1].message,
                      transcript'[i - 1].message < transcript'[i].message
               PROVE  FALSE
    BY <1>2 DEF RetryIsAccepted
  <2>1. /\ i - 1 \in 1 .. n /\ transcript'[i - 1] = transcript[i - 1]
        /\ i - 2 \in 1 .. n /\ transcript'[i - 2] = transcript[i - 2]
        /\ \A k \in 1 .. i - 3 : k \in 1 .. n /\ transcript'[k] = transcript[k]
    BY <1>2
  <2>2. CASE i = n + 1
    <3>0. n > 1 /\ i - 1 = n /\ i - 2 = n - 1 /\ n - 1 - 1 = i - 3
      BY <1>2, <2>1, <2>2
    <3>1. n > 1 /\ WasRead(n) /\ WasRefused(n - 1) /\ i - 1 = n /\ i - 2 = n - 1
      BY <2>1, <3>0 DEF WasRead, WasRefused
    <3>2. transcript[n - 1].now = transcript[n].now /\ transcript[n].now = disk[here]
      BY <1>1, <1>2, <2>1, <2>2, <3>1
    <3>3. obs.complete /\ obs.text = disk[here].text /\ obs.time = disk[here].time
      BY <1>0, <3>1, <3>2 DEF RetryInv
    <3>4. GuardError(obs) = "none"
      BY <3>3, NoneIsPartial DEF GuardError, Matches
    <3> QED BY <1>1, <1>2, <2>2, <3>4
  <2>3. CASE i # n + 1
    <3>1. i \in DOMAIN transcript \ {1, 2} /\ transcript'[i] = transcript[i]
      BY <1>2, <2>3
    <3> QED BY <2>1, <3>1 DEF RetryInv, RetryIsAccepted
  <2> QED BY <2>2, <2>3
<1>6. disk' = disk /\ clock' = clock
  OBVIOUS
<1>7. n + 1 - 1 = n
  BY <1>2
<1>8. /\ \A d \in Checkouts : disk'[d].time <= clock'
      /\ \A i \in 1 .. Len(transcript') : transcript'[i].now.time <= clock'
  BY <1>2, <1>3, <1>6 DEF RetryInv
<1>9. ~(at'.step = "stat")
  BY <1>2
<1>10. ASSUME n + 1 > 1, WasRead(Len(transcript))', WasRefused(Len(transcript) - 1)',
              transcript'[Len(transcript') - 1].now = transcript'[Len(transcript')].now
       PROVE  /\ obs'.complete /\ obs'.text = transcript'[n + 1].now.text
              /\ obs'.time = transcript'[n + 1].now.time
  <2>1. Len(transcript') - 1 = n
    BY <1>2
  <2>2. /\ transcript'[n + 1].kind = "whole" /\ transcript'[n + 1].ok
        /\ transcript'[n].now = transcript'[n + 1].now
    BY <1>2, <1>10, <2>1 DEF WasRead
  <2>3. /\ transcript'[n].kind = "write" /\ ~transcript'[n].ok
        /\ \A k \in 1 .. n - 1 : transcript'[k].message # transcript'[n].message
    BY <1>10, <2>1 DEF WasRefused
  <2> QED BY <1>4, <1>10, <2>2, <2>3
<1> QED BY <1>2, <1>5, <1>8, <1>9, <1>10 DEF RetryInv

(* Steps that answer nothing and change no file.                           *)
LEMMA SilentRetry ==
  ASSUME RetryInv, Turns', UNCHANGED <<transcript, obs, here, disk, clock>>,
         at'.step = "stat" => at'.text = disk[here].text \/ at' = at
  PROVE  RetryInv'
<1>1. RetryIsAccepted'
  BY DEF RetryInv, RetryIsAccepted
<1> QED BY <1>1 DEF RetryInv, WasRefused, WasRead

(* Steps that change a file and answer nothing.                            *)
LEMMA ChangeRetry ==
  ASSUME RetryInv, Turns', UNCHANGED <<transcript, obs, here>>, clock' = clock + 1,
         \A d \in Checkouts : disk'[d] = disk[d] \/ disk'[d].time = clock + 1,
         at' = at \/ at'.step # "stat"
  PROVE  RetryInv'
<1>1. RetryIsAccepted'
  BY DEF RetryInv, RetryIsAccepted
<1>2. clock \in Nat /\ Len(transcript) \in Nat /\ here \in Checkouts
      /\ (\A d \in Checkouts : disk[d] \in FileState) /\ \A d \in Checkouts : disk[d].time \in Nat
  BY DEF RetryInv, Turns, TalkTypes, FileState
<1>3. \A d \in Checkouts : disk'[d].time <= clock'
  BY <1>2 DEF RetryInv
<1>4. ASSUME NEW i \in 1 .. Len(transcript)
      PROVE  transcript[i].now.time \in Nat /\ transcript[i].now.time <= clock
  <2>1. transcript[i] \in Entry
    BY DEF RetryInv, Turns, TalkTypes
  <2>2. transcript[i].now \in FileState
    BY <2>1 DEF Entry
  <2> QED BY <2>2 DEF FileState, RetryInv
<1>5. ASSUME Len(transcript) > 0, WasRefused(Len(transcript)), at'.step = "stat",
             transcript[Len(transcript)].now = disk'[here]
      PROVE  at'.text = disk'[here].text
  <2>1. Len(transcript) \in 1 .. Len(transcript)
    BY <1>2, <1>5
  <2>2. disk'[here] = disk[here]
    BY <1>2, <1>4, <1>5, <2>1
  <2> QED BY <1>5, <2>2 DEF RetryInv
<1>6. \A i \in 1 .. Len(transcript) : transcript[i].now.time <= clock'
  BY <1>2, <1>4
<1> QED BY <1>1, <1>3, <1>5, <1>6 DEF RetryInv, WasRefused, WasRead

(* After a refused write no earlier read is exact any more.                *)
LEMMA RefusedIsNotExact ==
  ASSUME Turns, NEW input \in Inputs, Inputs \subseteq {"whole", "part"}, ExactReads(input) # {}
  PROVE  Len(transcript) > 0 /\ ~WasRefused(Len(transcript))
<1>1. DOMAIN transcript = 1 .. Len(transcript) /\ Len(transcript) \in Nat
  BY DEF Turns, TalkTypes
<1>2. PICK i \in ExactReads(input) : TRUE
  OBVIOUS
<1>3. /\ i \in 1 .. Len(transcript) /\ transcript[i].kind = input
      /\ \A j \in 1 .. Len(transcript) :
           j > i => transcript[j].kind # "write" \/ transcript[j].message = transcript[i].message
  BY <1>1, <1>2 DEF ExactReads
<1>4. Len(transcript) \in 1 .. Len(transcript)
  BY <1>1, <1>3
<1>5. CASE i = Len(transcript)
  BY <1>3, <1>4, <1>5 DEF WasRefused
<1>6. CASE i # Len(transcript)
  <2>1. i \in Nat /\ i <= Len(transcript) /\ i >= 1
    BY <1>1, <1>3
  <2> DEFINE n == Len(transcript)
  <2>2. n \in Nat /\ i \in Nat /\ i <= n /\ i >= 1 /\ i # n
    BY <1>1, <1>6, <2>1
  <2> HIDE DEF n
  <2>3. i \in 1 .. n - 1 /\ n > i
    BY <2>2
  <2> QED BY <1>3, <1>4, <2>3 DEF WasRefused, n
<1> QED BY <1>5, <1>6

(* Every step keeps the invariant.                                         *)
LEMMA RetryStep ==
  ASSUME FilesAssumption, RetryInv, [Next]_vars
  PROVE  RetryInv'
<1> USE DEF file, agent, rules
<1>1. TalkTypes'
  BY TalkStep DEF RetryInv, Turns, FilesAssumption
<1>2. Turns
  BY DEF RetryInv
<1>3. CASE UNCHANGED vars \/ CallTools \/ Guard
  <2>1. Turns' /\ UNCHANGED <<transcript, obs, here>>
    BY <1>1, <1>2, <1>3, SilentTurns
  <2>2. UNCHANGED <<disk, clock>> /\ (at' = at \/ at'.step = "write")
    BY <1>3 DEF vars, CallTools, Guard, Idle
  <2> QED BY <2>1, <2>2, SilentRetry
<1>4. CASE WriteFile
  <2>1. Turns' /\ UNCHANGED <<transcript, obs, here>>
    BY <1>1, <1>2, <1>4, SilentTurns
  <2>2. /\ disk' = [disk EXCEPT ![here] = Replaced(Written)] /\ clock' = clock + 1
        /\ at.step = "write" /\ at' = [at EXCEPT !.step = "observe"]
    BY <1>4 DEF WriteFile
  <2>3. at'.step # "stat"
    BY <1>2, <2>2 DEF Turns, TalkTypes
  <2>4. \A d \in Checkouts : disk'[d] = disk[d] \/ disk'[d].time = clock + 1
    BY <1>2, <2>2 DEF Turns, TalkTypes, Replaced
  <2> QED BY <2>1, <2>2, <2>3, <2>4, ChangeRetry
<1>5. CASE OtherProgram
  <2>1. Turns'
    BY <1>1, <1>2, <1>5, SilentTurns
  <2>2. /\ clock' = clock + 1 /\ UNCHANGED <<agent, transcript, at>>
        /\ \A d \in Checkouts : disk'[d] = disk[d] \/ disk'[d].time = clock + 1
    BY <1>2, <1>5, OthersWrite DEF Turns
  <2> QED BY <2>1, <2>2, ChangeRetry
<1>6. CASE ReadUnchanged
  <2>1. PICK text : /\ Answer(Head(todo), TRUE, "unchanged", text, obs) /\ todo # <<>>
                    /\ Head(todo) \in Inputs /\ ExactReads(Head(todo)) # {}
                    /\ UNCHANGED <<disk, clock, messages>>
    BY <1>6 DEF ReadUnchanged, IsExactUnchangedRead
  <2>2. ~WasRefused(Len(transcript))
    BY <1>2, <2>1, RefusedIsNotExact DEF FilesAssumption
  <2> QED BY <1>1, <2>1, <2>2, AnswerRetry
<1>7. CASE ReadText
  <2>1. todo # <<>> /\ UNCHANGED <<disk, clock, messages>>
    BY <1>7 DEF ReadText
  <2>2. CASE disk[here].text = Absent
    <3>1. Answer(Head(todo), FALSE, "FILE_OPERATION_FAILED", Absent, obs)
      BY <1>7, <2>2 DEF ReadText
    <3> QED BY <1>1, <2>1, <3>1, AnswerRetry
  <2>3. CASE disk[here].text # Absent
    <3>1. Turns' /\ UNCHANGED <<transcript, obs, here>>
      BY <1>1, <1>2, <1>7, <2>3, SilentTurns
    <3>2. at'.text = disk[here].text
      BY <1>7, <2>3 DEF ReadText
    <3> QED BY <2>1, <3>1, <3>2, SilentRetry
  <2> QED BY <2>2, <2>3
<1>8. CASE ReadStat
  <2>1. todo # <<>> /\ UNCHANGED <<disk, clock, messages>> /\ at.step = "stat"
    BY <1>2, <1>8 DEF ReadStat, Turns, TalkTypes
  <2>2. CASE disk[here].text = Absent
    <3>1. Answer(Head(todo), FALSE, "FILE_OPERATION_FAILED", Absent, obs)
      BY <1>8, <2>2 DEF ReadStat
    <3> QED BY <1>1, <2>1, <3>1, AnswerRetry
  <2>3. CASE disk[here].text # Absent
    <3> DEFINE seen ==
          [text |-> at.text, time |-> disk[here].time, complete |-> Head(todo) = "whole"]
    <3>1. Answer(Head(todo), TRUE, "read", at.text, seen)
      BY <1>8, <2>3 DEF ReadStat
    <3>2. /\ seen.text = at.text /\ seen.time = disk[here].time
          /\ seen.complete = (Head(todo) = "whole")
      OBVIOUS
    <3> HIDE DEF seen
    <3>3. Len(transcript) > 0 /\ WasRefused(Len(transcript))
            /\ transcript[Len(transcript)].now = disk[here] => at.text = disk[here].text
      BY <2>1 DEF RetryInv
    <3> QED BY <1>1, <2>1, <3>1, <3>2, <3>3, AnswerRetry
  <2> QED BY <2>2, <2>3
<1>9. CASE Refuse
  <2>1. PICK code : /\ Answer("write", FALSE, code, Absent, obs)
                    /\ code = "REPOSITORY_INSTRUCTIONS_DISCOVERED" \/ code = GuardError(obs)
    BY <1>9 DEF Refuse
  <2>2. todo # <<>> /\ UNCHANGED <<disk, clock, messages>>
    BY <1>9 DEF Refuse
  <2> QED BY <1>1, <2>1, <2>2, AnswerRetry
<1>10. CASE EditFile
  <2>1. CASE /\ disk' = [disk EXCEPT ![here] = Replaced(Edited(@.text))]
             /\ clock' = clock + 1 /\ at' = [at EXCEPT !.step = "observe"]
             /\ UNCHANGED <<obs, batch, transcript, todo>>
    <3>1. at'.step = "observe"
      BY <1>2, <2>1 DEF Turns, TalkTypes
    <3>2. Turns' /\ UNCHANGED <<transcript, obs, here>>
      BY <1>1, <1>2, <1>10, <2>1, <3>1, SilentTurns
    <3>3. \A d \in Checkouts : disk'[d] = disk[d] \/ disk'[d].time = clock + 1
      BY <1>2, <2>1 DEF Turns, TalkTypes, Replaced
    <3> QED BY <2>1, <3>1, <3>2, <3>3, ChangeRetry
  <2>2. CASE /\ Answer("write", FALSE, "FILE_OPERATION_FAILED", Absent, obs)
             /\ UNCHANGED file
    <3>1. todo # <<>> /\ UNCHANGED <<disk, clock, messages>>
      BY <1>2, <1>10, <2>2 DEF EditFile, Turns, TalkTypes
    <3> QED BY <1>1, <2>2, <3>1, AnswerRetry
  <2> QED BY <1>10, <2>1, <2>2 DEF EditFile
<1>11. CASE ObserveWritten
  <2>1. todo # <<>> /\ UNCHANGED <<disk, clock, messages>>
    BY <1>2, <1>11 DEF ObserveWritten, Turns, TalkTypes
  <2>2. \E ok \in BOOLEAN, code \in {"none", "FILE_OPERATION_FAILED"} : \E seen :
          Answer("write", ok, code, Absent, seen)
    BY <1>11 DEF ObserveWritten
  <2> QED BY <1>1, <2>1, <2>2, AnswerRetry
<1>12. CASE Move
  <2>1. Answer("move", TRUE, "none", Absent, None) /\ todo # <<>>
        /\ UNCHANGED <<disk, clock, messages>>
    BY <1>12 DEF Move
  <2> QED BY <1>1, <2>1, AnswerRetry
<1> QED BY <1>3, <1>4, <1>5, <1>6, <1>7, <1>8, <1>9, <1>10, <1>11, <1>12 DEF Next

(* "Read it first", "read it again": if a message's only call was a write  *)
(* that was refused, the next message reads the file whole and nobody      *)
(* changes it, a write is not refused for what is known of the file        *)
(* (_existing_file_guard, _is_exact_unchanged_read), with pages and        *)
(* messages of several calls before and whatever other programs do in      *)
(* between.                                                                *)
THEOREM RetriesAreAccepted ==
  ASSUME FilesAssumption
  PROVE  Spec => []RetryIsAccepted
<1>1. Init => RetryInv
  <2> SUFFICES ASSUME Init PROVE RetryInv
    OBVIOUS
  <2>1. transcript = <<>> /\ obs = None /\ \A d \in Checkouts : disk[d].time <= clock
    BY TalkInit DEF Init
  <2> QED BY <2>1, TurnsInit DEF RetryInv, RetryIsAccepted
<1>2. RetryInv => RetryIsAccepted
  BY DEF RetryInv
<1> QED BY <1>1, <1>2, RetryStep, PTL DEF Spec

-----------------------------------------------------------------------------
(* What an Agent must have shown.                                          *)

CONSTANTS MaxResults, Contents, Children, Validations, Profiles, Observed, MayShare
VARIABLES files, log
Evidence == INSTANCE CompletionEvidence

(* A set of numbers up to n has a greatest one.                            *)
LEMMA GreatestExists ==
  ASSUME NEW n \in Nat, NEW S, S \subseteq 0 .. n, S # {}
  PROVE  \E x \in S : \A y \in S : y <= x
<1> DEFINE back == {n - i : i \in S}
<1>0. \A i \in S : i \in Nat /\ i <= n
  OBVIOUS
<1>1. back \subseteq Nat
  BY <1>0
<1>2. back # {}
  OBVIOUS
<1> HIDE DEF back
<1>3. PICK e \in back : \A y \in back : ~(<<y, e>> \in OpToRel(<, Nat))
  BY <1>1, <1>2, WFMin, NatLessThanWellFounded
<1>4. \A y \in back : ~(y < e)
  BY <1>1, <1>3 DEF OpToRel
<1>5. PICK i \in S : e = n - i
  BY DEF back
<1>6. \A j \in S : j <= i
  <2> SUFFICES ASSUME NEW j \in S PROVE j <= i
    OBVIOUS
  <2>1. n - j \in back
    BY DEF back
  <2>2. ~(n - j < n - i)
    BY <1>4, <1>5, <2>1
  <2> QED BY <1>0, <2>2
<1> QED BY <1>6

(* What the results of the transcript tell apart.                          *)
EvidenceTools ==
  {"write", "test", "lint", "waiver", "partial_waiver", "report", "diff", "plan", "draft"}
Verdicts == {"PASS", "FAIL", "PARTIAL", "none"}
EvidenceResults ==
  [at : Nat, tool : EvidenceTools, fp : Nat, child : Nat, verdict : Verdicts]
EvidenceEntries == [tool : EvidenceTools, child : Nat, verdict : Verdicts]

(* Messages are numbered from 1 and do not go back.                        *)
ResultsInOrder ==
  /\ files \in Nat /\ log \in Seq(EvidenceResults)
  /\ \A i \in 1 .. Len(log) : log[i].at > 0
  /\ \A i, j \in 1 .. Len(log) : i < j => log[i].at <= log[j].at

(* A tool adds a result to the last message or opens a new one.            *)
LEMMA ResultRecorded ==
  ASSUME ResultsInOrder, files' \in Nat, NEW entry \in EvidenceEntries, NEW shared,
         Evidence!Record(entry, shared)
  PROVE  ResultsInOrder'
<1> DEFINE n == Len(log)
           last == IF log = <<>> THEN 0 ELSE log[Len(log)].at
           r == [at |-> IF shared THEN last ELSE last + 1, tool |-> entry.tool,
                 fp |-> files', child |-> entry.child, verdict |-> entry.verdict]
<1>1. log' = Append(log, r) /\ (shared => log # <<>>)
  BY DEF Evidence!Record
<1>2. n \in Nat /\ log \in Seq(EvidenceResults)
  BY DEF ResultsInOrder
<1>3. \A i \in 1 .. n : log[i] \in EvidenceResults /\ log[i].at \in Nat
  <2>1. \A i \in 1 .. n : log[i] \in EvidenceResults
    BY <1>2
  <2> QED BY <2>1 DEF EvidenceResults
<1>4. last \in Nat /\ (log # <<>> => last > 0) /\ \A i \in 1 .. n : log[i].at <= last
  <2>1. CASE log = <<>>
    BY <2>1
  <2>2. CASE log # <<>>
    <3>1. n \in 1 .. n /\ last = log[n].at
      BY <1>2, <2>2
    <3>2. \A i \in 1 .. n : i = n \/ i < n
      BY <1>2
    <3> HIDE DEF n, last
    <3>3. last \in Nat
      BY <1>3, <3>1
    <3>4. \A i \in 1 .. n : log[i].at <= last
      BY <1>3, <3>1, <3>2, <3>3 DEF ResultsInOrder, n
    <3> QED BY <3>1, <3>3, <3>4 DEF ResultsInOrder, n
  <2> QED BY <2>1, <2>2
<1> HIDE DEF last
<1>5. r.at \in Nat /\ r.at > 0 /\ \A i \in 1 .. n : log[i].at <= r.at
  <2>1. r.at = IF shared THEN last ELSE last + 1
    OBVIOUS
  <2> HIDE DEF r, n
  <2> QED BY <1>1, <1>3, <1>4, <2>1
<1>6. r \in EvidenceResults
  <2>1. (IF shared THEN last ELSE last + 1) \in Nat
    BY <1>4
  <2> QED BY <2>1 DEF EvidenceResults, EvidenceEntries
<1> HIDE DEF r
<1>7. /\ log' \in Seq(EvidenceResults) /\ Len(log') = n + 1 /\ log'[n + 1] = r
      /\ \A i \in 1 .. n : log'[i] = log[i]
  BY <1>1, <1>2, <1>6, AppendProperties
<1>8. \A i \in 1 .. n + 1 : log'[i].at > 0
  BY <1>2, <1>5, <1>7 DEF ResultsInOrder
<1>9. ASSUME NEW i \in 1 .. n + 1, NEW j \in 1 .. n + 1, i < j
      PROVE  log'[i].at <= log'[j].at
  <2>1. i \in 1 .. n /\ log'[i] = log[i]
    BY <1>2, <1>7, <1>9
  <2>2. CASE j = n + 1
    BY <1>5, <1>7, <2>1, <2>2
  <2>3. CASE j # n + 1
    <3>1. j \in 1 .. n /\ log'[j] = log[j]
      BY <1>2, <1>7, <2>3
    <3> QED BY <1>9, <2>1, <3>1 DEF ResultsInOrder
  <2> QED BY <2>2, <2>3
<1> QED BY <1>7, <1>8, <1>9 DEF ResultsInOrder

(* Every tool keeps the order of the results.                              *)
LEMMA EvidenceNext ==
  ASSUME Evidence!EvidenceAssumption, ResultsInOrder, [Evidence!Next]_Evidence!vars
  PROVE  ResultsInOrder'
<1>1. \A tool \in EvidenceTools : Evidence!Plain(tool) \in EvidenceEntries
  BY DEF Evidence!Plain, EvidenceEntries, Verdicts
<1>2. CASE UNCHANGED Evidence!vars
  BY <1>2 DEF Evidence!vars, ResultsInOrder
<1>3. ASSUME NEW content \in Contents, NEW shared \in BOOLEAN, Evidence!Write(content, shared)
      PROVE  ResultsInOrder'
  <2>1. files' \in Nat /\ Evidence!Record(Evidence!Plain("write"), shared)
    BY <1>3 DEF Evidence!Write, Evidence!EvidenceAssumption
  <2>2. "write" \in EvidenceTools
    BY DEF EvidenceTools
  <2> QED BY <1>1, <2>1, <2>2, ResultRecorded
<1>4. ASSUME NEW command \in Evidence!Commands, NEW content \in Contents, NEW shared \in BOOLEAN,
             Evidence!Bash(command, content, shared)
      PROVE  ResultsInOrder'
  <2>1. files' \in Nat /\ Evidence!Record(Evidence!Plain(command), shared)
    BY <1>4 DEF Evidence!Bash, Evidence!EvidenceAssumption
  <2>2. command \in EvidenceTools
    BY DEF Evidence!Commands, EvidenceTools
  <2> QED BY <1>1, <2>1, <2>2, ResultRecorded
<1>5. ASSUME NEW content \in Contents, Evidence!ChangeOnly(content)
      PROVE  ResultsInOrder'
  BY <1>5 DEF Evidence!ChangeOnly, Evidence!EvidenceAssumption, ResultsInOrder
<1>6. ASSUME NEW shared \in BOOLEAN,
             Evidence!Waive(shared) \/ Evidence!Diff(shared) \/ Evidence!SubmitPlan(shared)
               \/ Evidence!SubmitDraft(shared)
      PROVE  ResultsInOrder'
  <2>1. PICK tool \in EvidenceTools : Evidence!Record(Evidence!Plain(tool), shared)
    <3>1. {"waiver", "diff", "plan", "draft"} \subseteq EvidenceTools
      BY DEF EvidenceTools
    <3> QED BY <1>6, <3>1
      DEF Evidence!Waive, Evidence!Diff, Evidence!SubmitPlan, Evidence!SubmitDraft
  <2>2. files' \in Nat
    BY <1>6 DEF Evidence!Waive, Evidence!Diff, Evidence!SubmitPlan, Evidence!SubmitDraft, ResultsInOrder
  <2> QED BY <1>1, <2>1, <2>2, ResultRecorded
<1>7. ASSUME NEW child \in Children, NEW shared \in BOOLEAN, Evidence!WaivePartial(child, shared)
      PROVE  ResultsInOrder'
  <2> DEFINE entry == [tool |-> "partial_waiver", child |-> child, verdict |-> "none"]
  <2>1. files' \in Nat /\ Evidence!Record(entry, shared)
    BY <1>7 DEF Evidence!WaivePartial, ResultsInOrder
  <2>2. entry \in EvidenceEntries
    BY DEF Evidence!EvidenceAssumption, EvidenceEntries, EvidenceTools, Verdicts
  <2> HIDE DEF entry
  <2> QED BY <2>1, <2>2, ResultRecorded
<1>8. ASSUME NEW child \in Children, NEW verdict \in {"PASS", "FAIL", "PARTIAL"},
             NEW shared \in BOOLEAN, Evidence!Verify(child, verdict, shared)
      PROVE  ResultsInOrder'
  <2> DEFINE entry == [tool |-> "report", child |-> child, verdict |-> verdict]
  <2>1. files' \in Nat /\ Evidence!Record(entry, shared)
    BY <1>8 DEF Evidence!Verify, ResultsInOrder
  <2>2. entry \in EvidenceEntries
    BY DEF Evidence!EvidenceAssumption, EvidenceEntries, EvidenceTools, Verdicts
  <2> HIDE DEF entry
  <2> QED BY <2>1, <2>2, ResultRecorded
<1> QED
  BY <1>2, <1>3, <1>4, <1>5, <1>6, <1>7, <1>8 DEF Evidence!Next

(* A Session begins without results.                                       *)
LEMMA EvidenceInit == Evidence!EvidenceAssumption /\ Evidence!Init => ResultsInOrder
BY DEF Evidence!EvidenceAssumption, Evidence!Init, ResultsInOrder

-----------------------------------------------------------------------------
(* The latest result.                                                      *)

(* b is at least as late as a: in a later message, or not smaller.         *)
AsLate(a, b, tie) == a.at < b.at \/ (a.at = b.at /\ a[tie] <= b[tie])

(* All results.                                                            *)
EvidenceLog == {log[i] : i \in 1 .. Len(log)}

(* Among results there is one that max() may choose, and then it does.     *)
LEMMA LatestIsOne ==
  ASSUME ResultsInOrder, NEW tie \in {"fp", "child"},
         NEW items, items \subseteq EvidenceLog, items # {}
  PROVE  /\ Evidence!Latest(items, tie) \in items
         /\ \A o \in items : AsLate(o, Evidence!Latest(items, tie), tie)
<1> DEFINE n == Len(log)
           Upto(k) == {e \in items : \E i \in 1 .. k : e = log[i]}
           Best(k) == \E e \in Upto(k) : \A o \in Upto(k) : AsLate(o, e, tie)
           Bad == {k \in 0 .. n : Upto(k) # {} /\ ~Best(k)}
<1>1. n \in Nat /\ \A i \in 1 .. n : log[i] \in EvidenceResults
  BY DEF ResultsInOrder
<1>2. \A e \in items : e.at \in Nat /\ e[tie] \in Nat
  <2> SUFFICES ASSUME NEW e \in items PROVE e.at \in Nat /\ e[tie] \in Nat
    OBVIOUS
  <2>1. e \in EvidenceResults
    BY <1>1 DEF EvidenceLog
  <2>2. e.fp \in Nat /\ e.child \in Nat /\ e.at \in Nat
    BY <2>1 DEF EvidenceResults
  <2> QED BY <2>2
<1>3. Upto(n) = items
  BY DEF EvidenceLog
<1> HIDE DEF n
<1>4. Bad = {}
  <2> SUFFICES ASSUME Bad # {} PROVE FALSE
    OBVIOUS
  <2>1. Bad \subseteq Nat
    BY <1>1
  <2> HIDE DEF Bad
  <2>2. PICK k \in Bad : \A y \in Bad : ~(<<y, k>> \in OpToRel(<, Nat))
    BY <2>1, WFMin, NatLessThanWellFounded
  <2>3. \A y \in Bad : ~(y < k)
    BY <2>1, <2>2 DEF OpToRel
  <2>4. k \in 0 .. n /\ Upto(k) # {} /\ ~Best(k)
    BY DEF Bad
  <2>5. k # 0
    <3>1. 1 .. 0 = {}
      OBVIOUS
    <3> QED BY <2>4, <3>1
  <2>6. k \in 1 .. n /\ k - 1 \in 0 .. n /\ k - 1 < k
    BY <1>1, <2>4, <2>5
  <2>7. k - 1 \notin Bad
    BY <2>3, <2>6
  <2>8. \A e : e \in Upto(k) <=> e \in items /\ (e \in Upto(k - 1) \/ e = log[k])
    <3>1. 1 .. k = (1 .. k - 1) \cup {k}
      BY <2>6
    <3> QED BY <3>1
  <2>9. CASE Upto(k - 1) = {}
    <3>1. log[k] \in Upto(k) /\ \A o \in Upto(k) : o = log[k]
      BY <2>4, <2>8, <2>9
    <3>2. AsLate(log[k], log[k], tie)
      BY <1>2, <3>1 DEF AsLate
    <3> QED BY <2>4, <3>1, <3>2
  <2>10. CASE Upto(k - 1) # {}
    <3>1. PICK e \in Upto(k - 1) : \A o \in Upto(k - 1) : AsLate(o, e, tie)
      BY <2>6, <2>7, <2>10 DEF Bad
    <3>2. e \in Upto(k) /\ e \in items
      BY <2>8
    <3>3. CASE log[k] \notin items
      BY <2>4, <2>8, <3>1, <3>2, <3>3
    <3>4. CASE log[k] \in items
      <4>1. log[k] \in Upto(k)
        BY <2>8, <3>4
      <4>2. CASE AsLate(log[k], e, tie)
        BY <2>4, <2>8, <3>1, <3>2, <4>2
      <4>3. CASE ~AsLate(log[k], e, tie)
        <5>1. AsLate(e, log[k], tie) /\ AsLate(log[k], log[k], tie)
          BY <1>2, <3>2, <3>4, <4>3 DEF AsLate
        <5>2. \A o \in Upto(k - 1) : AsLate(o, log[k], tie)
          BY <1>2, <3>1, <3>2, <3>4, <5>1 DEF AsLate
        <5> QED BY <2>4, <2>8, <4>1, <5>1, <5>2
      <4> QED BY <4>2, <4>3
    <3> QED BY <3>3, <3>4
  <2> QED BY <2>9, <2>10
<1>5. \E e \in items : \A o \in items : AsLate(o, e, tie)
  <2>1. n \in 0 .. n
    BY <1>1
  <2> QED BY <1>3, <1>4, <2>1
<1> QED BY <1>5 DEF Evidence!Latest, AsLate

(* Without results there is none, which no result is.                      *)
LEMMA LatestIsSome ==
  ASSUME ResultsInOrder, NEW tie \in {"fp", "child"}, NEW items, items \subseteq EvidenceLog
  PROVE  /\ Evidence!Latest(items, tie) = Evidence!None <=> items = {}
         /\ Evidence!None \notin EvidenceLog
<1>1. Evidence!None \notin EvidenceLog
  BY DEF Evidence!None, EvidenceLog, ResultsInOrder
<1>2. items = {} => Evidence!Latest(items, tie) = Evidence!None
  BY DEF Evidence!Latest
<1> QED BY <1>1, <1>2, LatestIsOne

(* The results of some tools are those of the transcript.                  *)
LEMMA EntriesAreLogged ==
  ASSUME NEW tools
  PROVE  /\ Evidence!Entries(tools) \subseteq EvidenceLog
         /\ \A e \in Evidence!Entries(tools) : \E i \in 1 .. Len(log) : e = log[i] /\ log[i].tool \in tools
         /\ \A i \in 1 .. Len(log) : log[i].tool \in tools => log[i] \in Evidence!Entries(tools)
BY DEF Evidence!Entries, EvidenceLog

(* The latest result of some tools is somewhere in the transcript.         *)
LEMMA LatestIsLogged ==
  ASSUME ResultsInOrder, NEW tie \in {"fp", "child"}, NEW tools,
         Evidence!Latest(Evidence!Entries(tools), tie) # Evidence!None
  PROVE  \E i \in 1 .. Len(log) :
           Evidence!Latest(Evidence!Entries(tools), tie) = log[i] /\ log[i].tool \in tools
BY EntriesAreLogged, LatestIsSome, LatestIsOne

(* A result in an earlier message comes first.                             *)
LEMMA EarlierComesFirst ==
  ASSUME ResultsInOrder, NEW i \in 1 .. Len(log), NEW j \in 1 .. Len(log), log[i].at < log[j].at
  PROVE  i < j
<1>1. Len(log) \in Nat /\ \A k \in 1 .. Len(log) : log[k] \in EvidenceResults
  BY DEF ResultsInOrder
<1>2. log[i].at \in Nat /\ log[j].at \in Nat
  BY <1>1 DEF EvidenceResults
<1>3. ASSUME ~(i < j) PROVE FALSE
  <2>1. i = j \/ j < i
    BY <1>1, <1>3
  <2>2. log[j].at <= log[i].at
    BY <1>2, <2>1 DEF ResultsInOrder
  <2> QED BY <1>2, <2>2
<1> QED BY <1>3

(* What is accepted as a test.                                             *)
LEMMA PrimaryIsTest ==
  ASSUME ResultsInOrder, NEW needs, ~Evidence!TestMissing(needs)
  PROVE  \E t \in 1 .. Len(log) :
           /\ Evidence!Primary(needs) = log[t] /\ log[t].fp = files
           /\ \/ log[t].tool = "test"
              \/ log[t].tool = "waiver" /\ "successful_test" \in needs.waivable
<1> DEFINE tools == IF "successful_test" \in needs.waivable THEN {"test", "waiver"} ELSE {"test"}
<1>1. Evidence!Primary(needs) = Evidence!Latest(Evidence!Entries(tools), "fp")
  BY DEF Evidence!Primary
<1>2. Evidence!Primary(needs).fp = files /\ files \in Nat
  BY DEF Evidence!TestMissing, ResultsInOrder
<1>3. Evidence!Primary(needs) # Evidence!None
  BY <1>2 DEF Evidence!None
<1>4. PICK t \in 1 .. Len(log) : Evidence!Primary(needs) = log[t] /\ log[t].tool \in tools
  <2> HIDE DEF tools
  <2> QED BY <1>1, <1>3, LatestIsLogged
<1> QED BY <1>2, <1>4

(* The last report, and what may take its place.                           *)
LEMMA ReportIsLast ==
  ASSUME ResultsInOrder, Evidence!Report # Evidence!None
  PROVE  \E r \in 1 .. Len(log) :
           /\ Evidence!Report = log[r] /\ log[r].tool = "report"
           /\ \A k \in 1 .. Len(log) : log[k].tool = "report" => log[k].at <= log[r].at
<1> DEFINE items == Evidence!Entries({"report"})
<1>1. Evidence!Report = Evidence!Latest(items, "child")
  BY DEF Evidence!Report
<1>2. items \subseteq EvidenceLog /\ items # {}
  BY <1>1, EntriesAreLogged, LatestIsSome
<1>3. Evidence!Report \in items /\ \A o \in items : AsLate(o, Evidence!Report, "child")
  BY <1>1, <1>2, LatestIsOne
<1>4. PICK r \in 1 .. Len(log) : Evidence!Report = log[r] /\ log[r].tool \in {"report"}
  BY <1>3, EntriesAreLogged
<1>5. ASSUME NEW k \in 1 .. Len(log), log[k].tool = "report" PROVE log[k].at <= log[r].at
  <2>1. log[k] \in items
    BY <1>5, EntriesAreLogged
  <2>2. log[k] \in EvidenceResults /\ log[r] \in EvidenceResults
    BY DEF ResultsInOrder
  <2>3. log[k].at \in Nat /\ log[r].at \in Nat
    BY <2>2 DEF EvidenceResults
  <2> QED BY <1>3, <1>4, <2>1, <2>3 DEF AsLate
<1> QED BY <1>4, <1>5

(* What is accepted as independent verification: a report that passes, or  *)
(* the waiver of the last, partial one.                                    *)
LEMMA IndependentIsVerified ==
  ASSUME ResultsInOrder, NEW needs, Evidence!Independent(needs) # Evidence!None
  PROVE  \E v \in 1 .. Len(log) :
           /\ Evidence!Independent(needs) = log[v]
           /\ \/ log[v].tool = "report" /\ log[v].verdict = "PASS"
              \/ /\ log[v].tool = "partial_waiver"
                 /\ "independent_verification" \in needs.waivable
                 /\ \E r \in 1 .. (v - 1) :
                      /\ log[r].tool = "report" /\ log[r].verdict = "PARTIAL"
                      /\ log[r].child = log[v].child
                      /\ \A k \in 1 .. Len(log) :
                           k > r /\ log[k].tool = "report" => log[k].at = log[r].at
<1> DEFINE passed == IF Evidence!Report # Evidence!None /\ Evidence!Report.verdict = "PASS"
                       THEN {Evidence!Report} ELSE {}
           waived == IF "independent_verification" \in needs.waivable
                       THEN Evidence!PartialWaivers ELSE {}
           items == passed \union waived
           l == Evidence!Independent(needs)
<1>1. l = Evidence!Latest(items, "fp")
  BY DEF Evidence!Independent
<1>2. passed \subseteq EvidenceLog
  BY ReportIsLast DEF EvidenceLog
<1>3. waived \subseteq EvidenceLog
  BY EntriesAreLogged DEF Evidence!PartialWaivers
<1>4. l \in items
  <2>1. items \subseteq EvidenceLog
    BY <1>2, <1>3
  <2> HIDE DEF items
  <2> QED BY <1>1, <2>1, LatestIsSome, LatestIsOne
<1> HIDE DEF l
<1>5. CASE l \in passed
  BY <1>5, ReportIsLast DEF l
<1>6. CASE l \in waived
  <2>1. /\ "independent_verification" \in needs.waivable /\ l \in Evidence!Entries({"partial_waiver"})
        /\ Evidence!Report # Evidence!None /\ Evidence!Report.verdict = "PARTIAL"
        /\ l.at > Evidence!Report.at /\ l.child = Evidence!Report.child
    BY <1>6 DEF Evidence!PartialWaivers
  <2>2. PICK v \in 1 .. Len(log) : l = log[v] /\ log[v].tool \in {"partial_waiver"}
    BY <2>1, EntriesAreLogged
  <2>3. PICK r \in 1 .. Len(log) :
           /\ Evidence!Report = log[r] /\ log[r].tool = "report"
           /\ \A k \in 1 .. Len(log) : log[k].tool = "report" => log[k].at <= log[r].at
    BY <2>1, ReportIsLast
  <2>4. log[v] \in EvidenceResults /\ log[r] \in EvidenceResults /\ Len(log) \in Nat
    BY DEF ResultsInOrder
  <2>5. log[v].at \in Nat /\ log[r].at \in Nat
    BY <2>4 DEF EvidenceResults
  <2>6. r < v
    <3>1. log[r].at < log[v].at
      BY <2>1, <2>2, <2>3, <2>5
    <3> QED BY <3>1, EarlierComesFirst
  <2>7. ASSUME NEW k \in 1 .. Len(log), k > r, log[k].tool = "report" PROVE log[k].at = log[r].at
    <3>1. log[k] \in EvidenceResults
      BY DEF ResultsInOrder
    <3>2. log[k].at \in Nat
      BY <3>1 DEF EvidenceResults
    <3>3. r < k
      BY <2>7
    <3>4. log[r].at <= log[k].at
      BY <3>3 DEF ResultsInOrder
    <3> QED BY <2>3, <2>5, <2>7, <3>2, <3>4
  <2>8. r \in 1 .. (v - 1)
    BY <2>4, <2>6
  <2> QED BY <2>1, <2>2, <2>3, <2>7, <2>8 DEF l
<1> QED BY <1>4, <1>5, <1>6

(* What a run may stop on, for any contents, commands, profiles and        *)
(* answers, and any number of results in a message (CompletionEvaluator):  *)
(* a test, a verification, a snapshot and a draft in this order, each of   *)
(* the workspace as it is.                                                 *)
THEOREM AcceptedIsInOrder ==
  ASSUME Evidence!EvidenceAssumption
  PROVE  Evidence!Spec => []Evidence!AcceptedInOrder
<1>1. ASSUME ResultsInOrder, NEW needs, Evidence!Accepts(needs),
             {"successful_test", "independent_verification",
              "git_change_snapshot", "delivery_draft"} \subseteq needs.required
      PROVE  \E t, v, s, d \in 1 .. Len(log) :
               /\ t < v /\ v < s /\ s < d
               /\ \/ Evidence!Holds(t, {"test"})
                  \/ Evidence!Holds(t, {"waiver"}) /\ "successful_test" \in needs.waivable
               /\ \/ Evidence!Holds(v, {"report"}) /\ log[v].verdict = "PASS"
                  \/ /\ Evidence!Holds(v, {"partial_waiver"})
                     /\ "independent_verification" \in needs.waivable
                     /\ \E r \in 1 .. (v - 1) :
                          /\ log[r].tool = "report" /\ log[r].verdict = "PARTIAL"
                          /\ log[r].child = log[v].child
                          /\ \A k \in 1 .. Len(log) :
                               (k > r /\ log[k].tool = "report") => log[k].at = log[r].at
               /\ Evidence!Holds(s, {"diff"}) /\ files # 0
               /\ Evidence!Holds(d, {"draft"})
  <2>1. /\ ~Evidence!TestMissing(needs) /\ ~Evidence!VerificationMissing(needs)
        /\ ~Evidence!SnapshotMissing(needs) /\ ~Evidence!DraftMissing
    BY <1>1 DEF Evidence!Accepts, Evidence!Missing
  <2>2. PICK t \in 1 .. Len(log) :
          /\ Evidence!Primary(needs) = log[t] /\ log[t].fp = files
          /\ \/ log[t].tool = "test"
             \/ log[t].tool = "waiver" /\ "successful_test" \in needs.waivable
    BY <1>1, <2>1, PrimaryIsTest
  <2>3. PICK v \in 1 .. Len(log) :
          /\ Evidence!Independent(needs) = log[v]
          /\ \/ log[v].tool = "report" /\ log[v].verdict = "PASS"
             \/ /\ log[v].tool = "partial_waiver"
                /\ "independent_verification" \in needs.waivable
                /\ \E r \in 1 .. (v - 1) :
                     /\ log[r].tool = "report" /\ log[r].verdict = "PARTIAL"
                     /\ log[r].child = log[v].child
                     /\ \A k \in 1 .. Len(log) :
                          k > r /\ log[k].tool = "report" => log[k].at = log[r].at
    BY <1>1, <2>1, IndependentIsVerified DEF Evidence!VerificationMissing
  <2>4. PICK s \in 1 .. Len(log) : Evidence!Snapshot = log[s] /\ log[s].tool \in {"diff"}
    BY <1>1, <2>1, LatestIsLogged DEF Evidence!SnapshotMissing, Evidence!Snapshot
  <2>5. PICK d \in 1 .. Len(log) : Evidence!Draft = log[d] /\ log[d].tool \in {"draft"}
    BY <1>1, <2>1, LatestIsLogged DEF Evidence!DraftMissing, Evidence!Draft
  <2>6. /\ log[t] \in EvidenceResults /\ log[v] \in EvidenceResults
        /\ log[s] \in EvidenceResults /\ log[d] \in EvidenceResults
    BY <1>1 DEF ResultsInOrder
  <2>7. /\ log[t].at \in Nat /\ log[v].at \in Nat /\ log[s].at \in Nat /\ log[d].at \in Nat
    BY <2>6 DEF EvidenceResults
  <2>8. log[t].at < log[v].at /\ log[v].at < log[s].at /\ log[s].at < log[d].at
    BY <2>1, <2>2, <2>3, <2>4, <2>5, <2>7
      DEF Evidence!VerificationMissing, Evidence!SnapshotMissing, Evidence!DraftMissing
  <2>9. t < v /\ v < s /\ s < d
    BY <1>1, <2>8, EarlierComesFirst
  <2>10. log[v].fp = files /\ log[s].fp = files /\ files # 0 /\ log[d].fp = files
    BY <2>1, <2>3, <2>4, <2>5
      DEF Evidence!VerificationMissing, Evidence!SnapshotMissing, Evidence!DraftMissing
  <2>11. \/ Evidence!Holds(t, {"test"})
         \/ Evidence!Holds(t, {"waiver"}) /\ "successful_test" \in needs.waivable
    BY <2>2 DEF Evidence!Holds
  <2>12. Evidence!Holds(s, {"diff"}) /\ Evidence!Holds(d, {"draft"})
    BY <2>4, <2>5, <2>10 DEF Evidence!Holds
  <2>13. /\ log[v].tool = "report" => Evidence!Holds(v, {"report"})
         /\ log[v].tool = "partial_waiver" => Evidence!Holds(v, {"partial_waiver"})
    BY <2>10 DEF Evidence!Holds
  <2> QED BY <2>3, <2>9, <2>10, <2>11, <2>12, <2>13
<1>2. ResultsInOrder => Evidence!AcceptedInOrder
  BY <1>1 DEF Evidence!AcceptedInOrder
<1> QED BY <1>2, EvidenceInit, EvidenceNext, PTL DEF Evidence!Spec

(* The last index of a tool.                                               *)
LEMMA LastIndexIsLast ==
  ASSUME ResultsInOrder, NEW tool
  PROVE  \/ /\ Evidence!LastIndex(tool) = 0
            /\ \A i \in 1 .. Len(log) : log[i].tool # tool
         \/ /\ Evidence!LastIndex(tool) \in 1 .. Len(log)
            /\ log[Evidence!LastIndex(tool)].tool = tool
            /\ \A i \in 1 .. Len(log) : log[i].tool = tool => i <= Evidence!LastIndex(tool)
<1> DEFINE places == {i \in 1 .. Len(log) : log[i].tool = tool}
           last == CHOOSE i \in places : \A k \in places : k <= i
<1>1. Evidence!LastIndex(tool) = IF places = {} THEN 0 ELSE last
  BY DEF Evidence!LastIndex
<1>2. CASE places = {}
  BY <1>1, <1>2
<1>3. CASE places # {}
  <2>1. Len(log) \in Nat
    BY DEF ResultsInOrder
  <2>2. places \subseteq 0 .. Len(log)
    BY <2>1
  <2>3. \E i \in places : \A k \in places : k <= i
    <3> HIDE DEF places
    <3> QED BY <1>3, <2>1, <2>2, GreatestExists
  <2>4. last \in places /\ \A k \in places : k <= last
    <3> HIDE DEF places
    <3> QED BY <2>3
  <2> HIDE DEF last
  <2> QED BY <1>1, <1>3, <2>4
<1> QED BY <1>2, <1>3

(* No later message than that of the last write holds one.                 *)
LEMMA WritesAreBefore ==
  ASSUME ResultsInOrder, NEW k \in 1 .. Len(log), log[k].tool = "write"
  PROVE  Evidence!LastWrite \in Nat /\ log[k].at <= Evidence!LastWrite
<1> DEFINE w == Evidence!LastIndex("write")
<1>1. w \in 1 .. Len(log) /\ k <= w
  BY LastIndexIsLast
<1>2. log[k] \in EvidenceResults /\ log[w] \in EvidenceResults /\ w # 0 /\ Len(log) \in Nat
  BY <1>1 DEF ResultsInOrder
<1>3. Evidence!LastWrite = log[w].at
  BY <1>2 DEF Evidence!LastWrite
<1> HIDE DEF w
<1>4. log[k].at \in Nat /\ log[w].at \in Nat
  BY <1>2 DEF EvidenceResults
<1>5. k = w \/ k < w
  BY <1>1, <1>2
<1> QED BY <1>1, <1>3, <1>4, <1>5 DEF ResultsInOrder

(* Where tests are demanded, every configured command succeeded on the     *)
(* files as they are, after the last write, whatever may be waived         *)
(* (_configured_validation_reasons), and the snapshot is younger than a    *)
(* test of these files or, where the profile allows it, its waiver.        *)
THEOREM ValidatedAfterWrites ==
  ASSUME Evidence!EvidenceAssumption
  PROVE  Evidence!Spec => []Evidence!ValidatedSinceWrite
<1>1. ASSUME ResultsInOrder, NEW needs \in Profiles, Evidence!Accepts(needs),
             "successful_test" \in needs.required
      PROVE  /\ \A command \in Validations :
                  \E i \in 1 .. Len(log) :
                    /\ Evidence!Holds(i, {command})
                    /\ \A k \in 1 .. Len(log) : log[k].tool = "write" => log[k].at < log[i].at
             /\ \E t \in 1 .. Len(log) :
                  /\ \/ Evidence!Holds(t, {"test"})
                     \/ Evidence!Holds(t, {"waiver"}) /\ "successful_test" \in needs.waivable
                  /\ "git_change_snapshot" \in needs.required =>
                       /\ files # 0
                       /\ \E s \in 1 .. Len(log) : Evidence!Holds(s, {"diff"}) /\ log[t].at < log[s].at
  <2>1. /\ ~Evidence!TestMissing(needs) /\ ~Evidence!ValidationMissing
        /\ "git_change_snapshot" \in needs.required => ~Evidence!SnapshotMissing(needs)
    BY <1>1 DEF Evidence!Accepts, Evidence!Missing
  <2>2. ASSUME NEW command \in Validations
        PROVE  \E i \in 1 .. Len(log) :
                 /\ Evidence!Holds(i, {command})
                 /\ \A k \in 1 .. Len(log) : log[k].tool = "write" => log[k].at < log[i].at
    <3> DEFINE i == Evidence!LastIndex(command)
    <3>1. i # 0 /\ ~(log[i].at <= Evidence!LastWrite) /\ log[i].fp = files
      BY <2>1 DEF Evidence!ValidationMissing
    <3>2. i \in 1 .. Len(log) /\ log[i].tool = command
      BY <1>1, <3>1, LastIndexIsLast
    <3> HIDE DEF i
    <3>3. ASSUME NEW k \in 1 .. Len(log), log[k].tool = "write" PROVE log[k].at < log[i].at
      <4>1. log[k] \in EvidenceResults /\ log[i] \in EvidenceResults
        BY <1>1, <3>2 DEF ResultsInOrder
      <4>2. log[k].at \in Nat /\ log[i].at \in Nat
        BY <4>1 DEF EvidenceResults
      <4> QED BY <1>1, <3>1, <3>3, <4>2, WritesAreBefore
    <3> QED BY <3>1, <3>2, <3>3 DEF Evidence!Holds
  <2>3. PICK t \in 1 .. Len(log) :
          /\ Evidence!Primary(needs) = log[t] /\ log[t].fp = files
          /\ \/ log[t].tool = "test"
             \/ log[t].tool = "waiver" /\ "successful_test" \in needs.waivable
    BY <1>1, <2>1, PrimaryIsTest
  <2>4. ASSUME "git_change_snapshot" \in needs.required
        PROVE  /\ files # 0
               /\ \E s \in 1 .. Len(log) : Evidence!Holds(s, {"diff"}) /\ log[t].at < log[s].at
    <3>1. PICK s \in 1 .. Len(log) : Evidence!Snapshot = log[s] /\ log[s].tool \in {"diff"}
      BY <1>1, <2>1, <2>4, LatestIsLogged DEF Evidence!SnapshotMissing, Evidence!Snapshot
    <3>2. log[s].fp = files /\ files # 0 /\ ~(log[s].at <= log[t].at)
      BY <2>1, <2>3, <2>4, <3>1 DEF Evidence!SnapshotMissing
    <3>3. log[s] \in EvidenceResults /\ log[t] \in EvidenceResults
      BY <1>1 DEF ResultsInOrder
    <3>4. log[t].at < log[s].at
      BY <3>2, <3>3 DEF EvidenceResults
    <3> QED BY <3>1, <3>2, <3>4 DEF Evidence!Holds
  <2>5. \/ Evidence!Holds(t, {"test"})
        \/ Evidence!Holds(t, {"waiver"}) /\ "successful_test" \in needs.waivable
    BY <2>3 DEF Evidence!Holds
  <2> QED BY <2>2, <2>4, <2>5
<1>2. ResultsInOrder => Evidence!ValidatedSinceWrite
  BY <1>1 DEF Evidence!ValidatedSinceWrite
<1> QED BY <1>2, EvidenceInit, EvidenceNext, PTL DEF Evidence!Spec

(* Merging does not depend on the order.                                   *)
LEMMA MergedEitherWay ==
  ASSUME NEW a, NEW b
  PROVE  Evidence!Tighten(a, b) = Evidence!Tighten(b, a)
<1>1. a.required \union b.required = b.required \union a.required
  OBVIOUS
<1>2. (a.waivable \union b.waivable) \ (Evidence!Strict(a) \union Evidence!Strict(b))
        = (b.waivable \union a.waivable) \ (Evidence!Strict(b) \union Evidence!Strict(a))
  OBVIOUS
<1> QED BY <1>1, <1>2 DEF Evidence!Tighten

(* When requirements of the application and of a Skill are merged          *)
(* (CompletionRequirements.tighten), the one that demands a test without   *)
(* a waiver gets it.                                                       *)
THEOREM StrictSideAlwaysDecides ==
  ASSUME Evidence!EvidenceAssumption
  PROVE  Evidence!Spec => []Evidence!StrictSideDecides
<1>1. ASSUME ResultsInOrder, NEW a \in Profiles, NEW b \in Profiles,
             Evidence!Accepts(Evidence!Tighten(a, b)),
             "successful_test" \in Evidence!Strict(a) \union Evidence!Strict(b)
      PROVE  /\ \E i \in 1 .. Len(log) : Evidence!Holds(i, {"test"})
             /\ Evidence!Accepts(Evidence!Tighten(b, a))
  <2> DEFINE needs == Evidence!Tighten(a, b)
  <2>1. "successful_test" \in needs.required /\ "successful_test" \notin needs.waivable
    BY <1>1 DEF Evidence!Tighten, Evidence!Strict
  <2> HIDE DEF needs
  <2>2. ~Evidence!TestMissing(needs)
    BY <1>1, <2>1 DEF Evidence!Accepts, Evidence!Missing, needs
  <2>3. \E i \in 1 .. Len(log) : Evidence!Holds(i, {"test"})
    BY <1>1, <2>1, <2>2, PrimaryIsTest DEF Evidence!Holds
  <2> QED BY <1>1, <2>3, MergedEitherWay
<1>2. ResultsInOrder => Evidence!StrictSideDecides
  BY <1>1 DEF Evidence!StrictSideDecides
<1> QED BY <1>2, EvidenceInit, EvidenceNext, PTL DEF Evidence!Spec

(* A result in a later message than all others is the latest.              *)
LEMMA LatestIsThat ==
  ASSUME ResultsInOrder, NEW tie \in {"fp", "child"},
         NEW items, items \subseteq EvidenceLog, NEW e \in items,
         \A o \in items : o = e \/ o.at < e.at
  PROVE  Evidence!Latest(items, tie) = e
<1> DEFINE l == Evidence!Latest(items, tie)
<1>1. l \in items /\ AsLate(e, l, tie)
  BY LatestIsOne
<1> HIDE DEF l
<1>2. l \in EvidenceResults /\ e \in EvidenceResults
  BY <1>1 DEF EvidenceLog, ResultsInOrder
<1>3. l.at \in Nat /\ e.at \in Nat
  BY <1>2 DEF EvidenceResults
<1>4. l = e
  BY <1>1, <1>3 DEF AsLate
<1> QED BY <1>4 DEF l

(* The last result of some tools is the latest if it is in a message of its *)
(* own.                                                                    *)
LEMMA LastOfTools ==
  ASSUME ResultsInOrder, NEW tie \in {"fp", "child"}, NEW tools, NEW p \in 1 .. Len(log),
         log[p].tool \in tools, \A i \in 1 .. Len(log) : i > p => log[i].tool \notin tools,
         \A i \in 1 .. Len(log) : i < p => log[i].at < log[p].at
  PROVE  Evidence!Latest(Evidence!Entries(tools), tie) = log[p]
<1> DEFINE items == Evidence!Entries(tools)
<1>1. items \subseteq EvidenceLog /\ log[p] \in items
  BY EntriesAreLogged
<1>2. ASSUME NEW o \in items PROVE o = log[p] \/ o.at < log[p].at
  <2>1. PICK i \in 1 .. Len(log) : o = log[i] /\ log[i].tool \in tools
    BY EntriesAreLogged
  <2>2. i = p \/ i < p \/ i > p
    BY DEF ResultsInOrder
  <2> QED BY <2>1, <2>2
<1> HIDE DEF items
<1>3. Evidence!Latest(items, tie) = log[p]
  BY <1>1, <1>2, LatestIsThat
<1> QED BY <1>3 DEF items

(* The steps the reasons of the gate ask for are enough: a run that ends   *)
(* with a passing test, a PASS, a snapshot of changed files and a draft,   *)
(* in messages of their own, is let go, whatever came before.              *)
THEOREM ChecklistAlwaysSuffices ==
  ASSUME Evidence!EvidenceAssumption
  PROVE  Evidence!Spec => []Evidence!ChecklistSuffices
<1>1. ASSUME ResultsInOrder, NEW needs \in Evidence!Merged, NEW n, n = Len(log),
             n >= 4, "issue_plan" \notin needs.required, files # 0,
             \A k \in 0 .. 3 : log[n - k].fp = files,
             log[n - 3].tool = "test", log[n - 2].tool = "report", log[n - 2].verdict = "PASS",
             log[n - 1].tool = "diff", log[n - 0].tool = "draft",
             log[n - 3].at < log[n - 2].at, log[n - 2].at < log[n - 1].at,
             log[n - 1].at < log[n - 0].at, n > 4 => log[n - 4].at < log[n - 3].at,
             Validations \subseteq {"test"}
      PROVE  Evidence!Accepts(needs)
  <2> DEFINE t == n - 3
             v == n - 2
             s == n - 1
  <2>1. /\ n \in Nat /\ t \in 1 .. n /\ v \in 1 .. n /\ s \in 1 .. n /\ n \in 1 .. n
        /\ t < v /\ v < s /\ s < n /\ \A i \in 1 .. n : i > t => i \in {v, s, n}
        /\ n - 0 = n
    BY <1>1 DEF ResultsInOrder
  <2>2. /\ log[t].fp = files /\ log[v].fp = files /\ log[s].fp = files /\ log[n].fp = files
    <3>1. 0 \in 0 .. 3 /\ 1 \in 0 .. 3 /\ 2 \in 0 .. 3 /\ 3 \in 0 .. 3
      OBVIOUS
    <3> QED BY <1>1, <2>1, <3>1
  <2>3. /\ log[t].tool = "test" /\ log[v].tool = "report" /\ log[v].verdict = "PASS"
        /\ log[s].tool = "diff" /\ log[n].tool = "draft"
        /\ log[t].at < log[v].at /\ log[v].at < log[s].at /\ log[s].at < log[n].at
    BY <1>1, <2>1
  <2>4. \A i \in 1 .. n : log[i].at \in Nat /\ log[i].fp \in Nat
    <3>1. \A i \in 1 .. n : log[i] \in EvidenceResults
      BY <1>1 DEF ResultsInOrder
    <3> QED BY <3>1 DEF EvidenceResults
  <2>5. ASSUME NEW i \in 1 .. n, i < t PROVE log[i].at < log[t].at
    <3>1. n > 4 /\ n - 4 \in 1 .. n /\ (i = n - 4 \/ i < n - 4)
      BY <2>1, <2>5
    <3>2. log[i].at <= log[n - 4].at
      BY <1>1, <2>4, <3>1 DEF ResultsInOrder
    <3>3. log[n - 4].at < log[t].at
      BY <1>1, <3>1
    <3>4. log[i].at \in Nat /\ log[n - 4].at \in Nat /\ log[t].at \in Nat
      BY <2>1, <2>4, <3>1
    <3> QED BY <3>2, <3>3, <3>4
  <2> HIDE DEF t, v, s
  <2>6. /\ \A i \in 1 .. n : i < v => log[i].at < log[v].at
        /\ \A i \in 1 .. n : i < s => log[i].at < log[s].at
        /\ \A i \in 1 .. n : i < n => log[i].at < log[n].at
    <3>1. \A i \in 1 .. n : i < t \/ i = t \/ i = v \/ i = s \/ i = n
      BY <2>1
    <3>2. \A i \in 1 .. n : i <= t => log[i].at <= log[t].at
      BY <2>1, <2>4, <2>5
    <3> QED BY <2>1, <2>3, <2>4, <3>1, <3>2
  <2>7. Evidence!Primary(needs) = log[t]
    <3> DEFINE tools == IF "successful_test" \in needs.waivable THEN {"test", "waiver"} ELSE {"test"}
    <3>1. log[t].tool \in tools /\ \A i \in 1 .. n : i > t => log[i].tool \notin tools
      BY <2>1, <2>3
    <3>2. Evidence!Primary(needs) = Evidence!Latest(Evidence!Entries(tools), "fp")
      BY DEF Evidence!Primary
    <3> HIDE DEF tools
    <3> QED BY <1>1, <2>1, <2>5, <3>1, <3>2, LastOfTools
  <2>8. Evidence!Report = log[v]
    <3> DEFINE tools == {"report"}
    <3>1. log[v].tool \in tools /\ \A i \in 1 .. n : i > v => log[i].tool \notin tools
      BY <2>1, <2>3
    <3>2. Evidence!Report = Evidence!Latest(Evidence!Entries(tools), "child")
      BY DEF Evidence!Report
    <3> HIDE DEF tools
    <3> QED BY <1>1, <2>1, <2>6, <3>1, <3>2, LastOfTools
  <2>9. Evidence!Snapshot = log[s]
    <3> DEFINE tools == {"diff"}
    <3>1. log[s].tool \in tools /\ \A i \in 1 .. n : i > s => log[i].tool \notin tools
      BY <2>1, <2>3
    <3>2. Evidence!Snapshot = Evidence!Latest(Evidence!Entries(tools), "fp")
      BY DEF Evidence!Snapshot
    <3> HIDE DEF tools
    <3> QED BY <1>1, <2>1, <2>6, <3>1, <3>2, LastOfTools
  <2>10. Evidence!Draft = log[n]
    <3> DEFINE tools == {"draft"}
    <3>1. log[n].tool \in tools /\ \A i \in 1 .. n : i > n => log[i].tool \notin tools
      BY <2>1, <2>3
    <3>2. Evidence!Draft = Evidence!Latest(Evidence!Entries(tools), "fp")
      BY DEF Evidence!Draft
    <3> HIDE DEF tools
    <3> QED BY <1>1, <2>1, <2>6, <3>1, <3>2, LastOfTools
  <2>11. /\ log[v] # Evidence!None /\ log[s] # Evidence!None /\ log[n] # Evidence!None
    BY <2>1, <2>4 DEF Evidence!None
  <2>12. Evidence!Independent(needs) = log[v]
    <3>1. Evidence!PartialWaivers = {}
      BY <2>3, <2>8 DEF Evidence!PartialWaivers
    <3>2. Evidence!Independent(needs) = Evidence!Latest({log[v]}, "fp")
      BY <2>3, <2>8, <2>11, <3>1 DEF Evidence!Independent
    <3> DEFINE items == {log[v]}
    <3>3. items \subseteq EvidenceLog
      BY <1>1, <2>1 DEF EvidenceLog
    <3>4. log[v] \in items /\ \A o \in items : o = log[v]
      OBVIOUS
    <3> HIDE DEF items
    <3>5. Evidence!Latest(items, "fp") = log[v]
      BY <1>1, <3>3, <3>4, LatestIsThat
    <3> QED BY <3>2, <3>5 DEF items
  <2>13. ~Evidence!TestMissing(needs)
    BY <2>2, <2>7 DEF Evidence!TestMissing
  <2>14. ~Evidence!VerificationMissing(needs)
    BY <2>1, <2>2, <2>3, <2>4, <2>7, <2>11, <2>12 DEF Evidence!VerificationMissing
  <2>15. ~Evidence!SnapshotMissing(needs)
    <3>1. log[t].at < log[s].at
      BY <2>1, <2>3, <2>4
    <3>2. ~(log[s].at <= log[t].at) /\ ~(log[s].at <= log[v].at)
      BY <2>1, <2>3, <2>4, <3>1
    <3> QED BY <1>1, <2>2, <2>7, <2>9, <2>11, <2>12, <3>2 DEF Evidence!SnapshotMissing
  <2>16. ~Evidence!DraftMissing
    BY <2>1, <2>2, <2>3, <2>4, <2>9, <2>10, <2>11 DEF Evidence!DraftMissing
  <2>17. ~Evidence!ValidationMissing
    <3>1. Evidence!LastIndex("test") = t
      <4>1. Evidence!LastIndex("test") \in 1 .. n /\ log[Evidence!LastIndex("test")].tool = "test"
            /\ t <= Evidence!LastIndex("test")
        BY <1>1, <2>1, <2>3, LastIndexIsLast
      <4>2. Evidence!LastIndex("test") \notin {v, s, n}
        BY <2>3, <4>1
      <4> QED BY <2>1, <4>1, <4>2
    <3>2. ~(log[t].at <= Evidence!LastWrite)
      <4>1. CASE Evidence!LastIndex("write") = 0
        BY <1>1, <2>1, <2>4, <4>1 DEF Evidence!LastWrite, ResultsInOrder
      <4>2. CASE Evidence!LastIndex("write") # 0
        <5> DEFINE w == Evidence!LastIndex("write")
        <5>1. w \in 1 .. n /\ log[w].tool = "write" /\ Evidence!LastWrite = log[w].at
          BY <1>1, <4>2, LastIndexIsLast DEF Evidence!LastWrite
        <5> HIDE DEF w
        <5>2. w < t
          BY <2>1, <2>3, <5>1
        <5> QED BY <2>1, <2>4, <2>5, <5>1, <5>2
      <4> QED BY <4>1, <4>2
    <3> QED BY <1>1, <2>1, <2>2, <3>1, <3>2 DEF Evidence!ValidationMissing
  <2>18. needs.required \subseteq Evidence!EvidenceKind
    BY DEF Evidence!Merged, Evidence!Tighten, Evidence!EvidenceAssumption, Evidence!Requirements
  <2>19. ASSUME NEW kind \in needs.required PROVE ~Evidence!Missing(kind, needs)
    <3>1. kind \in {"successful_test", "independent_verification", "git_change_snapshot",
                    "delivery_draft"}
      BY <1>1, <2>18 DEF Evidence!EvidenceKind
    <3> QED BY <2>13, <2>14, <2>15, <2>16, <3>1 DEF Evidence!Missing
  <2> QED BY <2>17, <2>19 DEF Evidence!Accepts
<1>2. ResultsInOrder => Evidence!ChecklistSuffices
  <2> SUFFICES ASSUME ResultsInOrder, NEW needs \in Evidence!Merged,
                      Len(log) >= 4, needs.required # {}, "issue_plan" \notin needs.required,
                      files # 0, \A k \in 0 .. 3 : log[Len(log) - k].fp = files,
                      log[Len(log) - 3].tool = "test", log[Len(log) - 2].tool = "report",
                      log[Len(log) - 2].verdict = "PASS",
                      log[Len(log) - 1].tool = "diff", log[Len(log) - 0].tool = "draft",
                      log[Len(log) - 3].at < log[Len(log) - 2].at,
                      log[Len(log) - 2].at < log[Len(log) - 1].at,
                      log[Len(log) - 1].at < log[Len(log) - 0].at,
                      Len(log) > 4 => log[Len(log) - 4].at < log[Len(log) - 3].at,
                      Validations \subseteq {"test"}
               PROVE  Evidence!Accepts(needs)
    BY DEF Evidence!ChecklistSuffices
  <2> QED BY <1>1
<1> QED BY <1>2, EvidenceInit, EvidenceNext, PTL DEF Evidence!Spec
=============================================================================
