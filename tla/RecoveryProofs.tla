--------------------------- MODULE RecoveryProofs ---------------------------
(***************************************************************************)
(* What survives the death of a process, for any number of everything.     *)
(*                                                                         *)
(* The edges of Control (ControlIntake): a command is carried out at most  *)
(* once, a comment is made at most once, a completed event has its         *)
(* comment, and no event is tried without end.  The inductive invariant is *)
(* the conjunction of four parts, each of which is preserved by itself     *)
(* once the types are known: the types, what a delivery has done           *)
(* (Handled), what the dispatcher has found and made (Posted), and how     *)
(* often an event was tried (Tried).                                       *)
(*                                                                         *)
(* The retention: a cleanup stops only at a job with a reply (Tables says  *)
(* in which order jobs end and get old).                                   *)
(*                                                                         *)
(* The file of a Session (SessionLog, the last section): an acknowledged   *)
(* record stays, in its place, and the file can be loaded, until a process *)
(* dies within a repair of it or a lister makes one.                       *)
(***************************************************************************)
EXTENDS
  MCRecovery, FiniteSetTheorems, NaturalsInduction, WellFoundedInduction, SequenceTheorems, TLAPS

Waits == {None, "permission", "evidence", "done"}
Answers == {None, "ok", "duplicate", "refused", "failed", "lost"}
Events ==
  [status : {None, "pending", "processing", "failed", "completed", "dead_letter"},
   attempts : Nat, job : Nat]
Positions == [step : {"idle", "find", "create", "complete"}, of : Deliveries \cup {None}]

(* The types the other parts rest on.                                      *)
Typed ==
  /\ handler \in [Deliveries -> Waits] /\ answer \in [Deliveries -> Answers]
  /\ effect \in [Deliveries -> Nat] /\ event \in [Deliveries -> Events]
  /\ at \in Positions /\ (at.step # "idle" => at.of \in Deliveries)
  /\ comments \in Seq(Deliveries \cup {Other})
  /\ job \in Seq({"active", "ended", "deleted"}) /\ deaths \in Nat

(* A delivery that still has something to do, or that may come as a new    *)
(* one, has had no effect; what is older than the retention is over.       *)
HandledOnce(d) ==
  /\ effect[d] <= 1
  /\ handler[d] # None => d \in registered
  /\ handler[d] \in {"permission", "evidence"} => effect[d] = 0
  /\ d \notin registered /\ <<"delivery", d>> \notin old => effect[d] = 0
  /\ <<"delivery", d>> \in old => handler[d] = None
  /\ answer[d] = "failed" /\ handler[d] = None => effect[d] = 0

Handled == \A d \in Deliveries : HandledOnce(d)

(* Where the dispatcher stands says whether its comment is there.          *)
Posted ==
  /\ CommentedOnce /\ CompletedIsThere
  /\ at.step = "create" /\ Len(comments) <= PageSize =>
       \A i \in DOMAIN comments : comments[i] # at.of
  /\ at.step = "complete" => \E i \in DOMAIN comments : comments[i] = at.of

(* An event nobody works on has a try left, or a death to account for it.  *)
TriedBounded(d) ==
  /\ event[d].attempts <= MaxAttempts + deaths
  /\ event[d].status = "pending" => event[d].attempts = 0
  /\ event[d].status = "failed" => event[d].attempts < MaxAttempts
  /\ event[d].status = "processing" /\ (at.step = "idle" \/ at.of # d) =>
       event[d].attempts < MaxAttempts + deaths

Tried == \A d \in Deliveries : TriedBounded(d)

-----------------------------------------------------------------------------
(* Types.                                                                  *)

(* A table of jobs keeps its length when every entry is written anew.      *)
LEMMA RewrittenTable ==
  ASSUME NEW n \in Nat, NEW S, NEW f \in [1..n -> S]
  PROVE  f \in Seq(S) /\ Len(f) = n
OBVIOUS

(* The job numbers are natural numbers.                                    *)
LEMMA JobNumbers ==
  ASSUME Typed
  PROVE  Jobs \subseteq Nat /\ Len(job) \in Nat /\ Jobs = 1..Len(job)
BY DEF Typed, Jobs

(* An answer ends the handler.                                             *)
LEMMA AnswerTyped ==
  ASSUME Typed, NEW d \in Deliveries, NEW with \in Answers, Answer(d, with)
  PROVE  handler' \in [Deliveries -> Waits] /\ answer' \in [Deliveries -> Answers]
BY DEF Typed, Answer, Waits

(* A write counts as an effect and leaves a pending event.                 *)
LEMMA WriteTyped ==
  ASSUME Typed, NEW d \in Deliveries, NEW j \in Nat, Write(d, j)
  PROVE  /\ handler' \in [Deliveries -> Waits] /\ answer' \in [Deliveries -> Answers]
         /\ effect' \in [Deliveries -> Nat] /\ event' \in [Deliveries -> Events]
BY DEF Typed, Write, Waits, Events

LEMMA TypedInit == Init => Typed
BY IntakeAssumption
   DEF Init, Typed, Waits, Answers, Events, Positions, NoEvent, Idle

(* A claim counts.                                                         *)
LEMMA ClaimedTyped ==
  ASSUME NEW e \in Events
  PROVE  [[e EXCEPT !.status = "processing"] EXCEPT !.attempts = e.attempts + 1] \in Events
<1>1. e.attempts + 1 \in Nat
  BY DEF Events
<1>2. [e EXCEPT !.status = "processing"] \in Events
  BY DEF Events
<1> QED
  BY <1>1, <1>2 DEF Events

(* Every step keeps the types.                                             *)
LEMMA TypedNext ==
  ASSUME Typed, [Next]_vars
  PROVE  Typed'
<1> USE DEF Waits, Answers
<1>1. ASSUME NEW d \in Deliveries, Arrive(d) PROVE Typed'
  BY <1>1 DEF Typed, Arrive, outgoing, records, Positions, Events
<1>2. ASSUME NEW d \in Deliveries, AskFails(d) PROVE Typed'
  <2>1. \E with \in Answers : Answer(d, with)
    BY <1>2 DEF AskFails, Refuse, Release
  <2> QED
    BY <1>2, <2>1, AnswerTyped DEF Typed, AskFails, outgoing, records, Positions
<1>3. ASSUME NEW d \in Deliveries, Permitted(d) PROVE Typed'
  <2>1. /\ handler' \in [Deliveries -> Waits] /\ answer' \in [Deliveries -> Answers]
        /\ effect' \in [Deliveries -> Nat] /\ event' \in [Deliveries -> Events]
    <3>1. \/ \E with \in Answers : Answer(d, with) /\ UNCHANGED <<effect, event>>
          \/ handler' = [handler EXCEPT ![d] = "evidence"] /\ UNCHANGED <<answer, effect, event>>
          \/ \E j \in Jobs : Write(d, j)
      BY <1>3 DEF Permitted, Refuse, Active
    <3> QED
      BY <3>1, AnswerTyped, WriteTyped, JobNumbers DEF Typed
  <2> QED
    BY <1>3, <2>1 DEF Typed, Permitted, Positions
<1>4. ASSUME NEW d \in Deliveries, Create(d) PROVE Typed'
  <2>1. CASE Active # {}
    <3>1. Answer(d, "failed") /\ UNCHANGED <<job, effect, event>>
      BY <1>4, <2>1 DEF Create, Release
    <3> QED
      BY <1>4, <3>1, AnswerTyped DEF Typed, Create, Positions
  <2>2. CASE Active = {}
    <3>1. Write(d, Len(job) + 1) /\ job' = Append(job, "active")
      BY <1>4, <2>2 DEF Create
    <3>2. job' \in Seq({"active", "ended", "deleted"})
      BY <3>1 DEF Typed
    <3>3. Len(job) + 1 \in Nat
      BY JobNumbers
    <3> QED
      BY <1>4, <3>1, <3>2, <3>3, WriteTyped DEF Typed, Create, Positions
  <2> QED
    BY <2>1, <2>2
<1>5. ASSUME NEW d \in Deliveries, Respond(d) PROVE Typed'
  BY <1>5, AnswerTyped DEF Typed, Respond, outgoing, records, Positions
<1>6. ASSUME NEW d \in Deliveries, Claim(d) PROVE Typed'
  <2>1. event' \in [Deliveries -> Events]
    <3>1. event[d] \in Events
      BY DEF Typed
    <3>2. event' = [event EXCEPT ![d] = [[event[d] EXCEPT !.status = "processing"]
                                           EXCEPT !.attempts = event[d].attempts + 1]]
      BY <1>6 DEF Typed, Claim
    <3>3. [[event[d] EXCEPT !.status = "processing"] EXCEPT !.attempts = event[d].attempts + 1]
            \in Events
      BY <3>1, ClaimedTyped
    <3> QED
      BY <3>2, <3>3 DEF Typed
  <2>2. at' \in Positions /\ at'.of \in Deliveries
    BY <1>6 DEF Claim, Positions
  <2> QED
    BY <1>6, <2>1, <2>2 DEF Typed, Claim, intake, records
<1>7. CASE Find
  BY <1>7 DEF Typed, Find, intake, records, Positions
<1>8. CASE CreateComment
  <2>1. comments' \in Seq(Deliveries \cup {Other})
    BY <1>8 DEF Typed, CreateComment
  <2> QED
    BY <1>8, <2>1 DEF Typed, CreateComment, intake, records, Positions
<1>9. CASE Complete
  BY <1>9 DEF Typed, Complete, intake, records, Positions, Events, Idle
<1>10. ASSUME NEW kind \in {"temporary", "permanent", "other"}, RequestFails(kind) PROVE Typed'
  <2>1. at.of \in Deliveries
    BY <1>10 DEF RequestFails, Typed
  <2>2. comments' \in Seq(Deliveries \cup {Other})
    <3>1. comments' = comments \/ comments' = Append(comments, at.of)
      BY <1>10 DEF RequestFails
    <3>2. Append(comments, at.of) \in Seq(Deliveries \cup {Other})
      BY <2>1 DEF Typed
    <3> QED
      BY <3>1, <3>2 DEF Typed
  <2>3. event' \in [Deliveries -> Events]
    BY <1>10, <2>1 DEF RequestFails, Typed, Events, Failed
  <2>4. /\ handler' \in [Deliveries -> Waits] /\ answer' \in [Deliveries -> Answers]
        /\ at' = Idle
    BY <1>10 DEF RequestFails, Typed, Dead
  <2> QED
    BY <1>10, <2>2, <2>3, <2>4 DEF Typed, RequestFails, records, Positions, Idle
<1>11. CASE Die
  BY <1>11 DEF Typed, Die, Dead, records, Positions, Idle
<1>12. CASE Restart
  BY <1>12 DEF Typed, Restart, intake, outgoing, records, Positions
<1>13. CASE Comment
  <2>1. comments' \in Seq(Deliveries \cup {Other})
    BY <1>13 DEF Typed, Comment
  <2> QED
    BY <1>13, <2>1 DEF Typed, Comment, intake, records, Positions
<1>14. ASSUME NEW j \in Jobs, EndJob(j) PROVE Typed'
  <2>1. job' \in Seq({"active", "ended", "deleted"})
    BY <1>14, JobNumbers, RewrittenTable DEF Typed, EndJob
  <2> QED
    BY <1>14, <2>1 DEF Typed, EndJob, intake, outgoing, Positions
<1>15. CASE Age
  BY <1>15 DEF Typed, Age, intake, outgoing, Positions
<1>16. CASE Cleanup
  <2>1. job' \in Seq({"active", "ended", "deleted"})
    <3>1. job' \in [1..Len(job) -> {"active", "ended", "deleted"}]
      BY <1>16, JobNumbers DEF Typed, Cleanup, Jobs
    <3> QED
      BY <3>1, JobNumbers, RewrittenTable
  <2>2. event' \in [Deliveries -> Events]
    BY <1>16 DEF Typed, Cleanup, Events, NoEvent
  <2> QED
    BY <1>16, <2>1, <2>2 DEF Typed, Cleanup, Positions
<1>17. CASE UNCHANGED vars
  BY <1>17 DEF Typed, vars, intake, outgoing, records, Positions
<1> QED
  BY <1>1, <1>2, <1>3, <1>4, <1>5, <1>6, <1>7, <1>8, <1>9, <1>10, <1>11, <1>12, <1>13,
     <1>14, <1>15, <1>16, <1>17 DEF Next, Dispatch

-----------------------------------------------------------------------------
(* A command is carried out at most once.                                  *)

LEMMA HandledInit == Init => Handled
BY DEF Init, Handled, HandledOnce, None

(* A handler that ends before it wrote leaves no effect.                   *)
LEMMA HandledAnswer ==
  ASSUME Typed, Handled, NEW d \in Deliveries, NEW with \in Answers, Answer(d, with),
         handler[d] # None, UNCHANGED <<effect, old>>,
         \/ UNCHANGED registered /\ with # "failed"
         \/ registered' = registered \ {d} /\ handler[d] \in {"permission", "evidence"}
  PROVE  Handled'
<1> SUFFICES ASSUME NEW e \in Deliveries PROVE HandledOnce(e)'
  BY DEF Handled
<1>1. handler'[e] = (IF e = d THEN None ELSE handler[e])
      /\ answer'[e] = (IF e = d THEN with ELSE answer[e])
  BY DEF Typed, Answer
<1>2. HandledOnce(e) /\ HandledOnce(d)
  BY DEF Handled
<1> QED
  BY <1>1, <1>2 DEF HandledOnce, None

(* A write is made by a handler that has written nothing.                  *)
LEMMA HandledWrite ==
  ASSUME Typed, Handled, NEW d \in Deliveries, NEW j, Write(d, j),
         handler[d] \in {"permission", "evidence"}, UNCHANGED old
  PROVE  Handled'
<1> SUFFICES ASSUME NEW e \in Deliveries PROVE HandledOnce(e)'
  BY DEF Handled
<1>1. handler'[e] = (IF e = d THEN "done" ELSE handler[e])
      /\ effect'[e] = (IF e = d THEN effect[e] + 1 ELSE effect[e])
      /\ UNCHANGED <<registered, answer>>
  BY DEF Typed, Write
<1>2. HandledOnce(e) /\ (e = d => effect[e] = 0 /\ d \in registered)
  BY DEF Handled, HandledOnce, None
<1> QED
  BY <1>1, <1>2 DEF HandledOnce, None

(* What leaves the deliveries alone preserves their part.                  *)
LEMMA HandledQuiet ==
  ASSUME Handled, UNCHANGED <<registered, handler, answer, effect, old>>
  PROVE  Handled'
BY DEF Handled, HandledOnce

(* The process dies: what was under way is lost, not failed.               *)
LEMMA HandledDead ==
  ASSUME Typed, Handled, Dead, UNCHANGED <<registered, effect, old>>
  PROVE  Handled'
<1> SUFFICES ASSUME NEW d \in Deliveries PROVE HandledOnce(d)'
  BY DEF Handled
<1>1. handler'[d] = None /\ answer'[d] = IF handler[d] # None THEN "lost" ELSE answer[d]
  BY DEF Dead
<1>2. HandledOnce(d)
  BY DEF Handled
<1> QED
  BY <1>1, <1>2 DEF HandledOnce, None

LEMMA HandledNext ==
  ASSUME Typed, Handled, [Next]_vars
  PROVE  Handled'
<1>1. ASSUME NEW d \in Deliveries, Arrive(d) PROVE Handled'
  <2> SUFFICES ASSUME NEW e \in Deliveries PROVE HandledOnce(e)'
    BY DEF Handled
  <2>1. HandledOnce(e)
    BY DEF Handled
  <2>2. CASE d \in registered
    <3>1. /\ answer'[e] = (IF e = d THEN "duplicate" ELSE answer[e])
          /\ UNCHANGED <<handler, registered, effect, old>>
      BY <1>1, <2>2 DEF Typed, Arrive, records
    <3> QED
      BY <2>1, <3>1 DEF HandledOnce
  <2>3. CASE d \notin registered
    <3>1. /\ handler'[e] = (IF e = d THEN "permission" ELSE handler[e])
          /\ registered' = registered \union {d} /\ <<"delivery", d>> \notin old
          /\ UNCHANGED <<answer, effect, old>>
      BY <1>1, <2>3 DEF Typed, Arrive, records
    <3>2. e = d => effect[e] = 0
      BY <2>1, <2>3, <3>1 DEF HandledOnce
    <3> QED
      BY <2>1, <3>1, <3>2 DEF HandledOnce, None
  <2> QED
    BY <2>2, <2>3
<1>2. ASSUME NEW d \in Deliveries, AskFails(d) PROVE Handled'
  <2>1. UNCHANGED <<effect, old>> /\ handler[d] \in {"permission", "evidence"}
    BY <1>2 DEF AskFails, records
  <2>2. CASE Refuse(d)
    BY <2>1, <2>2, HandledAnswer DEF Refuse, Answers, None
  <2>3. CASE Release(d)
    BY <2>1, <2>3, HandledAnswer DEF Release, Answers, None
  <2> QED
    BY <1>2, <2>2, <2>3 DEF AskFails
<1>3. ASSUME NEW d \in Deliveries, Permitted(d) PROVE Handled'
  <2>1. handler[d] = "permission" /\ UNCHANGED old
    BY <1>3 DEF Permitted
  <2>2. CASE \E with \in {"ok", "refused"} : Answer(d, with) /\ UNCHANGED <<registered, effect>>
    BY <2>1, <2>2, HandledAnswer DEF Answers, None
  <2>3. CASE handler' = [handler EXCEPT ![d] = "evidence"] /\ UNCHANGED <<registered, answer, effect>>
    BY <2>1, <2>3 DEF Typed, Handled, HandledOnce, None
  <2>4. CASE \E j \in Jobs : Write(d, j)
    BY <2>1, <2>4, HandledWrite
  <2> QED
    BY <1>3, <2>2, <2>3, <2>4 DEF Permitted, Refuse, Active
<1>4. ASSUME NEW d \in Deliveries, Create(d) PROVE Handled'
  <2>1. handler[d] = "evidence" /\ UNCHANGED old
    BY <1>4 DEF Create
  <2>2. CASE Active # {}
    BY <1>4, <2>1, <2>2, HandledAnswer DEF Create, Release, Answers, None
  <2>3. CASE Active = {}
    BY <1>4, <2>1, <2>3, HandledWrite DEF Create
  <2> QED
    BY <2>2, <2>3
<1>5. ASSUME NEW d \in Deliveries, Respond(d) PROVE Handled'
  BY <1>5, HandledAnswer DEF Respond, Answers, None, records
<1>6. ASSUME NEW d \in Deliveries, Claim(d) PROVE Handled'
  BY <1>6, HandledQuiet DEF Claim, intake, records
<1>7. CASE Find
  BY <1>7, HandledQuiet DEF Find, intake, records
<1>8. CASE CreateComment
  BY <1>8, HandledQuiet DEF CreateComment, intake, records
<1>9. CASE Complete
  BY <1>9, HandledQuiet DEF Complete, intake, records
<1>10. ASSUME NEW kind \in {"temporary", "permanent", "other"}, RequestFails(kind)
       PROVE  Handled'
  <2>1. UNCHANGED <<registered, effect, old>>
    BY <1>10 DEF RequestFails, records
  <2>2. CASE Dead
    BY <2>1, <2>2, HandledDead
  <2>3. CASE UNCHANGED <<handler, answer>>
    BY <2>1, <2>3, HandledQuiet
  <2> QED
    BY <1>10, <2>2, <2>3 DEF RequestFails
<1>11. CASE Die
  BY <1>11, HandledDead DEF Die, records
<1>12. CASE Restart
  BY <1>12, HandledQuiet DEF Restart, intake, records
<1>13. CASE Comment
  BY <1>13, HandledQuiet DEF Comment, intake, records
<1>14. ASSUME NEW j \in Jobs, EndJob(j) PROVE Handled'
  BY <1>14, HandledQuiet DEF EndJob, intake
<1>15. CASE Age
  BY <1>15 DEF Handled, HandledOnce, Age, intake
<1>16. CASE Cleanup
  <2>1. UNCHANGED <<handler, answer, effect, old>>
    BY <1>16 DEF Cleanup
  <2>2. \A d \in Deliveries : d \in registered /\ d \notin registered' => <<"delivery", d>> \in old
    BY <1>16 DEF Cleanup
  <2> QED
    BY <2>1, <2>2 DEF Handled, HandledOnce
<1>17. CASE UNCHANGED vars
  BY <1>17, HandledQuiet DEF vars, intake, records
<1> QED
  BY <1>1, <1>2, <1>3, <1>4, <1>5, <1>6, <1>7, <1>8, <1>9, <1>10, <1>11, <1>12, <1>13,
     <1>14, <1>15, <1>16, <1>17 DEF Next, Dispatch

-----------------------------------------------------------------------------
(* A comment is made at most once, and a completed event has its comment.  *)

LEMMA PostedInit == Init => Posted
BY DEF Init, Posted, CommentedOnce, CompletedIsThere, NoEvent, None, Idle

(* Without a new comment and a step of the dispatcher, only the completion *)
(* of an event could change anything.                                      *)
LEMMA PostedQuiet ==
  ASSUME Posted, UNCHANGED comments, at' = at \/ at'.step = "idle" \/ at'.step = "find",
         \A d \in Deliveries : event'[d].status = "completed" => event[d].status = "completed"
  PROVE  Posted'
BY DEF Posted, CommentedOnce, CompletedIsThere

(* Somebody else comments, or the dispatcher does and forgets about it.    *)
LEMMA PostedMore ==
  ASSUME Typed, Posted, NEW by \in Deliveries \cup {Other},
         comments' = Append(comments, by),
         by # Other => at.step = "create" /\ at.of = by,
         (at' = at /\ by = Other) \/ at'.step = "idle" \/ (at'.step = "complete" /\ at'.of = by),
         \A d \in Deliveries : event'[d].status = "completed" => event[d].status = "completed"
  PROVE  Posted'
<1>1. /\ Len(comments) \in Nat /\ Len(comments') = Len(comments) + 1
      /\ DOMAIN comments = 1..Len(comments) /\ DOMAIN comments' = 1..Len(comments')
      /\ \A i \in DOMAIN comments : comments'[i] = comments[i]
      /\ comments'[Len(comments')] = by
  BY DEF Typed
<1>2. Other \notin Deliveries /\ PageSize \in Nat
  BY IntakeAssumption
<1>3. Len(comments') <= PageSize => Len(comments) <= PageSize
  BY <1>1, <1>2
<1>4. \A i \in DOMAIN comments' : i \in DOMAIN comments \/ i = Len(comments')
  BY <1>1
<1>5. DOMAIN comments \subseteq DOMAIN comments'
  BY <1>1
<1>6. CommentedOnce'
  <2> SUFFICES ASSUME NEW d \in Deliveries, Len(comments') <= PageSize,
                      NEW i \in DOMAIN comments', NEW k \in DOMAIN comments',
                      comments'[i] = d, comments'[k] = d
               PROVE  i = k
    BY DEF CommentedOnce
  <2>1. CASE i \in DOMAIN comments /\ k \in DOMAIN comments
    BY <1>1, <1>3, <2>1 DEF Posted, CommentedOnce
  <2>2. CASE by = d
    <3>1. \A n \in DOMAIN comments : comments'[n] # d
      BY <1>1, <1>2, <1>3, <2>2 DEF Posted
    <3> QED
      BY <1>4, <3>1
  <2>3. CASE by # d
    BY <1>1, <1>4, <2>1, <2>3
  <2> QED
    BY <2>2, <2>3
<1>7. CompletedIsThere'
  <2> SUFFICES ASSUME NEW d \in Deliveries, event'[d].status = "completed"
               PROVE  \E i \in DOMAIN comments' : comments'[i] = d
    BY DEF CompletedIsThere
  <2>1. PICK i \in DOMAIN comments : comments[i] = d
    BY DEF Posted, CompletedIsThere
  <2> QED
    BY <1>1, <1>5, <2>1
<1>8. at'.step = "create" /\ Len(comments') <= PageSize =>
        \A i \in DOMAIN comments' : comments'[i] # at'.of
  <2> SUFFICES ASSUME at'.step = "create", Len(comments') <= PageSize,
                      NEW i \in DOMAIN comments'
               PROVE  comments'[i] # at'.of
    OBVIOUS
  <2>1. at' = at /\ by = Other /\ at.of \in Deliveries
    BY DEF Typed
  <2> QED
    BY <1>1, <1>2, <1>3, <1>4, <2>1 DEF Posted
<1>9. at'.step = "complete" => \E i \in DOMAIN comments' : comments'[i] = at'.of
  <2>1. CASE at' = at
    BY <1>1, <1>5, <2>1 DEF Posted
  <2>2. CASE at'.step = "complete" /\ at'.of = by
    <3>1. Len(comments') \in DOMAIN comments'
      BY <1>1
    <3> QED
      BY <1>1, <2>2, <3>1
  <2> QED
    BY <2>1, <2>2
<1> QED
  BY <1>6, <1>7, <1>8, <1>9 DEF Posted

LEMMA PostedNext ==
  ASSUME Typed, Posted, [Next]_vars
  PROVE  Posted'
<1>1. ASSUME NEW d \in Deliveries, Arrive(d) PROVE Posted'
  BY <1>1, PostedQuiet DEF Arrive, outgoing
<1>2. ASSUME NEW d \in Deliveries, AskFails(d) PROVE Posted'
  BY <1>2, PostedQuiet DEF AskFails, outgoing
<1>3. ASSUME NEW d \in Deliveries, Permitted(d) PROVE Posted'
  <2>1. UNCHANGED <<at, comments>>
    BY <1>3 DEF Permitted
  <2>2. event' = event \/ \E j \in Jobs : Write(d, j)
    BY <1>3 DEF Permitted, Active
  <2> QED
    BY <2>1, <2>2, PostedQuiet DEF Typed, Write
<1>4. ASSUME NEW d \in Deliveries, Create(d) PROVE Posted'
  <2>1. UNCHANGED <<at, comments>>
    BY <1>4 DEF Create
  <2>2. event' = event \/ \E j : Write(d, j)
    BY <1>4 DEF Create
  <2> QED
    BY <2>1, <2>2, PostedQuiet DEF Typed, Write
<1>5. ASSUME NEW d \in Deliveries, Respond(d) PROVE Posted'
  BY <1>5, PostedQuiet DEF Respond, outgoing
<1>6. ASSUME NEW d \in Deliveries, Claim(d) PROVE Posted'
  <2>1. UNCHANGED comments /\ at'.step = "find"
    BY <1>6 DEF Claim
  <2>2. \A e \in Deliveries : event'[e].status = "completed" => event[e].status = "completed"
    BY <1>6 DEF Claim, Typed, Events
  <2> QED
    BY <2>1, <2>2, PostedQuiet
<1>7. CASE Find
  <2>1. UNCHANGED <<event, comments>> /\ at'.of = at.of
        /\ at'.step = IF Found(at.of) THEN "complete" ELSE "create"
    BY <1>7 DEF Find, Typed, Positions
  <2>2. CASE Found(at.of)
    BY <2>1, <2>2 DEF Posted, CommentedOnce, CompletedIsThere, Found
  <2>3. CASE ~Found(at.of)
    <3>1. DOMAIN comments = 1..Len(comments) /\ Len(comments) \in Nat /\ PageSize \in Nat
      BY IntakeAssumption DEF Typed
    <3>2. Len(comments) <= PageSize => \A i \in DOMAIN comments : comments[i] # at.of
      BY <2>3, <3>1 DEF Found
    <3> QED
      BY <2>1, <2>3, <3>2 DEF Posted, CommentedOnce, CompletedIsThere
  <2> QED
    BY <2>2, <2>3
<1>8. CASE CreateComment
  <2>1. /\ at.step = "create" /\ at.of \in Deliveries /\ comments' = Append(comments, at.of)
        /\ at'.step = "complete" /\ at'.of = at.of /\ event' = event
    BY <1>8 DEF CreateComment, Typed, Positions
  <2> QED
    BY <2>1, PostedMore
<1>9. CASE Complete
  <2>1. /\ at.step = "complete" /\ at.of \in Deliveries /\ comments' = comments
        /\ at'.step = "idle"
        /\ \A d \in Deliveries : event'[d].status = "completed" =>
             event[d].status = "completed" \/ d = at.of
    BY <1>9 DEF Complete, Typed, Events, Idle
  <2> QED
    BY <2>1 DEF Posted, CommentedOnce, CompletedIsThere
<1>10. ASSUME NEW kind \in {"temporary", "permanent", "other"}, RequestFails(kind)
       PROVE  Posted'
  <2>0. at' = Idle
    BY <1>10 DEF RequestFails, Dead
  <2>1. at.of \in Deliveries /\ at'.step = "idle"
    BY <1>10, <2>0 DEF RequestFails, Typed, Idle
  <2>2. \A d \in Deliveries : event'[d].status = "completed" => event[d].status = "completed"
    BY <1>10, <2>1 DEF RequestFails, Failed, Typed, Events
  <2>3. comments' = comments \/ (at.step = "create" /\ comments' = Append(comments, at.of))
    BY <1>10 DEF RequestFails
  <2>4. CASE comments' = comments
    BY <2>1, <2>2, <2>4, PostedQuiet
  <2>5. CASE at.step = "create" /\ comments' = Append(comments, at.of)
    BY <2>1, <2>2, <2>5, PostedMore
  <2> QED
    BY <2>3, <2>4, <2>5
<1>11. CASE Die
  BY <1>11, PostedQuiet DEF Die, Dead, Idle
<1>12. CASE Restart
  BY <1>12, PostedQuiet DEF Restart, outgoing
<1>13. CASE Comment
  BY <1>13, PostedMore DEF Comment
<1>14. ASSUME NEW j \in Jobs, EndJob(j) PROVE Posted'
  BY <1>14, PostedQuiet DEF EndJob, outgoing
<1>15. CASE Age
  BY <1>15, PostedQuiet DEF Age, outgoing
<1>16. CASE Cleanup
  BY <1>16, PostedQuiet DEF Cleanup, NoEvent, None
<1>17. CASE UNCHANGED vars
  BY <1>17, PostedQuiet DEF vars, outgoing
<1> QED
  BY <1>1, <1>2, <1>3, <1>4, <1>5, <1>6, <1>7, <1>8, <1>9, <1>10, <1>11, <1>12, <1>13,
     <1>14, <1>15, <1>16, <1>17 DEF Next, Dispatch

-----------------------------------------------------------------------------
(* No event is tried without end.                                          *)

LEMMA TriedInit == Init => Tried
BY IntakeAssumption DEF Init, Tried, TriedBounded, NoEvent, Idle, None

(* Events and the place of the dispatcher stay, or the dispatcher goes on  *)
(* with the event it is at.                                                *)
LEMMA TriedQuiet ==
  ASSUME Tried, UNCHANGED <<event, deaths>>,
         at' = at \/ (at.step # "idle" /\ at'.step # "idle" /\ at'.of = at.of)
  PROVE  Tried'
BY DEF Tried, TriedBounded

(* A new event has not been tried.                                         *)
LEMMA TriedWrite ==
  ASSUME Typed, Tried, NEW d \in Deliveries, NEW j, Write(d, j), UNCHANGED <<at, deaths>>
  PROVE  Tried'
<1> SUFFICES ASSUME NEW e \in Deliveries PROVE TriedBounded(e)'
  BY DEF Tried
<1>1. event'[e] = IF e = d THEN [status |-> "pending", attempts |-> 0, job |-> j] ELSE event[e]
  BY DEF Typed, Write
<1>2. TriedBounded(e) /\ MaxAttempts \in Nat /\ deaths \in Nat
  BY IntakeAssumption DEF Tried, Typed
<1> QED
  BY <1>1, <1>2 DEF TriedBounded

LEMMA TriedNext ==
  ASSUME Typed, Tried, [Next]_vars
  PROVE  Tried'
<1>a. MaxAttempts \in Nat /\ MaxAttempts > 0 /\ deaths \in Nat
  BY IntakeAssumption DEF Typed
<1>b. \A d \in Deliveries : event[d] \in Events /\ event[d].attempts \in Nat
  BY DEF Typed, Events
<1>1. ASSUME NEW d \in Deliveries, Arrive(d) PROVE Tried'
  BY <1>1, TriedQuiet DEF Arrive, outgoing
<1>2. ASSUME NEW d \in Deliveries, AskFails(d) PROVE Tried'
  BY <1>2, TriedQuiet DEF AskFails, outgoing
<1>3. ASSUME NEW d \in Deliveries, Permitted(d) PROVE Tried'
  <2>1. UNCHANGED <<at, deaths>>
    BY <1>3 DEF Permitted
  <2>2. event' = event \/ \E j \in Jobs : Write(d, j)
    BY <1>3 DEF Permitted, Active
  <2> QED
    BY <2>1, <2>2, TriedQuiet, TriedWrite
<1>4. ASSUME NEW d \in Deliveries, Create(d) PROVE Tried'
  <2>1. UNCHANGED <<at, deaths>>
    BY <1>4 DEF Create
  <2>2. event' = event \/ \E j : Write(d, j)
    BY <1>4 DEF Create
  <2> QED
    BY <2>1, <2>2, TriedQuiet, TriedWrite
<1>5. ASSUME NEW d \in Deliveries, Respond(d) PROVE Tried'
  BY <1>5, TriedQuiet DEF Respond, outgoing
<1>6. ASSUME NEW d \in Deliveries, Claim(d) PROVE Tried'
  <2> SUFFICES ASSUME NEW e \in Deliveries PROVE TriedBounded(e)'
    BY DEF Tried
  <2>1. at.step = "idle" /\ at'.step = "find" /\ at'.of = d /\ UNCHANGED deaths
        /\ event[d].status \in {"pending", "failed", "processing"}
    BY <1>6 DEF Claim, Claimable, Idle
  <2>2. CASE e = d
    <3>1. event'[d].status = "processing" /\ event'[d].attempts = event[d].attempts + 1
      BY <1>6, <1>b DEF Claim, Typed, Events
    <3>2. event[d].attempts < MaxAttempts + deaths
      BY <1>a, <1>b, <2>1 DEF Tried, TriedBounded
    <3> QED
      BY <1>a, <1>b, <2>1, <2>2, <3>1, <3>2 DEF TriedBounded
  <2>3. CASE e # d
    <3>1. event'[e] = event[e]
      BY <1>6, <2>3 DEF Claim, Typed
    <3> QED
      BY <2>1, <3>1 DEF Tried, TriedBounded
  <2> QED
    BY <2>2, <2>3
<1>7. CASE Find
  BY <1>7, TriedQuiet DEF Find, Typed, Positions
<1>8. CASE CreateComment
  BY <1>8, TriedQuiet DEF CreateComment, Typed, Positions
<1>9. CASE Complete
  <2> SUFFICES ASSUME NEW e \in Deliveries PROVE TriedBounded(e)'
    BY DEF Tried
  <2>1. at.of \in Deliveries /\ at'.step = "idle" /\ UNCHANGED deaths
    BY <1>9 DEF Complete, Typed, Idle
  <2>2. CASE e = at.of
    <3>1. event'[e].status = "completed" /\ event'[e].attempts = event[e].attempts
      BY <1>9, <1>b, <2>1, <2>2 DEF Complete, Typed, Events
    <3> QED
      BY <2>1, <3>1 DEF Tried, TriedBounded
  <2>3. CASE e # at.of
    <3>1. event'[e] = event[e]
      BY <1>9, <2>1, <2>3 DEF Complete, Typed
    <3> QED
      BY <2>1, <2>3, <3>1 DEF Tried, TriedBounded
  <2> QED
    BY <2>2, <2>3
<1>10. ASSUME NEW kind \in {"temporary", "permanent", "other"}, RequestFails(kind)
       PROVE  Tried'
  <2> SUFFICES ASSUME NEW e \in Deliveries PROVE TriedBounded(e)'
    BY DEF Tried
  <2>0. at' = Idle
    BY <1>10 DEF RequestFails, Dead
  <2>1. at.of \in Deliveries /\ at'.step = "idle" /\ UNCHANGED deaths
    BY <1>10, <2>0 DEF RequestFails, Typed, Idle
  <2>2. CASE e = at.of
    <3>1. event'[e].attempts = event[e].attempts
          /\ event'[e].status = IF kind = "permanent" THEN "dead_letter" ELSE Failed(e)
      BY <1>10, <1>b, <2>1, <2>2 DEF RequestFails, Typed, Events
    <3> QED
      BY <1>a, <1>b, <2>1, <3>1 DEF Tried, TriedBounded, Failed
  <2>3. CASE e # at.of
    <3>1. event'[e] = event[e]
      BY <1>10, <2>1, <2>3 DEF RequestFails, Typed
    <3> QED
      BY <2>1, <2>3, <3>1 DEF Tried, TriedBounded
  <2> QED
    BY <2>2, <2>3
<1>11. CASE Die
  <2>1. at'.step = "idle" /\ UNCHANGED event /\ deaths' = deaths + 1
    BY <1>11 DEF Die, Dead, Idle
  <2> QED
    BY <1>a, <1>b, <2>1 DEF Tried, TriedBounded
<1>12. CASE Restart
  BY <1>12, TriedQuiet DEF Restart, outgoing
<1>13. CASE Comment
  BY <1>13, TriedQuiet DEF Comment
<1>14. ASSUME NEW j \in Jobs, EndJob(j) PROVE Tried'
  BY <1>14, TriedQuiet DEF EndJob, outgoing
<1>15. CASE Age
  BY <1>15, TriedQuiet DEF Age, outgoing
<1>16. CASE Cleanup
  <2> SUFFICES ASSUME NEW e \in Deliveries PROVE TriedBounded(e)'
    BY DEF Tried
  <2>1. event'[e] \in {event[e], NoEvent} /\ UNCHANGED <<at, deaths>>
    BY <1>16 DEF Cleanup
  <2> QED
    BY <1>a, <2>1 DEF Tried, TriedBounded, NoEvent, None
<1>17. CASE UNCHANGED vars
  BY <1>17, TriedQuiet DEF vars, outgoing
<1> QED
  BY <1>1, <1>2, <1>3, <1>4, <1>5, <1>6, <1>7, <1>8, <1>9, <1>10, <1>11, <1>12, <1>13,
     <1>14, <1>15, <1>16, <1>17 DEF Next, Dispatch

-----------------------------------------------------------------------------
(* The theorems.                                                           *)

IInv == Typed /\ Handled /\ Posted /\ Tried

(* The inductive invariant holds of every reachable state.                 *)
LEMMA Inductive == Spec => []IInv
<1>1. Init => IInv
  BY TypedInit, HandledInit, PostedInit, TriedInit DEF IInv
<1>2. IInv /\ [Next]_vars => IInv'
  BY TypedNext, HandledNext, PostedNext, TriedNext DEF IInv
<1> QED
  BY <1>1, <1>2, PTL DEF Spec

(* However often GitHub delivers a command, and whenever the process dies, *)
(* it is carried out at most once; a delivery that was released for        *)
(* another attempt has not been carried out (control/webhook.py:84-100).   *)
THEOREM CommandsApplyOnce == Spec => []AppliedOnce
<1>1. IInv => AppliedOnce
  BY DEF IInv, Handled, HandledOnce, AppliedOnce
<1> QED
  BY <1>1, Inductive, PTL

(* While a lookup sees all comments of the issue, the comment of a         *)
(* delivery is made at most once, whatever answers were lost               *)
(* (control/outbox.py:72-87).                                              *)
THEOREM CommentsAreMadeOnce == Spec => []CommentedOnce
<1>1. IInv => CommentedOnce
  BY DEF IInv, Posted
<1> QED
  BY <1>1, Inductive, PTL

(* An event is completed only when its comment is there.                   *)
THEOREM CompletedEventsHaveComments == Spec => []CompletedIsThere
<1>1. IInv => CompletedIsThere
  BY DEF IInv, Posted
<1> QED
  BY <1>1, Inductive, PTL

(* Each event is tried at most as often as the limit and the deaths of the *)
(* process allow (store.py:783-825).                                       *)
THEOREM TriesAreBounded == Spec => []AttemptsAreBounded
<1>1. IInv => AttemptsAreBounded
  BY DEF IInv, Tried, TriedBounded, AttemptsAreBounded
<1> QED
  BY <1>1, Inductive, PTL

-----------------------------------------------------------------------------
(* Retention.                                                              *)

(* A job is created when no other is active, and gets old after it ended;  *)
(* the older jobs get old before the younger ones.                         *)
Tables ==
  /\ inbox \in Seq(SUBSET Deliveries) /\ Len(inbox) = Len(job)
  /\ \A j \in Jobs : job[j] = "active" => j = Len(job) /\ <<"job", j>> \notin old
  /\ \A j \in Jobs : job[j] = "deleted" => <<"job", j>> \in old
  /\ \A j \in Nat : <<"job", j>> \in old => j \in Jobs
  /\ \A i, j \in Jobs : i < j /\ <<"job", j>> \in old => <<"job", i>> \in old

(* Among natural numbers there is a smallest one.                          *)
LEMMA LeastOf ==
  ASSUME NEW S, S \subseteq Nat, S # {}
  PROVE  \E x \in S : \A y \in S : x <= y
<1>1. PICK x \in S : \A y \in S : ~(<<y, x>> \in OpToRel(<, Nat))
  BY WFMin, NatLessThanWellFounded
<1>2. \A y \in S : ~(y < x)
  BY <1>1 DEF OpToRel
<1> QED BY <1>2

(* What leaves the tables of the jobs alone, and the jobs of the events.   *)
LEMMA TablesQuiet ==
  ASSUME Tables, CleanupStopsAtReplies, UNCHANGED <<job, inbox, old, stuck>>,
         \A d \in Deliveries : event'[d].job = event[d].job
  PROVE  Tables' /\ CleanupStopsAtReplies'
BY DEF Tables, CleanupStopsAtReplies, Expired, Jobs

(* A command that writes belongs to the active job; a reply goes to its    *)
(* inbox.                                                                  *)
LEMMA TablesWrite ==
  ASSUME Typed, Tables, CleanupStopsAtReplies, UNCHANGED <<job, old, stuck>>,
         NEW d \in Deliveries, NEW j \in Active, Write(d, j),
         inbox' = inbox \/ inbox' = [inbox EXCEPT ![j] = @ \union {d}]
  PROVE  Tables' /\ CleanupStopsAtReplies'
<1>1. j \in Jobs /\ job[j] = "active" /\ Jobs = 1..Len(job) /\ Len(job) \in Nat
  BY JobNumbers DEF Active
<1>2. inbox \in Seq(SUBSET Deliveries) /\ Len(inbox) = Len(job)
  BY DEF Tables
<1>3. /\ inbox' \in Seq(SUBSET Deliveries) /\ Len(inbox') = Len(job)
      /\ \A k \in Jobs : k # j => inbox'[k] = inbox[k]
  BY <1>1, <1>2
<1>4. Tables'
  BY <1>3 DEF Tables, Jobs
<1>5. Expired' = Expired /\ j \notin Expired /\ Jobs' = Jobs /\ Expired \subseteq Jobs
  BY <1>1 DEF Expired, Jobs
<1>6. stuck' => \E i \in Expired' : inbox'[i] # {} /\ \A k \in Expired' : i <= k
  BY <1>3, <1>5 DEF CleanupStopsAtReplies
<1>7. \A e \in Deliveries : event'[e].job \in Jobs' => job'[event'[e].job] # "deleted"
  <2> SUFFICES ASSUME NEW e \in Deliveries, event'[e].job \in Jobs PROVE job[event'[e].job] # "deleted"
    BY <1>5
  <2>1. CASE e = d
    <3>1. event'[e].job = j
      BY <2>1 DEF Write, Typed
    <3> QED BY <1>1, <3>1
  <2>2. CASE e # d
    <3>1. event'[e].job = event[e].job
      BY <2>2 DEF Write, Typed
    <3> QED BY <3>1 DEF CleanupStopsAtReplies
  <2> QED BY <2>1, <2>2
<1>8. \A k \in Jobs' : job'[k] = "deleted" => inbox'[k] = {}
  BY <1>1, <1>3, <1>5 DEF CleanupStopsAtReplies
<1> QED BY <1>4, <1>6, <1>7, <1>8 DEF CleanupStopsAtReplies

(* A new job is the youngest, active and without replies.                  *)
LEMMA TablesCreate ==
  ASSUME Typed, Tables, CleanupStopsAtReplies, UNCHANGED <<old, stuck>>, Active = {},
         NEW d \in Deliveries, Write(d, Len(job) + 1),
         job' = Append(job, "active"), inbox' = Append(inbox, {})
  PROVE  Tables' /\ CleanupStopsAtReplies'
<1> DEFINE n == Len(job) + 1
<1>1. Len(job) \in Nat /\ Jobs = 1..Len(job) /\ inbox \in Seq(SUBSET Deliveries) /\ Len(inbox) = Len(job)
  BY JobNumbers DEF Tables
<1>2. /\ Jobs' = 1..n /\ Len(job') = n /\ job'[n] = "active"
      /\ \A j \in Jobs : job'[j] = job[j]
  BY <1>1 DEF Typed, Jobs
<1>3. /\ inbox' \in Seq(SUBSET Deliveries) /\ Len(inbox') = n /\ inbox'[n] = {}
      /\ \A j \in Jobs : inbox'[j] = inbox[j]
  BY <1>1
<1>4. n \in Nat /\ n \notin Jobs /\ Jobs' = Jobs \union {n} /\ <<"job", n>> \notin old
  BY <1>1, <1>2 DEF Tables
<1> HIDE DEF n
<1>5. Tables'
  <2>1. \A j \in Jobs' : job'[j] = "active" => j = n
    BY <1>2, <1>4 DEF Active
  <2>2. \A j \in Jobs' : job'[j] = "deleted" => <<"job", j>> \in old
    BY <1>2, <1>4 DEF Tables
  <2>3. \A j \in Nat : <<"job", j>> \in old => j \in Jobs'
    BY <1>4 DEF Tables
  <2>4. \A i, j \in Jobs' : i < j /\ <<"job", j>> \in old => <<"job", i>> \in old
    <3> SUFFICES ASSUME NEW i \in Jobs', NEW j \in Jobs', i < j, <<"job", j>> \in old
                 PROVE  <<"job", i>> \in old
      OBVIOUS
    <3>1. j \in Jobs
      BY <1>4
    <3>2. i \in Jobs
      BY <1>1, <1>2, <3>1
    <3> QED BY <3>1, <3>2 DEF Tables
  <2> QED BY <1>2, <1>3, <1>4, <2>1, <2>2, <2>3, <2>4 DEF Tables
<1>6. Expired' = Expired /\ Expired \subseteq Jobs
  BY <1>2, <1>4 DEF Expired
<1>7. \A e \in Deliveries : event'[e].job \in Jobs' => job'[event'[e].job] # "deleted"
  <2> SUFFICES ASSUME NEW e \in Deliveries, event'[e].job \in Jobs' PROVE job'[event'[e].job] # "deleted"
    OBVIOUS
  <2>1. CASE e = d
    <3>1. event'[e].job = n
      BY <2>1 DEF Write, Typed, n
    <3> QED BY <1>2, <3>1
  <2>2. CASE e # d
    <3>1. event'[e].job = event[e].job
      BY <2>2 DEF Write, Typed
    <3> QED BY <1>2, <1>4, <3>1 DEF CleanupStopsAtReplies
  <2> QED BY <2>1, <2>2
<1>8. \A j \in Jobs' : job'[j] = "deleted" => inbox'[j] = {}
  BY <1>2, <1>3, <1>4 DEF CleanupStopsAtReplies
<1>9. stuck' => \E i \in Expired' : inbox'[i] # {} /\ \A k \in Expired' : i <= k
  BY <1>3, <1>6 DEF CleanupStopsAtReplies
<1> QED BY <1>5, <1>7, <1>8, <1>9 DEF CleanupStopsAtReplies

(* A job that ends is not old yet.                                         *)
LEMMA TablesEnd ==
  ASSUME Typed, Tables, CleanupStopsAtReplies, NEW j \in Jobs, EndJob(j)
  PROVE  Tables' /\ CleanupStopsAtReplies'
<1>1. /\ job[j] = "active" /\ job' = [job EXCEPT ![j] = "ended"]
      /\ UNCHANGED <<inbox, old, stuck, event>>
  BY DEF EndJob, outgoing
<1>2. Jobs = 1..Len(job) /\ Len(job) \in Nat /\ <<"job", j>> \notin old
  BY <1>1, JobNumbers DEF Tables
<1>3. /\ Jobs' = Jobs /\ Len(job') = Len(job) /\ job'[j] = "ended"
      /\ \A k \in Jobs : k # j => job'[k] = job[k]
  BY <1>1, <1>2 DEF Typed, Jobs
<1>4. Expired' = Expired
  BY <1>1, <1>2, <1>3 DEF Expired
<1>5. Tables'
  BY <1>1, <1>2, <1>3 DEF Tables
<1> QED BY <1>1, <1>3, <1>4, <1>5 DEF CleanupStopsAtReplies

(* With a job every older job gets old that is not old yet.                *)
LEMMA TablesAge ==
  ASSUME Typed, Tables, CleanupStopsAtReplies, Age
  PROVE  Tables' /\ CleanupStopsAtReplies'
<1>1. UNCHANGED <<job, inbox, stuck, event>> /\ Jobs' = Jobs
  BY DEF Age, outgoing, Jobs
<1>2. Jobs = 1..Len(job) /\ Len(job) \in Nat /\ \A j \in Jobs : job[j] \in {"active", "ended", "deleted"}
  BY JobNumbers DEF Typed
<1>3. \A j \in Nat : <<"job", j>> \in old' <=> <<"job", j>> \in old \/ (j \in Jobs /\ job[j] = "ended")
  <2> DEFINE came == {<<"delivery", d>> : d \in registered}
             ended == {<<"job", j>> : j \in {i \in Jobs : job[i] = "ended"}}
  <2>1. old' = old \union came \union ended
    BY DEF Age
  <2>2. \A j : <<"job", j>> \notin came
    OBVIOUS
  <2>3. \A j : <<"job", j>> \in ended <=> j \in Jobs /\ job[j] = "ended"
    OBVIOUS
  <2> HIDE DEF came, ended
  <2> QED BY <2>1, <2>2, <2>3
<1>4. \A i, j \in Jobs : i < j /\ <<"job", j>> \in old' => <<"job", i>> \in old'
  <2> SUFFICES ASSUME NEW i \in Jobs, NEW j \in Jobs, i < j, <<"job", j>> \in old'
               PROVE  <<"job", i>> \in old'
    OBVIOUS
  <2>1. i # Len(job) /\ i \in Nat /\ j \in Nat
    BY <1>2
  <2>2. job[i] # "active"
    BY <2>1 DEF Tables
  <2>3. <<"job", j>> \in old => <<"job", i>> \in old
    BY DEF Tables
  <2>4. job[i] = "deleted" => <<"job", i>> \in old
    BY DEF Tables
  <2>5. job[i] = "ended" \/ <<"job", i>> \in old
    BY <1>2, <2>2, <2>4
  <2> QED BY <1>3, <2>1, <2>5
<1>5. Tables'
  <2>1. \A j \in Jobs : j \in Nat
    BY <1>2
  <2>2. \A j \in Jobs : job[j] = "active" => j = Len(job) /\ <<"job", j>> \notin old'
    BY <1>3, <2>1 DEF Tables
  <2>3. \A j \in Jobs : job[j] = "deleted" => <<"job", j>> \in old'
    BY <1>3, <2>1 DEF Tables
  <2>4. \A j \in Nat : <<"job", j>> \in old' => j \in Jobs
    BY <1>3 DEF Tables
  <2> QED BY <1>1, <1>4, <2>2, <2>3, <2>4 DEF Tables
<1>6. stuck' => \E i \in Expired' : inbox'[i] # {} /\ \A k \in Expired' : i <= k
  <2> SUFFICES ASSUME stuck PROVE \E i \in Expired' : inbox[i] # {} /\ \A k \in Expired' : i <= k
    BY <1>1
  <2>1. PICK i \in Expired : inbox[i] # {} /\ \A k \in Expired : i <= k
    BY DEF CleanupStopsAtReplies
  <2>2. i \in Jobs /\ i \in Nat /\ job[i] = "ended" /\ <<"job", i>> \in old
    BY <1>2, <2>1 DEF Expired
  <2>4. i \in Expired'
    BY <1>1, <1>3, <2>2 DEF Expired
  <2>3. ASSUME NEW k \in Expired' PROVE i <= k
    <3>1. k \in Jobs /\ job[k] = "ended"
      BY <1>1, <2>3 DEF Expired
    <3>2. k < i => k \in Expired
      BY <2>2, <3>1 DEF Tables, Expired
    <3>3. ~(k < i)
      BY <1>2, <2>1, <2>2, <3>1, <3>2
    <3> QED BY <1>2, <2>2, <3>1, <3>3
  <2> QED BY <2>1, <2>3, <2>4
<1> QED BY <1>1, <1>5, <1>6 DEF CleanupStopsAtReplies

(* A cleanup that is stopped leaves the oldest job it cannot delete, and   *)
(* that one has a reply.                                                   *)
LEMMA TablesCleanup ==
  ASSUME Typed, Tables, CleanupStopsAtReplies, Cleanup
  PROVE  Tables' /\ CleanupStopsAtReplies'
<1> DEFINE refused == {j \in Expired : ~Deletable(j)}
           deleted == {j \in Expired : \A k \in refused : j < k}
<1>1. /\ job' = [j \in Jobs |-> IF j \in deleted THEN "deleted" ELSE job[j]]
      /\ event' = [d \in Deliveries |-> IF event[d].job \in deleted THEN NoEvent ELSE event[d]]
      /\ stuck' = (refused # {}) /\ UNCHANGED <<inbox, old>>
  BY DEF Cleanup
<1>2. Jobs = 1..Len(job) /\ Len(job) \in Nat /\ Expired \subseteq Jobs /\ refused \subseteq Expired
  BY JobNumbers DEF Expired
<1>3. deleted \subseteq Expired /\ deleted \intersect refused = {}
  <2> SUFFICES ASSUME NEW j \in deleted, j \in refused PROVE FALSE
    OBVIOUS
  <2>1. j < j /\ j \in Nat
    BY <1>2
  <2> QED BY <2>1
<1>4. \A j \in refused : inbox[j] # {}
  BY DEF Deletable, Referring
<1>5. \A j \in deleted : inbox[j] = {} /\ <<"job", j>> \in old
  <2> SUFFICES ASSUME NEW j \in deleted PROVE inbox[j] = {} /\ <<"job", j>> \in old
    OBVIOUS
  <2>1. j \in Expired /\ Deletable(j)
    BY <1>3
  <2>2. "bot_inbox_messages" \notin Referring(j)
    BY <2>1 DEF Deletable
  <2> QED BY <2>1, <2>2 DEF Referring, Expired
<1> HIDE DEF refused
<1>6. \A y \in Expired \ deleted : \E k \in refused : ~(y < k)
  OBVIOUS
<1>7. ASSUME refused # {}
      PROVE  \E x \in refused : \A y \in Expired \ deleted : x <= y
  <2>1. refused \subseteq Nat
    BY <1>2
  <2>2. PICK x \in refused : \A y \in refused : x <= y
    BY <1>7, <2>1, LeastOf
  <2>3. ASSUME NEW y \in Expired \ deleted PROVE x <= y
    <3>1. PICK k \in refused : ~(y < k)
      BY <1>6
    <3>2. x \in Nat /\ y \in Nat /\ k \in Nat /\ x <= k
      BY <1>2, <2>2
    <3> QED BY <3>1, <3>2
  <2> QED BY <2>3
<1> HIDE DEF deleted
<1>8. Jobs' = Jobs /\ job' \in [1..Len(job) -> {"active", "ended", "deleted"}]
  BY <1>1, <1>2 DEF Typed, Jobs
<1>9. Len(job') = Len(job)
  BY <1>2, <1>8, RewrittenTable
<1>10. \A j \in Jobs : job'[j] = IF j \in deleted THEN "deleted" ELSE job[j]
  BY <1>1
<1>11. Expired' = Expired \ deleted
  BY <1>1, <1>8, <1>10 DEF Expired
<1>12. Tables'
  BY <1>1, <1>5, <1>8, <1>9, <1>10 DEF Tables
<1>13. stuck' => \E i \in Expired' : inbox'[i] # {} /\ \A k \in Expired' : i <= k
  BY <1>1, <1>2, <1>3, <1>4, <1>7, <1>11
<1>14. \A d \in Deliveries : event'[d].job \in Jobs' => job'[event'[d].job] # "deleted"
  <2> SUFFICES ASSUME NEW d \in Deliveries, event'[d].job \in Jobs PROVE job'[event'[d].job] # "deleted"
    BY <1>8
  <2>1. event[d].job \notin deleted
    <3> SUFFICES ASSUME event[d].job \in deleted PROVE FALSE
      OBVIOUS
    <3>1. event'[d].job = 0
      BY <1>1 DEF NoEvent
    <3> QED BY <1>2, <3>1
  <2>2. event'[d] = event[d]
    BY <1>1, <2>1
  <2> QED BY <1>10, <2>1, <2>2 DEF CleanupStopsAtReplies
<1>15. \A j \in Jobs' : job'[j] = "deleted" => inbox'[j] = {}
  BY <1>1, <1>5, <1>8, <1>10 DEF CleanupStopsAtReplies
<1> QED BY <1>12, <1>13, <1>14, <1>15 DEF CleanupStopsAtReplies

(* Every step keeps the tables in order.                                   *)
LEMMA TablesNext ==
  ASSUME Typed, Tables, CleanupStopsAtReplies, [Next]_vars
  PROVE  Tables' /\ CleanupStopsAtReplies'
<1>1. ASSUME NEW d \in Deliveries, Arrive(d) \/ AskFails(d) \/ Respond(d)
      PROVE  UNCHANGED <<job, inbox, old, stuck, event>>
  BY <1>1 DEF Arrive, AskFails, Respond, records, outgoing
<1>2. ASSUME Find \/ CreateComment \/ Die \/ Restart \/ Comment \/ UNCHANGED vars
      PROVE  UNCHANGED <<job, inbox, old, stuck, event>>
  BY <1>2 DEF Find, CreateComment, Die, Restart, Comment, vars, records, outgoing
<1>3. ASSUME NEW d \in Deliveries, Claim(d) PROVE Tables' /\ CleanupStopsAtReplies'
  <2>1. UNCHANGED <<job, inbox, old, stuck>> /\ \A e \in Deliveries : event'[e].job = event[e].job
    BY <1>3 DEF Claim, records, Typed, Events
  <2> QED BY <2>1, TablesQuiet
<1>4. CASE Complete
  <2>1. UNCHANGED <<job, inbox, old, stuck>> /\ \A e \in Deliveries : event'[e].job = event[e].job
    BY <1>4 DEF Complete, records, Typed, Events
  <2> QED BY <2>1, TablesQuiet
<1>5. ASSUME NEW kind \in {"temporary", "permanent", "other"}, RequestFails(kind)
      PROVE  Tables' /\ CleanupStopsAtReplies'
  <2>1. UNCHANGED <<job, inbox, old, stuck>> /\ \A e \in Deliveries : event'[e].job = event[e].job
    BY <1>5 DEF RequestFails, records, Typed, Events
  <2> QED BY <2>1, TablesQuiet
<1>6. ASSUME NEW d \in Deliveries, Permitted(d) PROVE Tables' /\ CleanupStopsAtReplies'
  <2>1. UNCHANGED <<job, old, stuck>>
    BY <1>6 DEF Permitted
  <2>2. \/ UNCHANGED <<event, inbox>>
        \/ \E j \in Active : Write(d, j) /\ (inbox' = inbox \/ inbox' = [inbox EXCEPT ![j] = @ \union {d}])
    BY <1>6 DEF Permitted
  <2> QED BY <2>1, <2>2, TablesQuiet, TablesWrite
<1>7. ASSUME NEW d \in Deliveries, Create(d) PROVE Tables' /\ CleanupStopsAtReplies'
  <2>1. UNCHANGED <<old, stuck>>
    BY <1>7 DEF Create
  <2>2. CASE Active # {}
    BY <1>7, <2>1, <2>2, TablesQuiet DEF Create
  <2>3. CASE Active = {}
    BY <1>7, <2>1, <2>3, TablesCreate DEF Create
  <2> QED BY <2>2, <2>3
<1> QED
  BY <1>1, <1>2, <1>3, <1>4, <1>5, <1>6, <1>7, TablesQuiet, TablesEnd, TablesAge, TablesCleanup
     DEF Next, Dispatch

(* A cleanup stops only at a job with a reply, and no older job than that  *)
(* is left then; what was deleted leaves no event and no reply: for any    *)
(* number of deliveries and jobs.                                          *)
THEOREM CleanupsStopAtReplies == Spec => []CleanupStopsAtReplies
<1>1. Init => Typed /\ Tables /\ CleanupStopsAtReplies
  <2>1. Init => Tables /\ CleanupStopsAtReplies
    BY DEF Init, Tables, CleanupStopsAtReplies, Jobs, NoEvent
  <2> QED BY <2>1, TypedInit
<1>2. Typed /\ Tables /\ CleanupStopsAtReplies /\ [Next]_vars
        => (Typed /\ Tables /\ CleanupStopsAtReplies)'
  BY TypedNext, TablesNext
<1> QED BY <1>1, <1>2, PTL DEF Spec

-----------------------------------------------------------------------------
(* The file of a Session, in the scenario "torn" of MCRecovery: processes  *)
(* die in the middle of a record, and others read while the Session is in  *)
(* use.  Records are written whole and in order, so the file is always the *)
(* beginning of such a sequence (Shaped); a runtime that holds the lock    *)
(* knows more of it than others (Holds), and between Truncate and Rewrite  *)
(* the records are in its memory only.  All this is true until a process   *)
(* dies between the two, or a lister repairs the file (disturbed).         *)

(* A piece, and what follows it within a record and between two.           *)
FilePieces == [rec : Nat, part : 1 .. 3]
Follows(a, b) ==
  /\ a.part = 1 => b.part = 2 /\ b.rec = a.rec
  /\ a.part = 2 => b.part = 3
  /\ a.part = 3 => b.part = 1

(* Records up to the number `top`, in the order of their numbers; the last *)
(* one may lack its end.                                                   *)
Shaped(raw, top) ==
  /\ raw \in Seq(FilePieces)
  /\ Len(raw) > 0 => raw[1].part = 1
  /\ \A i \in 1 .. Len(raw) - 1 : Follows(raw[i], raw[i + 1])
  /\ \A i \in 1 .. Len(raw) : raw[i].part = 1 => raw[i].rec \in 1 .. top
  /\ \A i, j \in 1 .. Len(raw) :
       i < j /\ raw[i].part = 1 /\ raw[j].part = 1 => raw[i].rec < raw[j].rec

(* The last line has its end.                                              *)
Closed(raw) == Len(raw) > 0 => raw[Len(raw)].part = 3

(* Every acknowledged record is there as a whole line.                     *)
Stored(raw, r) ==
  \E i \in 1 .. Len(raw) : i + 2 <= Len(raw) /\ raw[i].part = 1 /\ raw[i].rec = r
AllStored(raw) == \A k \in 1 .. Len(acked) : Stored(raw, acked[k])

Steps ==
  {"idle", "ready", "append", "load", "newline", "truncate", "rewrite", "replay", "failed"}
LogTypes ==
  /\ file \in Seq(FilePieces) /\ exists \in BOOLEAN
  /\ process \in [Log!Processes -> [pc : Steps, todo : Seq(FilePieces), raw : Seq(FilePieces)]]
  /\ \A p \in Log!Processes : process[p].pc # "append" => process[p].todo = <<>>
  /\ written \in Nat /\ falls \in Nat /\ (~exists => written = 0 /\ file = <<>>)

(* Records are acknowledged in the order of their numbers, from the first. *)
(* Whoever has not seen it acknowledged cannot load the Session, so        *)
(* nothing is appended behind it.                                          *)
Acknowledged ==
  /\ acked \in Seq(Nat) /\ \A k \in 1 .. Len(acked) : acked[k] \in 1 .. written
  /\ \A k, m \in 1 .. Len(acked) : k < m => acked[k] < acked[m]
  /\ acked # <<>> => acked[1] = 1
  /\ written >= 2 => acked # <<>>

(* What is in the file and what is still to be written of it.              *)
Appending(total, todo) ==
  /\ Shaped(total, written) /\ Len(todo) \in 1 .. 3 /\ Len(total) >= 3
  /\ total[Len(total) - 2] = [rec |-> written, part |-> 1]
  /\ todo[Len(todo)].rec = written
  /\ \A k \in 1 .. Len(acked) : acked[k] < written

(* What a runtime that holds the lock knows of the file.                   *)
Holds(p) ==
  /\ process[p].pc # "idle" => lock = p
  /\ process[p].pc \in {"ready", "replay"} => Closed(file)
  /\ process[p].pc = "ready" => written = 0 \/ acked # <<>>
  /\ process[p].pc = "failed" => Len(acked) < 2
  /\ process[p].pc = "newline" => file # <<>> /\ file[Len(file)].part = 2
  /\ process[p].pc = "truncate" => process[p].raw = file
  /\ process[p].pc = "append" => Appending(file \o process[p].todo, process[p].todo)
  /\ process[p].pc = "rewrite" =>
       file = <<>> /\ Shaped(process[p].raw, written) /\ AllStored(process[p].raw)

(* Outside of a repair the file holds every acknowledged record.           *)
FileKept ==
  (\A p \in Runtimes : process[p].pc # "rewrite") => Shaped(file, written) /\ AllStored(file)

(* A lister reads as it likes and has repaired nothing.                    *)
Quiet ==
  \A l \in Listers :
    process[l].pc \in {"idle", "load", "newline", "truncate", "replay", "ready", "failed"}

LogInv == LogTypes /\ Acknowledged /\ (\A p \in Runtimes : Holds(p)) /\ FileKept /\ Quiet

(* A longer numbering does no harm.                                        *)
LEMMA ShapedTop ==
  ASSUME NEW raw, NEW m \in Nat, NEW n \in Nat, m <= n, Shaped(raw, m)
  PROVE  Shaped(raw, n)
<1>1. \A i \in 1 .. Len(raw) : raw[i].part = 1 => raw[i].rec \in 1 .. n
  BY DEF Shaped
<1> QED BY <1>1 DEF Shaped

(* What a part of a sequence is.                                           *)
LEMMA PrefixIs ==
  ASSUME NEW S, NEW raw \in Seq(S), NEW n \in 0 .. Len(raw)
  PROVE  /\ SubSeq(raw, 1, n) \in Seq(S) /\ Len(SubSeq(raw, 1, n)) = n
         /\ \A i \in 1 .. n : SubSeq(raw, 1, n)[i] = raw[i]
BY SubSeqProperties

(* What is cut off at the end leaves the rest in shape.                    *)
LEMMA ShapedPrefix ==
  ASSUME NEW raw, NEW top, Shaped(raw, top), NEW n \in 0 .. Len(raw)
  PROVE  Shaped(SubSeq(raw, 1, n), top)
<1> DEFINE s == SubSeq(raw, 1, n)
<1>1. raw \in Seq(FilePieces)
  BY DEF Shaped
<1>2. s \in Seq(FilePieces) /\ Len(s) = n /\ \A i \in 1 .. n : s[i] = raw[i]
  BY <1>1, PrefixIs
<1>3. Len(raw) \in Nat /\ 1 .. n \subseteq 1 .. Len(raw)
  BY <1>1
<1> HIDE DEF s
<1>4. Len(s) > 0 => s[1].part = 1
  BY <1>2, <1>3 DEF Shaped
<1>5. \A i \in 1 .. Len(s) - 1 : Follows(s[i], s[i + 1])
  BY <1>2, <1>3 DEF Shaped
<1>6. \A i \in 1 .. Len(s) : s[i].part = 1 => s[i].rec \in 1 .. top
  BY <1>2, <1>3 DEF Shaped
<1>7. \A i, j \in 1 .. Len(s) : i < j /\ s[i].part = 1 /\ s[j].part = 1 => s[i].rec < s[j].rec
  BY <1>2, <1>3 DEF Shaped
<1>8. Shaped(s, top)
  BY <1>2, <1>4, <1>5, <1>6, <1>7 DEF Shaped
<1> QED BY <1>8 DEF s

(* A set of numbers up to n has a greatest one.                            *)
LEMMA GreatestOf ==
  ASSUME NEW n \in Nat, NEW S, S \subseteq 0 .. n, S # {}
  PROVE  \E x \in S : \A y \in S : y <= x
<1> DEFINE back == {n - i : i \in S}
<1>0. \A i \in S : i \in Nat /\ i <= n
  OBVIOUS
<1>1. back \subseteq Nat
  BY <1>0
<1>2. back # {}
  OBVIOUS
<1> HIDE DEF back
<1>3. PICK e \in back : \A y \in back : ~(<<y, e>> \in OpToRel(<, Nat))
  BY <1>1, <1>2, WFMin, NatLessThanWellFounded
<1>4. \A y \in back : ~(y < e)
  BY <1>1, <1>3 DEF OpToRel
<1>5. PICK i \in S : e = n - i
  BY DEF back
<1>6. \A j \in S : j <= i
  <2> SUFFICES ASSUME NEW j \in S PROVE j <= i
    OBVIOUS
  <2>1. n - j \in back
    BY DEF back
  <2>2. ~(n - j < n - i)
    BY <1>4, <1>5, <2>1
  <2> QED BY <1>0, <2>2
<1> QED BY <1>6

(* A line end is the last one, or there is none.                           *)
LEMMA LastEndIsLast ==
  ASSUME NEW raw \in Seq(FilePieces)
  PROVE  /\ Log!LastEnd(raw) \in 0 .. Len(raw)
         /\ \A i \in 1 .. Len(raw) : raw[i].part = 3 => i <= Log!LastEnd(raw)
         /\ Log!LastEnd(raw) > 0 => raw[Log!LastEnd(raw)].part = 3
         /\ Log!LastEnd(raw) = 0 <=> Log!LineEnds(raw) = {}
<1> DEFINE E == Log!LineEnds(raw)
<1>1. E = {i \in 1 .. Len(raw) : raw[i].part = 3}
  BY DEF Log!LineEnds, Log!NewLine
<1>2. CASE E = {}
  BY <1>1, <1>2 DEF Log!LastEnd
<1>3. CASE E # {}
  <2>1. Len(raw) \in Nat /\ E \subseteq 0 .. Len(raw)
    BY <1>1
  <2> HIDE DEF E
  <2>2. \E x \in E : \A y \in E : y <= x
    BY <1>3, <2>1, GreatestOf
  <2>3. Log!LastEnd(raw) = CHOOSE x \in E : \A y \in E : x >= y
    BY <1>3 DEF Log!LastEnd, Log!Max, E
  <2>4. \E x \in E : \A y \in E : x >= y
    BY <2>1, <2>2
  <2>5. Log!LastEnd(raw) \in E /\ \A y \in E : Log!LastEnd(raw) >= y
    BY <2>3, <2>4
  <2> QED BY <1>1, <1>3, <2>1, <2>5 DEF E
<1> QED BY <1>2, <1>3

(* Where a file in shape has its lines, and which of them are records.     *)
LEMMA ShapedRecords ==
  ASSUME NEW raw, NEW top, Shaped(raw, top)
  PROVE  /\ Log!Starts(raw) = {i \in 1 .. Len(raw) : raw[i].part = 1}
         /\ Log!Records(raw) = {i \in 1 .. Len(raw) : raw[i].part = 1 /\ i + 1 <= Len(raw)}
         /\ \A i \in Log!Records(raw) : raw[i + 1].part = 2
         /\ \A i \in Log!Records(raw) : i + 2 <= Len(raw) => raw[i + 2].part = 3
<1> DEFINE R == {i \in 1 .. Len(raw) : raw[i].part = 1 /\ i + 1 <= Len(raw)}
<1>0. raw \in Seq(FilePieces)
  BY DEF Shaped
<1>1. Len(raw) \in Nat /\ \A i \in 1 .. Len(raw) : raw[i].part \in 1 .. 3
  <2>1. \A i \in 1 .. Len(raw) : raw[i] \in FilePieces
    BY <1>0
  <2> QED BY <1>0, <2>1 DEF FilePieces
<1>2. \A i \in 1 .. Len(raw) - 1 : Follows(raw[i], raw[i + 1])
  BY DEF Shaped
<1>3. \A i \in 1 .. Len(raw) : raw[i].part = 1 => i = 1 \/ raw[i - 1].part = 3
  <2> SUFFICES ASSUME NEW i \in 1 .. Len(raw), raw[i].part = 1, i # 1
               PROVE  raw[i - 1].part = 3
    OBVIOUS
  <2>1. i - 1 \in 1 .. Len(raw) - 1 /\ (i - 1) + 1 = i
    BY <1>1
  <2>2. Follows(raw[i - 1], raw[i])
    BY <1>2, <2>1
  <2>3. raw[i - 1].part \in 1 .. 3
    BY <1>1, <2>1
  <2> QED BY <2>2, <2>3 DEF Follows
<1>4. \A i \in 1 .. Len(raw) :
        raw[i].part # 3 /\ (i = 1 \/ raw[i - 1].part = 3) => raw[i].part = 1
  <2> SUFFICES ASSUME NEW i \in 1 .. Len(raw), i = 1 \/ raw[i - 1].part = 3
               PROVE  raw[i].part = 1
    OBVIOUS
  <2>1. CASE i = 1
    BY <1>1, <2>1 DEF Shaped
  <2>2. CASE i # 1
    <3>1. i - 1 \in 1 .. Len(raw) - 1 /\ (i - 1) + 1 = i
      BY <1>1, <2>2
    <3>2. Follows(raw[i - 1], raw[i])
      BY <1>2, <3>1
    <3> QED BY <2>2, <3>2 DEF Follows
  <2> QED BY <2>1, <2>2
<1>5. Log!Starts(raw) = {i \in 1 .. Len(raw) : raw[i].part = 1}
  BY <1>3, <1>4 DEF Log!Starts, Log!NewLine
<1>6. \A i \in R : raw[i + 1].part = 2 /\ raw[i + 1].rec = raw[i].rec
  <2> SUFFICES ASSUME NEW i \in R
               PROVE  raw[i + 1].part = 2 /\ raw[i + 1].rec = raw[i].rec
    OBVIOUS
  <2>1. i \in 1 .. Len(raw) - 1
    BY <1>1
  <2> QED BY <1>2, <2>1 DEF Follows
<1>7. \A i \in R : i + 2 <= Len(raw) => raw[i + 2].part = 3
  <2> SUFFICES ASSUME NEW i \in R, i + 2 <= Len(raw) PROVE raw[i + 2].part = 3
    OBVIOUS
  <2>1. i + 1 \in 1 .. Len(raw) - 1 /\ (i + 1) + 1 = i + 2
    BY <1>1
  <2>2. Follows(raw[i + 1], raw[i + 2])
    BY <1>2, <2>1
  <2> QED BY <1>6, <2>2 DEF Follows
<1>8. Log!Records(raw) \subseteq R
  <2> SUFFICES ASSUME NEW i \in Log!Records(raw) PROVE i \in R
    OBVIOUS
  <2>1. i \in 1 .. Len(raw) /\ i < Len(raw) /\ raw[i].part = 1
    BY <1>5 DEF Log!Records
  <2> QED BY <1>1, <2>1
<1>9. R \subseteq Log!Records(raw)
  <2> SUFFICES ASSUME NEW i \in R PROVE i \in Log!Records(raw)
    OBVIOUS
  <2>1. i \in Log!Starts(raw) /\ i < Len(raw) /\ raw[i].part = 1
    BY <1>1, <1>5
  <2>2. i + 1 = Len(raw) \/ raw[i + 2].part = 3
    BY <1>1, <1>7
  <2> QED BY <1>6, <2>1, <2>2 DEF Log!Records, Log!NewLine
<1> QED BY <1>5, <1>6, <1>7, <1>8, <1>9

(* A record that is there stays there while the file only grows,           *)
LEMMA StoredLonger ==
  ASSUME NEW raw \in Seq(FilePieces), NEW longer \in Seq(FilePieces), NEW r,
         Len(raw) <= Len(longer), \A i \in 1 .. Len(raw) : longer[i] = raw[i], Stored(raw, r)
  PROVE  Stored(longer, r)
<1>1. PICK i \in 1 .. Len(raw) : i + 2 <= Len(raw) /\ raw[i].part = 1 /\ raw[i].rec = r
  BY DEF Stored
<1>2. i \in 1 .. Len(longer) /\ i + 2 <= Len(longer) /\ longer[i] = raw[i]
  BY <1>1
<1> QED BY <1>1, <1>2 DEF Stored

(* and when it loses no more than what follows its last end of a line.     *)
LEMMA StoredPrefix ==
  ASSUME NEW raw, NEW top, Shaped(raw, top), NEW r, Stored(raw, r)
  PROVE  Stored(Log!Prefix(raw), r)
<1> DEFINE n == Log!LastEnd(raw)
           s == SubSeq(raw, 1, n)
<1>1. raw \in Seq(FilePieces)
  BY DEF Shaped
<1>2. n \in 0 .. Len(raw) /\ \A i \in 1 .. Len(raw) : raw[i].part = 3 => i <= n
  BY <1>1, LastEndIsLast
<1>3. PICK i \in 1 .. Len(raw) : i + 2 <= Len(raw) /\ raw[i].part = 1 /\ raw[i].rec = r
  BY DEF Stored
<1>4. i \in Log!Records(raw)
  BY <1>1, <1>3, ShapedRecords
<1>5. raw[i + 2].part = 3
  BY <1>3, <1>4, ShapedRecords
<1>6. i + 2 <= n
  BY <1>1, <1>2, <1>3, <1>5
<1> HIDE DEF n
<1>7. Len(s) = n /\ \A k \in 1 .. n : s[k] = raw[k]
  BY <1>1, <1>2, PrefixIs
<1> HIDE DEF s
<1>8. Stored(s, r)
  BY <1>1, <1>2, <1>3, <1>6, <1>7 DEF Stored
<1> QED BY <1>8 DEF s, n, Log!Prefix

(* The pieces of the next record keep the shape of a file that is closed.  *)
LEMMA PiecesAppended ==
  ASSUME NEW raw, NEW top \in Nat, Shaped(raw, top), Closed(raw)
  PROVE  /\ Log!Pieces(top + 1) \in Seq(FilePieces) /\ Len(Log!Pieces(top + 1)) = 3
         /\ Log!Pieces(top + 1)[3].rec = top + 1
         /\ Shaped(raw \o Log!Pieces(top + 1), top + 1)
         /\ Len(raw \o Log!Pieces(top + 1)) = Len(raw) + 3
         /\ (raw \o Log!Pieces(top + 1))[Len(raw) + 1] = [rec |-> top + 1, part |-> 1]
<1> DEFINE pieces == Log!Pieces(top + 1)
           total == raw \o pieces
           n == Len(raw)
<1>1. raw \in Seq(FilePieces) /\ n \in Nat
  BY DEF Shaped
<1>2. /\ pieces \in Seq(FilePieces) /\ Len(pieces) = 3
      /\ pieces[1] = [rec |-> top + 1, part |-> 1] /\ pieces[2] = [rec |-> top + 1, part |-> 2]
      /\ pieces[3] = [rec |-> top + 1, part |-> 3]
  BY DEF Log!Pieces, FilePieces
<1> HIDE DEF pieces
<1>a. /\ total \in Seq(FilePieces) /\ Len(total) = n + 3
      /\ \A i \in 1 .. n + 3 : total[i] = IF i <= n THEN raw[i] ELSE pieces[i - n]
  <2>1. /\ raw \o pieces \in Seq(FilePieces) /\ Len(raw \o pieces) = Len(raw) + Len(pieces)
        /\ \A i \in 1 .. Len(raw) + Len(pieces) :
             (raw \o pieces)[i] = IF i <= Len(raw) THEN raw[i] ELSE pieces[i - Len(raw)]
    BY <1>1, <1>2, ConcatProperties, Zenon
  <2> QED BY <1>2, <2>1, Zenon
<1> HIDE DEF total, n
<1>3. total \in Seq(FilePieces) /\ Len(total) = n + 3
  BY <1>a
<1>b. \A i \in 1 .. n + 3 : total[i] = IF i <= n THEN raw[i] ELSE pieces[i - n]
  BY <1>a
<1>4. \A i \in 1 .. n : total[i] = raw[i]
  BY <1>1, <1>b
<1>c. \A k \in 1 .. 3 : total[n + k] = pieces[k]
  <2> SUFFICES ASSUME NEW k \in 1 .. 3 PROVE total[n + k] = pieces[k]
    OBVIOUS
  <2> DEFINE i == n + k
  <2>1. i \in 1 .. n + 3 /\ ~(i <= n) /\ i - n = k
    BY <1>1
  <2> HIDE DEF i
  <2>2. total[i] = pieces[i - n]
    BY <1>b, <2>1
  <2> QED BY <2>1, <2>2 DEF i
<1>5. total[n + 1] = pieces[1] /\ total[n + 2] = pieces[2] /\ total[n + 3] = pieces[3]
  BY <1>c
<1>6. \A i \in 1 .. n + 3 : i \in 1 .. n \/ i = n + 1 \/ i = n + 2 \/ i = n + 3
  BY <1>1
<1>7. Len(total) > 0 => total[1].part = 1
  <2>1. CASE n = 0
    BY <1>2, <1>5, <2>1
  <2>2. CASE n # 0
    BY <1>1, <1>4, <2>2 DEF Shaped, n
  <2> QED BY <2>1, <2>2
<1>8. \A i \in 1 .. Len(total) - 1 : Follows(total[i], total[i + 1])
  <2> SUFFICES ASSUME NEW i \in 1 .. Len(total) - 1 PROVE Follows(total[i], total[i + 1])
    OBVIOUS
  <2>1. i \in 1 .. n - 1 \/ i = n \/ i = n + 1 \/ i = n + 2
    BY <1>1, <1>3
  <2>2. CASE i \in 1 .. n - 1
    <3>1. i \in 1 .. n /\ i + 1 \in 1 .. n
      BY <1>1, <2>2
    <3>2. Follows(raw[i], raw[i + 1])
      BY <2>2 DEF Shaped, n
    <3> QED BY <1>4, <3>1, <3>2
  <2>3. CASE i = n
    <3>1. n \in 1 .. n /\ raw[n].part = 3
      BY <1>1, <2>3 DEF Closed, n
    <3> QED BY <1>2, <1>4, <1>5, <2>3, <3>1 DEF Follows
  <2>4. CASE i = n + 1
    BY <1>1, <1>2, <1>5, <2>4 DEF Follows
  <2>5. CASE i = n + 2
    BY <1>1, <1>2, <1>5, <2>5 DEF Follows
  <2> QED BY <2>1, <2>2, <2>3, <2>4, <2>5
<1>9. \A i \in 1 .. n : raw[i].part = 1 => raw[i].rec \in 1 .. top
  BY DEF Shaped, n
<1>10. \A i \in 1 .. Len(total) : total[i].part = 1 => total[i].rec \in 1 .. top + 1
  <2> SUFFICES ASSUME NEW i \in 1 .. n + 3, total[i].part = 1
               PROVE  total[i].rec \in 1 .. top + 1
    BY <1>3
  <2>1. CASE i \in 1 .. n
    <3>1. total[i].rec \in 1 .. top
      BY <1>4, <1>9, <2>1
    <3> QED BY <3>1
  <2>2. CASE i = n + 1
    BY <1>2, <1>5, <2>2
  <2> QED BY <1>2, <1>5, <1>6, <2>1, <2>2
<1>11. \A i, j \in 1 .. Len(total) :
         i < j /\ total[i].part = 1 /\ total[j].part = 1 => total[i].rec < total[j].rec
  <2> SUFFICES ASSUME NEW i \in 1 .. n + 3, NEW j \in 1 .. n + 3, i < j,
                      total[i].part = 1, total[j].part = 1
               PROVE  total[i].rec < total[j].rec
    BY <1>3
  <2>1. \A k \in 1 .. n + 3 : total[k].part = 1 => k \in 1 .. n \/ k = n + 1
    BY <1>2, <1>5, <1>6
  <2>2. i \in 1 .. n
    BY <1>1, <2>1
  <2>3. CASE j \in 1 .. n
    <3>1. raw[i].rec < raw[j].rec
      BY <1>4, <2>2, <2>3 DEF Shaped, n
    <3> QED BY <1>4, <2>2, <2>3, <3>1
  <2>4. CASE j = n + 1
    <3>1. total[i].rec \in 1 .. top
      BY <1>4, <1>9, <2>2
    <3> QED BY <1>2, <1>5, <2>4, <3>1
  <2> QED BY <2>1, <2>3, <2>4
<1>12. Shaped(total, top + 1)
  BY <1>3, <1>7, <1>8, <1>10, <1>11 DEF Shaped
<1> QED BY <1>2, <1>3, <1>5, <1>12 DEF total, pieces, n

ProcessType == [pc : Steps, todo : Seq(FilePieces), raw : Seq(FilePieces)]

(* The lock is held by one process: while one runtime is at work the       *)
(* others are idle.                                                        *)
LEMMA OthersAreIdle ==
  ASSUME \A q \in Runtimes : Holds(q), NEW p \in Runtimes,
         process[p].pc # "idle" \/ lock = Log!Nobody
  PROVE  \A q \in Runtimes \ {p} : process[q].pc = "idle"
<1>1. \A q \in Runtimes : process[q].pc # "idle" => lock = q
  BY DEF Holds
<1>2. \A q \in Runtimes : q # Log!Nobody
  BY InstanceAssumption DEF Log!SessionAssumption, Log!Processes
<1> QED BY <1>1, <1>2

(* What is left to show of the step of a runtime.                          *)
LEMMA RuntimeStep ==
  ASSUME LogInv, NEW p \in Runtimes, process[p].pc # "idle" \/ lock = Log!Nobody,
         NEW x \in ProcessType, process' = [process EXCEPT ![p] = x],
         x.pc # "append" => x.todo = <<>>,
         file' \in Seq(FilePieces), exists' \in BOOLEAN, written' \in Nat, falls' \in Nat,
         ~exists' => written' = 0 /\ file' = <<>>,
         Acknowledged', Holds(p)',
         x.pc # "rewrite" => Shaped(file', written') /\ AllStored(file)'
  PROVE  LogInv'
<1>1. /\ process \in [Log!Processes -> ProcessType]
      /\ p \in Log!Processes /\ Listers \subseteq Log!Processes
  BY DEF LogInv, LogTypes, ProcessType, Log!Processes
<1>2. /\ process' \in [Log!Processes -> ProcessType] /\ process'[p] = x
      /\ \A q \in Log!Processes \ {p} : process'[q] = process[q]
  BY <1>1
<1>3. \A q \in Runtimes \ {p} : process'[q] = process[q] /\ process[q].pc = "idle"
  BY <1>2, OthersAreIdle DEF LogInv, Log!Processes
<1>4. \A l \in Listers : process'[l] = process[l]
  <2>1. p \notin Listers
    BY InstanceAssumption DEF Log!SessionAssumption
  <2> QED BY <1>1, <1>2, <2>1
<1>5. \A q \in Log!Processes : process'[q].pc # "append" => process'[q].todo = <<>>
  BY <1>1, <1>2 DEF LogInv, LogTypes
<1>6. LogTypes'
  BY <1>2, <1>5 DEF LogTypes, ProcessType
<1>7. \A q \in Runtimes : Holds(q)'
  <2> SUFFICES ASSUME NEW q \in Runtimes, q # p PROVE Holds(q)'
    OBVIOUS
  <2>1. process'[q].pc = "idle"
    BY <1>3
  <2> QED BY <2>1 DEF Holds
<1>8. FileKept'
  BY <1>2 DEF FileKept
<1>9. Quiet'
  BY <1>4 DEF LogInv, Quiet
<1> QED BY <1>6, <1>7, <1>8, <1>9 DEF LogInv

(* A lister that does not repair changes nothing but itself.               *)
LEMMA ListerStep ==
  ASSUME LogInv, NEW p \in Listers, NEW x \in ProcessType, process' = [process EXCEPT ![p] = x],
         x.pc \in {"idle", "load", "newline", "truncate", "replay", "ready", "failed"},
         x.todo = <<>>, falls' \in Nat,
         lock' = (IF lock = p THEN Log!Nobody ELSE lock) \/ lock' = lock,
         UNCHANGED <<file, exists, written, acked>>
  PROVE  LogInv'
<1>1. /\ process \in [Log!Processes -> ProcessType]
      /\ p \in Log!Processes /\ Runtimes \subseteq Log!Processes
  BY DEF LogInv, LogTypes, ProcessType, Log!Processes
<1>2. /\ process' \in [Log!Processes -> ProcessType] /\ process'[p] = x
      /\ \A q \in Log!Processes \ {p} : process'[q] = process[q]
  BY <1>1
<1>3. p \notin Runtimes
  BY InstanceAssumption DEF Log!SessionAssumption
<1>4. \A q \in Runtimes : process'[q] = process[q]
  BY <1>1, <1>2, <1>3
<1>5. \A q \in Log!Processes : process'[q].pc # "append" => process'[q].todo = <<>>
  BY <1>1, <1>2 DEF LogInv, LogTypes
<1>6. LogTypes'
  BY <1>2, <1>5 DEF LogTypes, LogInv, ProcessType
<1>7. \A q \in Runtimes : Holds(q)'
  <2> SUFFICES ASSUME NEW q \in Runtimes PROVE Holds(q)'
    OBVIOUS
  <2>1. process'[q] = process[q] /\ Holds(q)
    BY <1>4 DEF LogInv
  <2>2. process'[q].pc # "idle" => lock' = q
    BY <1>3, <2>1 DEF Holds
  <2>3. Appending(file \o process[q].todo, process[q].todo)' <=>
          Appending(file \o process[q].todo, process[q].todo)
    <3>1. file' = file /\ written' = written /\ acked' = acked /\ process'[q] = process[q]
      BY <2>1
    <3> QED BY <3>1, Zenon DEF Appending
  <2>4. AllStored(process[q].raw)' <=> AllStored(process[q].raw)
    BY <2>1 DEF AllStored
  <2> QED BY <2>1, <2>2, <2>3, <2>4 DEF Holds
<1>8. FileKept'
  BY <1>4 DEF LogInv, FileKept, AllStored
<1>9. Acknowledged'
  BY DEF LogInv, Acknowledged
<1>10. Quiet'
  BY <1>1, <1>2 DEF LogInv, Quiet, Log!Processes
<1> QED BY <1>6, <1>7, <1>8, <1>9, <1>10 DEF LogInv

(* What a runtime finds that is at work, or that takes the free lock.      *)
LEMMA AtWork ==
  ASSUME LogInv, NEW p \in Runtimes, process[p].pc # "idle" \/ lock = Log!Nobody,
         process[p].pc # "rewrite"
  PROVE  /\ process \in [Log!Processes -> ProcessType]
         /\ p \in Log!Processes /\ process[p] \in ProcessType /\ Holds(p)
         /\ Shaped(file, written) /\ AllStored(file)
<1>1. process \in [Log!Processes -> ProcessType] /\ p \in Log!Processes
  BY DEF LogInv, LogTypes, ProcessType, Log!Processes
<1>2. \A q \in Runtimes \ {p} : process[q].pc = "idle"
  BY OthersAreIdle DEF LogInv
<1> QED BY <1>1, <1>2 DEF LogInv, FileKept

(* A runtime takes the free lock, of a Session that may not exist yet.     *)
LEMMA AcquireStep ==
  ASSUME LogInv, NEW p \in Runtimes, Log!Acquire(p)
  PROVE  LogInv'
<1> DEFINE x == [process[p] EXCEPT !.pc = IF exists THEN "load" ELSE "ready"]
<1>1. process[p].pc = "idle" /\ lock = Log!Nobody /\ lock' = p
  BY DEF Log!Acquire
<1>2. UNCHANGED <<file, exists, acked, written, loads, falls>>
  BY DEF Log!Acquire
<1>3. /\ process \in [Log!Processes -> ProcessType]
      /\ p \in Log!Processes /\ process[p] \in ProcessType /\ Holds(p)
      /\ Shaped(file, written) /\ AllStored(file)
  BY <1>1, AtWork
<1>4. x \in ProcessType /\ x.pc = (IF exists THEN "load" ELSE "ready") /\ x.todo = <<>>
  BY <1>1, <1>3 DEF ProcessType, Steps, LogInv, LogTypes
<1>5. process' = [process EXCEPT ![p] = x]
  BY <1>3 DEF Log!Acquire, Log!Goto
<1> HIDE DEF x
<1>6. process'[p] = x
  BY <1>3, <1>5
<1>7. ~exists => written = 0 /\ file = <<>>
  BY DEF LogInv, LogTypes
<1>8. Holds(p)'
  BY <1>1, <1>2, <1>4, <1>6, <1>7 DEF Holds, Closed
<1>9. Acknowledged'
  BY <1>2 DEF LogInv, Acknowledged
<1>10. AllStored(file)'
  BY <1>2, <1>3 DEF AllStored
<1>11. file' \in Seq(FilePieces) /\ exists' \in BOOLEAN /\ written' \in Nat /\ falls' \in Nat
  BY <1>2 DEF LogInv, LogTypes
<1> QED BY <1>1, <1>2, <1>3, <1>4, <1>5, <1>7, <1>8, <1>9, <1>10, <1>11, RuntimeStep

(* It gives the lock back, and knows nothing of the file any more.         *)
LEMMA ReleaseStep ==
  ASSUME LogInv, NEW p \in Runtimes, Log!Release(p)
  PROVE  LogInv'
<1>1. process[p].pc \in {"ready", "failed"}
  BY DEF Log!Release
<1>2. UNCHANGED <<file, exists, acked, written, loads, falls>>
  BY DEF Log!Release
<1>3. /\ process \in [Log!Processes -> ProcessType]
      /\ p \in Log!Processes /\ process[p] \in ProcessType /\ Holds(p)
      /\ Shaped(file, written) /\ AllStored(file)
  BY <1>1, AtWork
<1>4. Log!Idle \in ProcessType /\ Log!Idle.pc = "idle" /\ Log!Idle.todo = <<>>
  BY DEF ProcessType, Steps, Log!Idle
<1>5. process' = [process EXCEPT ![p] = Log!Idle]
  BY DEF Log!Release
<1>6. process'[p] = Log!Idle
  BY <1>3, <1>5
<1>7. Holds(p)'
  BY <1>4, <1>6 DEF Holds
<1>8. Acknowledged'
  BY <1>2 DEF LogInv, Acknowledged
<1>9. AllStored(file)'
  BY <1>2, <1>3 DEF AllStored
<1>10. /\ file' \in Seq(FilePieces) /\ exists' \in BOOLEAN /\ written' \in Nat /\ falls' \in Nat
       /\ ~exists' => written' = 0 /\ file' = <<>>
  BY <1>2 DEF LogInv, LogTypes
<1> QED BY <1>1, <1>2, <1>3, <1>4, <1>5, <1>7, <1>8, <1>9, <1>10, RuntimeStep

(* It may append because what it loaded was readable and closed.           *)
LEMMA StartAppendStep ==
  ASSUME LogInv, NEW p \in Runtimes, Log!StartAppend(p)
  PROVE  LogInv'
<1> DEFINE w == written + 1
           x == [process[p] EXCEPT !.pc = "append", !.todo = Log!Pieces(w)]
           total == file \o Log!Pieces(w)
<1>1. process[p].pc = "ready" /\ exists' = TRUE /\ written' = w
  BY DEF Log!StartAppend
<1>2. UNCHANGED <<file, lock, acked, loads, falls>>
  BY DEF Log!StartAppend
<1>3. /\ process \in [Log!Processes -> ProcessType]
      /\ p \in Log!Processes /\ process[p] \in ProcessType /\ Holds(p)
      /\ Shaped(file, written) /\ AllStored(file)
  BY <1>1, AtWork
<1>4. written \in Nat /\ file \in Seq(FilePieces) /\ falls \in Nat
  BY DEF LogInv, LogTypes
<1>5. Closed(file) /\ (written = 0 \/ acked # <<>>) /\ lock = p
  BY <1>1, <1>3 DEF Holds
<1>6. /\ Log!Pieces(w) \in Seq(FilePieces) /\ Len(Log!Pieces(w)) = 3
      /\ Log!Pieces(w)[3].rec = w /\ Shaped(total, w)
      /\ Len(total) = Len(file) + 3 /\ total[Len(file) + 1] = [rec |-> w, part |-> 1]
  BY <1>3, <1>4, <1>5, PiecesAppended
<1>7. x \in ProcessType /\ x.pc = "append" /\ x.todo = Log!Pieces(w)
  BY <1>3, <1>6 DEF ProcessType, Steps
<1>8. process' = [process EXCEPT ![p] = x]
  BY <1>3 DEF Log!StartAppend
<1> HIDE DEF x
<1>9. process'[p] = x
  BY <1>3, <1>8
<1>10. Acknowledged'
  <2>1. /\ acked' = acked /\ acked \in Seq(Nat) /\ \A k \in 1 .. Len(acked) : acked[k] \in 1 .. written
        /\ \A k, m \in 1 .. Len(acked) : k < m => acked[k] < acked[m]
        /\ acked # <<>> => acked[1] = 1
    BY <1>2 DEF LogInv, Acknowledged
  <2>2. \A k \in 1 .. Len(acked) : acked[k] \in 1 .. w
    BY <1>4, <2>1
  <2>3. w >= 2 => acked # <<>>
    BY <1>4, <1>5
  <2> QED BY <1>1, <2>1, <2>2, <2>3 DEF Acknowledged
<1>11. \A k \in 1 .. Len(acked) : acked[k] < w
  BY <1>4 DEF LogInv, Acknowledged
<1>12. Len(total) >= 3 /\ Len(total) - 2 = Len(file) + 1
  BY <1>4, <1>6
<1>13. Appending(file \o process[p].todo, process[p].todo)'
  <2>1. file' \o process'[p].todo = total /\ process'[p].todo = Log!Pieces(w)
    BY <1>2, <1>7, <1>9
  <2> HIDE DEF total, w
  <2>2. Len(Log!Pieces(w)) \in 1 .. 3
    BY <1>6
  <2> QED BY <1>1, <1>2, <1>6, <1>11, <1>12, <2>1, <2>2 DEF Appending
<1>14. Holds(p)'
  BY <1>2, <1>5, <1>7, <1>9, <1>13 DEF Holds
<1>15. Shaped(file', written') /\ AllStored(file)'
  BY <1>1, <1>2, <1>3, <1>4, ShapedTop DEF AllStored
<1>16. file' \in Seq(FilePieces) /\ exists' \in BOOLEAN /\ written' \in Nat /\ falls' \in Nat
  BY <1>1, <1>2, <1>4
<1> QED BY <1>1, <1>7, <1>8, <1>10, <1>14, <1>15, <1>16, RuntimeStep

(* The file is loaded again: with two records acknowledged it is readable; *)
(* and a readable file with a second record was acknowledged a first.      *)
LEMMA ReplayStep ==
  ASSUME LogInv, NEW p \in Runtimes, Log!Replay(p)
  PROVE  LogInv'
<1> DEFINE x == [process[p] EXCEPT !.pc = IF Log!Readable(file) THEN "ready" ELSE "failed"]
<1>1. process[p].pc = "replay"
  BY DEF Log!Replay
<1>2. UNCHANGED <<file, exists, lock, acked, written, loads, falls>>
  BY DEF Log!Replay
<1>3. /\ process \in [Log!Processes -> ProcessType]
      /\ p \in Log!Processes /\ process[p] \in ProcessType /\ Holds(p)
      /\ Shaped(file, written) /\ AllStored(file)
  BY <1>1, AtWork
<1>4. x \in ProcessType /\ x.pc = (IF Log!Readable(file) THEN "ready" ELSE "failed") /\ x.todo = <<>>
  BY <1>1, <1>3 DEF ProcessType, Steps, LogInv, LogTypes
<1>5. process' = [process EXCEPT ![p] = x]
  BY <1>3 DEF Log!Replay, Log!Goto
<1> HIDE DEF x
<1>6. process'[p] = x
  BY <1>3, <1>5
<1>7. lock = p /\ Closed(file)
  BY <1>1, <1>3 DEF Holds
<1>8. file \in Seq(FilePieces) /\ Len(file) \in Nat /\ written \in Nat
  BY DEF LogInv, LogTypes
<1>9. Log!Readable(file) => written = 0 \/ acked # <<>>
  <2> SUFFICES ASSUME Log!Readable(file) PROVE acked # <<>>
    OBVIOUS
  <2>1. PICK i \in Log!Records(file) : file[i].rec > 1
    BY DEF Log!Readable
  <2>2. i \in 1 .. Len(file) /\ file[i].part = 1
    BY <1>3, <2>1, ShapedRecords
  <2>3. file[i].rec \in 1 .. written
    BY <1>3, <2>2 DEF Shaped
  <2>4. written >= 2
    BY <1>8, <2>1, <2>3
  <2> QED BY <2>4 DEF LogInv, Acknowledged
<1>10. Len(acked) >= 2 => Log!Readable(file)
  <2> SUFFICES ASSUME Len(acked) >= 2 PROVE Log!Readable(file)
    OBVIOUS
  <2>1. acked \in Seq(Nat) /\ 1 \in 1 .. Len(acked) /\ 2 \in 1 .. Len(acked)
    BY DEF LogInv, Acknowledged
  <2>2. acked[1] = 1 /\ acked[1] < acked[2]
    BY <2>1 DEF LogInv, Acknowledged
  <2>3. PICK i \in 1 .. Len(file) : i + 2 <= Len(file) /\ file[i].part = 1 /\ file[i].rec = acked[1]
    BY <1>3, <2>1 DEF AllStored, Stored
  <2>4. PICK j \in 1 .. Len(file) : j + 2 <= Len(file) /\ file[j].part = 1 /\ file[j].rec = acked[2]
    BY <1>3, <2>1 DEF AllStored, Stored
  <2>5. i \in Log!Records(file) /\ j \in Log!Records(file)
    <3>1. i + 1 <= Len(file) /\ j + 1 <= Len(file)
      BY <1>8, <2>3, <2>4
    <3> QED BY <1>3, <2>3, <2>4, <3>1, ShapedRecords
  <2>6. file[Len(file)].part = 3
    BY <1>7, <1>8, <2>3 DEF Closed
  <2>7. \A k \in 1 .. Len(file) : file[k].part = 1 => k + 1 <= Len(file)
    BY <1>8, <2>6
  <2>8. Log!Starts(file) = Log!Records(file)
    BY <1>3, <2>7, ShapedRecords
  <2>9. file[i].rec = 1 /\ file[j].rec > 1
    BY <2>1, <2>2, <2>3, <2>4
  <2> QED BY <2>5, <2>8, <2>9 DEF Log!Readable
<1>11. Len(acked) \in Nat
  BY DEF LogInv, Acknowledged
<1>12. Holds(p)'
  <2>1. x.pc = "ready" => written' = 0 \/ acked' # <<>>
    BY <1>2, <1>4, <1>9
  <2>2. x.pc = "failed" => Len(acked') < 2
    BY <1>2, <1>4, <1>10, <1>11
  <2>3. x.pc \in {"ready", "failed"} /\ lock' = p /\ Closed(file')
    BY <1>2, <1>4, <1>7
  <2> QED BY <1>6, <2>1, <2>2, <2>3 DEF Holds
<1>13. Acknowledged'
  BY <1>2 DEF LogInv, Acknowledged
<1>14. AllStored(file)' /\ Shaped(file', written')
  BY <1>2, <1>3 DEF AllStored
<1>15. /\ file' \in Seq(FilePieces) /\ exists' \in BOOLEAN /\ written' \in Nat /\ falls' \in Nat
       /\ ~exists' => written' = 0 /\ file' = <<>>
  BY <1>2 DEF LogInv, LogTypes
<1>16. x.pc \in {"ready", "failed"} /\ Len(x.todo) = 0 /\ Closed(file')
  BY <1>2, <1>4, <1>7
<1> QED BY <1>1, <1>4, <1>5, <1>12, <1>13, <1>14, <1>15, <1>16, RuntimeStep

(* What is appended piece by piece is, at every moment, the beginning of   *)
(* the whole.                                                              *)
LEMMA PieceByPiece ==
  ASSUME NEW S, NEW a \in Seq(S), NEW b \in Seq(S), NEW n \in 0 .. Len(b)
  PROVE  /\ a \o SubSeq(b, 1, n) \in Seq(S)
         /\ Len(a \o SubSeq(b, 1, n)) = Len(a) + n
         /\ \A i \in 1 .. Len(a) : (a \o SubSeq(b, 1, n))[i] = a[i]
         /\ a \o SubSeq(b, 1, n) = SubSeq(a \o b, 1, Len(a) + n)
         /\ Len(a) + n \in 0 .. Len(a \o b)
<1> DEFINE s == SubSeq(b, 1, n)
           t == a \o s
           u == a \o b
           v == SubSeq(u, 1, Len(a) + n)
<1>1. Len(a) \in Nat /\ Len(b) \in Nat /\ n \in Nat /\ n <= Len(b)
  OBVIOUS
<1>2. s \in Seq(S) /\ Len(s) = n /\ \A i \in 1 .. n : s[i] = b[i]
  BY PrefixIs
<1> HIDE DEF s
<1>3. /\ t \in Seq(S) /\ Len(t) = Len(a) + Len(s)
      /\ \A i \in 1 .. Len(a) + Len(s) : t[i] = IF i <= Len(a) THEN a[i] ELSE s[i - Len(a)]
  BY <1>2, ConcatProperties, Zenon
<1>4. /\ u \in Seq(S) /\ Len(u) = Len(a) + Len(b)
      /\ \A i \in 1 .. Len(a) + Len(b) : u[i] = IF i <= Len(a) THEN a[i] ELSE b[i - Len(a)]
  BY ConcatProperties, Zenon
<1> HIDE DEF t, u
<1>5. Len(a) + n \in 0 .. Len(u)
  BY <1>1, <1>4
<1>6. v \in Seq(S) /\ Len(v) = Len(a) + n /\ \A i \in 1 .. Len(a) + n : v[i] = u[i]
  BY <1>4, <1>5, PrefixIs
<1> HIDE DEF v
<1>7. \A i \in 1 .. Len(t) : t[i] = v[i]
  <2> SUFFICES ASSUME NEW i \in 1 .. Len(a) + n PROVE t[i] = v[i]
    BY <1>2, <1>3
  <2>1. i \in 1 .. Len(a) + Len(s) /\ i \in 1 .. Len(a) + Len(b)
    BY <1>1, <1>2
  <2>2. CASE i <= Len(a)
    <3>1. t[i] = a[i]
      BY <1>3, <2>1, <2>2
    <3>2. u[i] = a[i]
      BY <1>4, <2>1, <2>2
    <3> QED BY <1>6, <3>1, <3>2
  <2>3. CASE ~(i <= Len(a))
    <3>1. t[i] = s[i - Len(a)]
      BY <1>3, <2>1, <2>3
    <3>2. u[i] = b[i - Len(a)]
      BY <1>4, <2>1, <2>3
    <3>3. i - Len(a) \in 1 .. n
      BY <1>1, <2>3
    <3> QED BY <1>2, <1>6, <3>1, <3>2, <3>3
  <2> QED BY <2>2, <2>3
<1>8. t = v
  BY <1>2, <1>3, <1>6, <1>7, SeqEqual
<1>9. \A i \in 1 .. Len(a) : t[i] = a[i]
  BY <1>1, <1>2, <1>3
<1> QED BY <1>2, <1>3, <1>5, <1>8, <1>9 DEF s, t, u, v

(* And nothing of it gets lost.                                            *)
LEMMA HeadAndRest ==
  ASSUME NEW S, NEW b \in Seq(S), NEW n \in 0 .. Len(b)
  PROVE  /\ SubSeq(b, 1, n) \in Seq(S)
         /\ SubSeq(b, 1, n) \o SubSeq(b, n + 1, Len(b)) = b
         /\ SubSeq(b, n + 1, Len(b)) \in Seq(S)
         /\ Len(SubSeq(b, n + 1, Len(b))) = Len(b) - n
         /\ n < Len(b) => SubSeq(b, n + 1, Len(b))[Len(b) - n] = b[Len(b)]
         /\ n = Len(b) => SubSeq(b, n + 1, Len(b)) = <<>>
<1> DEFINE s == SubSeq(b, 1, n)
           r == SubSeq(b, n + 1, Len(b))
<1>1. Len(b) \in Nat /\ n \in Nat /\ n <= Len(b)
  OBVIOUS
<1>2. s \in Seq(S)
  BY PrefixIs
<1>3. r \in Seq(S) /\ Len(r) = Len(b) - n /\ \A i \in 1 .. Len(b) - n : r[i] = b[n + i]
  <2>1. n + 1 \in Int /\ Len(b) \in Int /\ \A i \in n + 1 .. Len(b) : b[i] \in S
    BY <1>1
  <2>2. /\ r \in Seq(S) /\ Len(r) = (IF n + 1 <= Len(b) THEN Len(b) - (n + 1) + 1 ELSE 0)
        /\ \A i \in 1 .. Len(b) - (n + 1) + 1 : r[i] = b[(n + 1) + i - 1]
    BY <2>1, SubSeqProperties
  <2> HIDE DEF r
  <2>3. Len(b) - (n + 1) + 1 = Len(b) - n /\ \A i \in 1 .. Len(b) - n : (n + 1) + i - 1 = n + i
    BY <1>1
  <2>4. Len(r) = Len(b) - n
    BY <1>1, <2>2
  <2> QED BY <2>2, <2>3, <2>4
<1>4. s \o r = SubSeq(b, 1, Len(b))
  <2>1. 1 \in 1 .. Len(b) + 1 /\ n \in 1 - 1 .. Len(b) /\ Len(b) \in n .. Len(b)
    BY <1>1
  <2> QED BY <2>1, ConcatAdjacentSubSeq
<1>5. s \o r = b
  BY <1>4, SubSeqFull
<1> HIDE DEF s, r
<1>6. n < Len(b) => r[Len(b) - n] = b[Len(b)]
  <2> SUFFICES ASSUME n < Len(b) PROVE r[Len(b) - n] = b[Len(b)]
    OBVIOUS
  <2>1. Len(b) - n \in 1 .. Len(b) - n /\ n + (Len(b) - n) = Len(b)
    BY <1>1
  <2> QED BY <1>3, <2>1
<1>7. n = Len(b) => r = <<>>
  BY <1>1, <1>3
<1> QED BY <1>2, <1>3, <1>5, <1>6, <1>7 DEF s, r

(* What is read decides what is repaired: the tail of a file in shape is   *)
(* nothing, a whole record without its end, or a part of one.              *)
LEMMA ReadFileStep ==
  ASSUME LogInv, NEW p \in Runtimes, Log!ReadFile(p)
  PROVE  LogInv'
<1> DEFINE pc == IF Log!LastEnd(file) = Len(file) THEN "replay"
                 ELSE IF Log!LastEnd(file) + 1 \in Log!Records(file) THEN "newline"
                 ELSE IF Log!LineEnds(file) = {} THEN "failed"
                 ELSE "truncate"
           x == [process[p] EXCEPT !.raw = file, !.pc = pc]
<1>1. process[p].pc = "load"
  BY DEF Log!ReadFile
<1>2. UNCHANGED <<file, exists, lock, acked, written, falls>>
  BY DEF Log!ReadFile
<1>3. /\ process \in [Log!Processes -> ProcessType]
      /\ p \in Log!Processes /\ process[p] \in ProcessType /\ Holds(p)
      /\ Shaped(file, written) /\ AllStored(file)
  BY <1>1, AtWork
<1>4. file \in Seq(FilePieces) /\ Len(file) \in Nat
  BY DEF LogInv, LogTypes
<1>5. pc \in {"replay", "newline", "failed", "truncate"}
  OBVIOUS
<1>6. process' = [process EXCEPT ![p] = x]
  BY <1>3 DEF Log!ReadFile
<1>7. /\ Log!LastEnd(file) \in 0 .. Len(file)
      /\ \A i \in 1 .. Len(file) : file[i].part = 3 => i <= Log!LastEnd(file)
      /\ Log!LastEnd(file) > 0 => file[Log!LastEnd(file)].part = 3
      /\ Log!LastEnd(file) = 0 <=> Log!LineEnds(file) = {}
  BY <1>4, LastEndIsLast
<1>8. pc = "replay" => Closed(file)
  BY <1>4, <1>7 DEF Closed
<1>9. pc = "newline" => file # <<>> /\ file[Len(file)].part = 2
  <2> SUFFICES ASSUME Log!LastEnd(file) + 1 \in Log!Records(file)
               PROVE  file # <<>> /\ file[Len(file)].part = 2
    OBVIOUS
  <2> DEFINE i == Log!LastEnd(file) + 1
  <2>1. i \in 1 .. Len(file) /\ i + 1 <= Len(file) /\ file[i + 1].part = 2
    BY <1>3, ShapedRecords
  <2>2. i + 2 <= Len(file) => file[i + 2].part = 3
    BY <1>3, ShapedRecords
  <2>3. ~(i + 2 <= Len(file))
    BY <1>4, <1>7, <2>1, <2>2
  <2>4. i + 1 = Len(file)
    BY <1>4, <1>7, <2>1, <2>3
  <2> QED BY <1>4, <2>1, <2>4
<1>10. pc = "failed" => Len(acked) < 2
  <2> SUFFICES ASSUME Log!LineEnds(file) = {}, ~(Len(acked) < 2) PROVE FALSE
    OBVIOUS
  <2>1. 1 \in 1 .. Len(acked)
    BY DEF LogInv, Acknowledged
  <2>2. PICK i \in 1 .. Len(file) : i + 2 <= Len(file) /\ file[i].part = 1
    BY <1>3, <2>1 DEF AllStored, Stored
  <2>3. i \in Log!Records(file) /\ i + 2 \in 1 .. Len(file)
    BY <1>3, <1>4, <2>2, ShapedRecords
  <2>4. file[i + 2].part = 3
    BY <1>3, <2>2, <2>3, ShapedRecords
  <2> QED BY <2>3, <2>4 DEF Log!LineEnds, Log!NewLine
<1> HIDE DEF pc
<1>11. x \in ProcessType /\ x.pc = pc /\ x.raw = file /\ x.todo = <<>>
  BY <1>1, <1>3, <1>4, <1>5 DEF ProcessType, Steps, LogInv, LogTypes
<1> HIDE DEF x
<1>12. process'[p] = x
  BY <1>3, <1>6
<1>13. Holds(p)'
  <2>1. lock' = p
    BY <1>1, <1>2, <1>3 DEF Holds
  <2> QED BY <1>2, <1>5, <1>8, <1>9, <1>10, <1>11, <1>12, <2>1 DEF Holds
<1>14. Acknowledged'
  BY <1>2 DEF LogInv, Acknowledged
<1>15. AllStored(file)' /\ Shaped(file', written')
  BY <1>2, <1>3 DEF AllStored
<1>16. /\ file' \in Seq(FilePieces) /\ exists' \in BOOLEAN /\ written' \in Nat /\ falls' \in Nat
       /\ ~exists' => written' = 0 /\ file' = <<>>
  BY <1>2 DEF LogInv, LogTypes
<1> QED BY <1>1, <1>5, <1>6, <1>11, <1>13, <1>14, <1>15, <1>16, RuntimeStep

(* The missing end of the last line makes the record whole.                *)
LEMMA EndLineStep ==
  ASSUME LogInv, NEW p \in Runtimes, Log!EndLine(p)
  PROVE  LogInv'
<1> DEFINE x == [process[p] EXCEPT !.pc = "replay"]
           e == [rec |-> 0, part |-> 3]
           n == Len(file)
           s == Append(file, e)
<1>1. process[p].pc = "newline" /\ file' = s
  BY DEF Log!EndLine, Log!NewLine
<1>2. UNCHANGED <<exists, lock, acked, written, falls>>
  BY DEF Log!EndLine
<1>3. /\ process \in [Log!Processes -> ProcessType]
      /\ p \in Log!Processes /\ process[p] \in ProcessType /\ Holds(p)
      /\ Shaped(file, written) /\ AllStored(file)
  BY <1>1, AtWork
<1>4. file \in Seq(FilePieces) /\ n \in Nat
  BY DEF LogInv, LogTypes
<1>5. lock = p /\ n > 0 /\ file[n].part = 2
  BY <1>1, <1>3, <1>4 DEF Holds
<1>6. x \in ProcessType /\ x.pc = "replay" /\ x.todo = <<>>
  BY <1>1, <1>3 DEF ProcessType, Steps, LogInv, LogTypes
<1>7. process' = [process EXCEPT ![p] = x]
  BY <1>3 DEF Log!EndLine, Log!Goto
<1>8. e \in FilePieces /\ e.part = 3
  BY DEF FilePieces
<1> HIDE DEF x, e
<1>9. /\ s \in Seq(FilePieces) /\ Len(s) = n + 1 /\ s[n + 1] = e
      /\ \A i \in 1 .. n : s[i] = file[i]
  BY <1>4, <1>8, AppendProperties
<1> HIDE DEF s, n
<1>10. Shaped(s, written)
  <2>1. Len(s) > 0 => s[1].part = 1
    BY <1>3, <1>4, <1>5, <1>9 DEF Shaped, n
  <2>2. \A i \in 1 .. Len(s) - 1 : Follows(s[i], s[i + 1])
    <3> SUFFICES ASSUME NEW i \in 1 .. n PROVE Follows(s[i], s[i + 1])
      BY <1>4, <1>9
    <3>1. CASE i = n
      BY <1>4, <1>5, <1>8, <1>9, <3>1 DEF Follows
    <3>2. CASE i # n
      <4>1. i \in 1 .. n - 1 /\ i + 1 \in 1 .. n
        BY <1>4, <3>2
      <4>2. Follows(file[i], file[i + 1])
        BY <1>3, <4>1 DEF Shaped, n
      <4> QED BY <1>9, <4>1, <4>2
    <3> QED BY <3>1, <3>2
  <2>3. \A i \in 1 .. Len(s) : s[i].part = 1 => i \in 1 .. n /\ s[i] = file[i]
    <3> SUFFICES ASSUME NEW i \in 1 .. n + 1, s[i].part = 1 PROVE i \in 1 .. n
      BY <1>9
    <3>1. i # n + 1
      BY <1>8, <1>9
    <3> QED BY <1>4, <3>1
  <2>4. \A i \in 1 .. n : file[i].part = 1 => file[i].rec \in 1 .. written
    BY <1>3 DEF Shaped, n
  <2>5. \A i \in 1 .. Len(s) : s[i].part = 1 => s[i].rec \in 1 .. written
    BY <2>3, <2>4
  <2>6. \A i, j \in 1 .. n :
          i < j /\ file[i].part = 1 /\ file[j].part = 1 => file[i].rec < file[j].rec
    BY <1>3 DEF Shaped, n
  <2>7. \A i, j \in 1 .. Len(s) :
          i < j /\ s[i].part = 1 /\ s[j].part = 1 => s[i].rec < s[j].rec
    BY <2>3, <2>6
  <2> QED BY <1>9, <2>1, <2>2, <2>5, <2>7 DEF Shaped
<1>11. Closed(s)
  BY <1>8, <1>9 DEF Closed
<1>12. \A k \in 1 .. Len(acked) : Stored(s, acked[k])
  <2>1. Len(file) <= Len(s) /\ \A i \in 1 .. Len(file) : s[i] = file[i]
    BY <1>4, <1>9 DEF n
  <2> QED BY <1>3, <1>4, <1>9, <2>1, StoredLonger DEF AllStored
<1>13. process'[p] = x
  BY <1>3, <1>7
<1>14. Holds(p)'
  BY <1>1, <1>2, <1>5, <1>6, <1>11, <1>13 DEF Holds
<1>15. Acknowledged'
  BY <1>2 DEF LogInv, Acknowledged
<1>16. AllStored(file)' /\ Shaped(file', written')
  BY <1>1, <1>2, <1>10, <1>12 DEF AllStored
<1>17. /\ exists' \in BOOLEAN /\ written' \in Nat /\ falls' \in Nat
       /\ ~exists => file = <<>>
  BY <1>2 DEF LogInv, LogTypes
<1>18. exists
  BY <1>4, <1>5, <1>17 DEF n
<1>19. file' \in Seq(FilePieces) /\ exists'
  BY <1>1, <1>2, <1>9, <1>18
<1> QED BY <1>1, <1>6, <1>7, <1>14, <1>15, <1>16, <1>17, <1>19, RuntimeStep

(* The file is emptied while the records are in memory.                    *)
LEMMA TruncateStep ==
  ASSUME LogInv, NEW p \in Runtimes, Log!Truncate(p)
  PROVE  LogInv'
<1> DEFINE x == [process[p] EXCEPT !.pc = "rewrite"]
<1>1. process[p].pc = "truncate" /\ file' = <<>>
  BY DEF Log!Truncate
<1>2. UNCHANGED <<exists, lock, acked, written, falls>>
  BY DEF Log!Truncate
<1>3. /\ process \in [Log!Processes -> ProcessType]
      /\ p \in Log!Processes /\ process[p] \in ProcessType /\ Holds(p)
      /\ Shaped(file, written) /\ AllStored(file)
  BY <1>1, AtWork
<1>4. lock = p /\ process[p].raw = file
  BY <1>1, <1>3 DEF Holds
<1>5. x \in ProcessType /\ x.pc = "rewrite" /\ x.todo = <<>> /\ x.raw = file
  BY <1>1, <1>3, <1>4 DEF ProcessType, Steps, LogInv, LogTypes
<1>6. process' = [process EXCEPT ![p] = x]
  BY <1>3 DEF Log!Truncate, Log!Goto
<1> HIDE DEF x
<1>7. process'[p] = x
  BY <1>3, <1>6
<1>8. \A k \in 1 .. Len(acked) : Stored(x.raw, acked[k])
  BY <1>3, <1>5 DEF AllStored
<1>9. AllStored(process[p].raw)'
  BY <1>2, <1>7, <1>8 DEF AllStored
<1>10. Holds(p)'
  BY <1>1, <1>2, <1>3, <1>4, <1>5, <1>7, <1>9 DEF Holds
<1>11. Acknowledged'
  BY <1>2 DEF LogInv, Acknowledged
<1>12. file' \in Seq(FilePieces)
  BY <1>1
<1>13. /\ exists' \in BOOLEAN /\ written' \in Nat /\ falls' \in Nat
       /\ ~exists' => written' = 0 /\ file' = <<>>
  BY <1>1, <1>2 DEF LogInv, LogTypes
<1> QED BY <1>1, <1>5, <1>6, <1>10, <1>11, <1>12, <1>13, RuntimeStep

(* They are written back as far as their lines had an end: no acknowledged *)
(* record is among what is left out.                                       *)
LEMMA RewriteStep ==
  ASSUME LogInv, NEW p \in Runtimes, Log!Rewrite(p)
  PROVE  LogInv'
<1> DEFINE x == [process[p] EXCEPT !.pc = "replay"]
           raw == process[p].raw
           s == Log!Prefix(raw)
<1>1. process[p].pc = "rewrite"
  BY DEF Log!Rewrite
<1>2. UNCHANGED <<exists, lock, acked, written, falls>>
  BY DEF Log!Rewrite
<1>3. /\ process \in [Log!Processes -> ProcessType]
      /\ p \in Log!Processes /\ process[p] \in ProcessType /\ Holds(p)
  BY DEF LogInv, LogTypes, ProcessType, Log!Processes
<1>4. lock = p /\ file = <<>> /\ Shaped(raw, written) /\ AllStored(raw)
  BY <1>1, <1>3 DEF Holds
<1>5. x \in ProcessType /\ x.pc = "replay" /\ x.todo = <<>>
  BY <1>1, <1>3 DEF ProcessType, Steps, LogInv, LogTypes
<1>6. process' = [process EXCEPT ![p] = x]
  BY <1>3 DEF Log!Rewrite, Log!Goto
<1>7. raw \in Seq(FilePieces)
  BY <1>3 DEF ProcessType
<1>8. file' = s \o SubSeq(file, Len(s) + 1, Len(file))
  BY DEF Log!Rewrite
<1> HIDE DEF x, raw
<1>9. /\ Log!LastEnd(raw) \in 0 .. Len(raw)
      /\ Log!LastEnd(raw) > 0 => raw[Log!LastEnd(raw)].part = 3
  BY <1>7, LastEndIsLast
<1>10. /\ s \in Seq(FilePieces) /\ Len(s) = Log!LastEnd(raw)
       /\ \A i \in 1 .. Log!LastEnd(raw) : s[i] = raw[i]
  BY <1>7, <1>9, PrefixIs DEF Log!Prefix
<1>11. Shaped(s, written)
  BY <1>4, <1>9, ShapedPrefix DEF Log!Prefix
<1>12. \A k \in 1 .. Len(acked) : Stored(s, acked[k])
  BY <1>4, StoredPrefix DEF AllStored
<1> HIDE DEF s
<1>13. Closed(s)
  BY <1>9, <1>10 DEF Closed
<1>14. file' = s
  <2>1. Len(s) \in Nat /\ Len(file) = 0
    BY <1>4, <1>10
  <2>2. SubSeq(file, Len(s) + 1, Len(file)) = <<>>
    BY <2>1, SubSeqEmpty
  <2>3. file' = s \o <<>>
    BY <1>8, <2>2, Zenon
  <2>4. s \in Seq(FilePieces)
    BY <1>10
  <2> QED BY <2>3, <2>4
<1>15. process'[p] = x
  BY <1>3, <1>6
<1>16. Holds(p)'
  BY <1>2, <1>4, <1>5, <1>13, <1>14, <1>15 DEF Holds
<1>17. Acknowledged'
  BY <1>2 DEF LogInv, Acknowledged
<1>18. AllStored(file)' /\ Shaped(file', written')
  BY <1>2, <1>11, <1>12, <1>14 DEF AllStored
<1>19. exists' \in BOOLEAN /\ written' \in Nat /\ falls' \in Nat /\ (~exists => written = 0)
  BY <1>2 DEF LogInv, LogTypes
<1>20. ~exists' => written' = 0 /\ file' = <<>>
  <2> SUFFICES ASSUME ~exists PROVE written = 0 /\ file' = <<>>
    BY <1>2
  <2>1. written = 0
    BY <1>19
  <2>2. Len(s) = 0
    <3> SUFFICES ASSUME Len(s) # 0 PROVE FALSE
      OBVIOUS
    <3>1. 1 \in 1 .. Len(s) /\ s[1].part = 1
      BY <1>10, <1>11 DEF Shaped
    <3>2. s[1].rec \in 1 .. written
      BY <1>11, <3>1 DEF Shaped
    <3> QED BY <2>1, <3>2
  <2> QED BY <1>10, <1>14, <2>1, <2>2
<1>21. file' \in Seq(FilePieces)
  BY <1>10, <1>14
<1> QED BY <1>1, <1>5, <1>6, <1>16, <1>17, <1>18, <1>19, <1>20, <1>21, RuntimeStep

(* Pieces of a record reach the file; with the last one it is acknowledged. *)
LEMMA AppendPiecesStep ==
  ASSUME LogInv, NEW p \in Runtimes, NEW n \in 1 .. 3, Log!AppendPieces(p, n)
  PROVE  LogInv'
<1> DEFINE todo == process[p].todo
           rest == SubSeq(todo, n + 1, Len(todo))
           pc == IF n = Len(todo) THEN "ready" ELSE "append"
           x == [process[p] EXCEPT !.todo = rest, !.pc = pc]
           total == file \o todo
           s == file \o SubSeq(todo, 1, n)
<1>1. process[p].pc = "append" /\ n \in 1 .. Len(todo) /\ file' = s
  BY DEF Log!AppendPieces
<1>2. /\ UNCHANGED <<exists, lock, written, falls>>
      /\ acked' = IF n = Len(todo) THEN Append(acked, Log!Last(todo).rec) ELSE acked
  BY DEF Log!AppendPieces
<1>3. /\ process \in [Log!Processes -> ProcessType]
      /\ p \in Log!Processes /\ process[p] \in ProcessType /\ Holds(p)
      /\ Shaped(file, written) /\ AllStored(file)
  BY <1>1, AtWork
<1>4. lock = p /\ Appending(total, todo)
  BY <1>1, <1>3 DEF Holds
<1>5. file \in Seq(FilePieces) /\ written \in Nat /\ falls \in Nat /\ todo \in Seq(FilePieces)
  BY <1>3 DEF LogInv, LogTypes, ProcessType
<1>6. process' = [process EXCEPT ![p] = x]
  BY <1>3 DEF Log!AppendPieces
<1>7. x \in ProcessType /\ x.pc = pc /\ x.todo = rest
  <2>1. rest \in Seq(FilePieces)
    BY <1>1, <1>5, HeadAndRest
  <2>2. pc \in Steps
    BY DEF Steps
  <2> HIDE DEF rest, pc
  <2> QED BY <1>3, <2>1, <2>2 DEF ProcessType
<1> HIDE DEF x, todo
<1>8. Len(todo) \in 1 .. 3 /\ Len(todo) \in Nat /\ n \in 0 .. Len(todo) /\ n > 0 /\ n <= Len(todo)
  BY <1>1, <1>4 DEF Appending
<1>9. /\ s \in Seq(FilePieces) /\ Len(s) = Len(file) + n
      /\ \A i \in 1 .. Len(file) : s[i] = file[i]
      /\ s = SubSeq(total, 1, Len(file) + n) /\ Len(file) + n \in 0 .. Len(total)
  <2>1. file \in Seq(FilePieces) /\ todo \in Seq(FilePieces) /\ n \in 0 .. Len(todo)
    BY <1>5, <1>8
  <2>2. /\ file \o SubSeq(todo, 1, n) \in Seq(FilePieces)
        /\ Len(file \o SubSeq(todo, 1, n)) = Len(file) + n
        /\ \A i \in 1 .. Len(file) : (file \o SubSeq(todo, 1, n))[i] = file[i]
        /\ file \o SubSeq(todo, 1, n) = SubSeq(file \o todo, 1, Len(file) + n)
        /\ Len(file) + n \in 0 .. Len(file \o todo)
    BY <2>1, PieceByPiece, Zenon
  <2> QED BY <2>2
<1>10. /\ s \o rest = total /\ Len(rest) = Len(todo) - n
       /\ n < Len(todo) => rest[Len(todo) - n] = todo[Len(todo)]
       /\ n = Len(todo) => rest = <<>>
  <2> DEFINE head == SubSeq(todo, 1, n)
  <2>1. head \in Seq(FilePieces) /\ rest \in Seq(FilePieces)
    BY <1>5, <1>8, HeadAndRest
  <2>0. head \o rest = todo
    BY <1>5, <1>8, HeadAndRest
  <2>9. file \in Seq(FilePieces)
    BY <1>5
  <2>2. Len(rest) = Len(todo) - n
    BY <1>5, <1>8, HeadAndRest
  <2>3. n < Len(todo) => rest[Len(todo) - n] = todo[Len(todo)]
    BY <1>5, <1>8, HeadAndRest
  <2>4. n = Len(todo) => rest = <<>>
    BY <1>5, <1>8, HeadAndRest
  <2> HIDE DEF head, rest
  <2>5. (file \o head) \o rest = file \o (head \o rest)
    BY <2>1, <2>9
  <2>6. s \o rest = total
    BY <2>0, <2>5, Zenon DEF head
  <2> QED BY <2>2, <2>3, <2>4, <2>6, Zenon
<1>11. Shaped(total, written) /\ Len(total) >= 3 /\ total \in Seq(FilePieces)
  BY <1>4 DEF Appending, Shaped
<1>12. Shaped(s, written)
  BY <1>9, <1>11, ShapedPrefix
<1>13. \A k \in 1 .. Len(acked) : Stored(s, acked[k])
  <2>1. Len(file) <= Len(s)
    BY <1>5, <1>8, <1>9
  <2> QED BY <1>3, <1>5, <1>9, <2>1, StoredLonger DEF AllStored
<1>14. process'[p] = x
  BY <1>3, <1>6
<1>15. n = Len(todo) => s = total
  <2> SUFFICES ASSUME n = Len(todo) PROVE s = total
    OBVIOUS
  <2>1. SubSeq(todo, 1, n) = todo
    BY <1>5, SubSeqFull
  <2> QED BY <2>1, Zenon
<1> HIDE DEF s, rest, total
<1>16. /\ total[Len(total) - 2] = [rec |-> written, part |-> 1] /\ todo[Len(todo)].rec = written
       /\ \A k \in 1 .. Len(acked) : acked[k] < written
  BY <1>4 DEF Appending
<1>17. /\ acked \in Seq(Nat) /\ \A k \in 1 .. Len(acked) : acked[k] \in 1 .. written
       /\ \A k, m \in 1 .. Len(acked) : k < m => acked[k] < acked[m]
       /\ acked # <<>> => acked[1] = 1
       /\ written >= 2 => acked # <<>>
  BY DEF LogInv, Acknowledged
<1>18. written >= 1
  <2>1. Len(total) - 2 \in 1 .. Len(total) /\ total[Len(total) - 2].part = 1
        /\ total[Len(total) - 2].rec = written
    BY <1>11, <1>16
  <2>2. written \in 1 .. written
    BY <1>11, <2>1 DEF Shaped
  <2> QED BY <1>5, <2>2
<1>19. CASE n = Len(todo)
  <2>1. Log!Last(todo).rec = written
    BY <1>5, <1>16 DEF Log!Last
  <2>2. acked' = Append(acked, written)
    BY <1>2, <1>19, <2>1
  <2>3. /\ acked' \in Seq(Nat) /\ Len(acked') = Len(acked) + 1 /\ acked'[Len(acked) + 1] = written
        /\ \A k \in 1 .. Len(acked) : acked'[k] = acked[k]
    BY <1>5, <1>17, <2>2, AppendProperties
  <2>4. Len(acked) \in Nat /\ \A k \in 1 .. Len(acked') : k \in 1 .. Len(acked) \/ k = Len(acked) + 1
    BY <1>17, <2>3
  <2>5. \A k \in 1 .. Len(acked') : acked'[k] \in 1 .. written
    <3>1. written \in 1 .. written
      BY <1>5, <1>18
    <3>2. \A k \in 1 .. Len(acked) : acked'[k] \in 1 .. written
      BY <1>17, <2>3
    <3> QED BY <2>3, <2>4, <3>1, <3>2
  <2>6. \A k, m \in 1 .. Len(acked') : k < m => acked'[k] < acked'[m]
    <3> SUFFICES ASSUME NEW k \in 1 .. Len(acked'), NEW m \in 1 .. Len(acked'), k < m
                 PROVE  acked'[k] < acked'[m]
      OBVIOUS
    <3>1. k \in 1 .. Len(acked)
      BY <2>3, <2>4
    <3>2. CASE m \in 1 .. Len(acked)
      BY <1>17, <2>3, <3>1, <3>2
    <3>3. CASE m = Len(acked) + 1
      BY <1>16, <2>3, <3>1, <3>3
    <3> QED BY <2>4, <3>2, <3>3
  <2>7. acked' # <<>>
    BY <2>3, <2>4
  <2>8. acked'[1] = 1
    <3>1. CASE acked = <<>>
      BY <1>5, <1>17, <1>18, <2>3, <3>1
    <3>2. CASE acked # <<>>
      <4>1. 1 \in 1 .. Len(acked)
        BY <1>17, <3>2
      <4> QED BY <1>17, <2>3, <3>2, <4>1
    <3> QED BY <3>1, <3>2
  <2>9. Acknowledged'
    BY <1>2, <2>3, <2>5, <2>6, <2>7, <2>8 DEF Acknowledged
  <2>10. Stored(s, written)
    <3> DEFINE i == Len(total) - 2
    <3>1. i \in 1 .. Len(total) /\ i + 2 <= Len(total)
      BY <1>11
    <3>2. total[i].part = 1 /\ total[i].rec = written
      BY <1>16
    <3> HIDE DEF i
    <3> QED BY <1>15, <1>19, <3>1, <3>2 DEF Stored
  <2>11. \A k \in 1 .. Len(acked') : Stored(s, acked'[k])
    BY <1>13, <2>3, <2>4, <2>10
  <2>12. AllStored(file)'
    BY <1>1, <2>11 DEF AllStored
  <2>13. Closed(s)
    <3> DEFINE i == Len(total) - 2
    <3>1. i \in 1 .. Len(total) - 1 /\ i + 1 \in 1 .. Len(total) - 1 /\ (i + 1) + 1 = Len(total)
      BY <1>11
    <3>2. total[i].part = 1
      BY <1>16
    <3> HIDE DEF i
    <3>3. Follows(total[i], total[i + 1]) /\ Follows(total[i + 1], total[(i + 1) + 1])
      BY <1>11, <3>1 DEF Shaped
    <3>4. total[(i + 1) + 1].part = 3
      BY <3>2, <3>3 DEF Follows
    <3> QED BY <1>15, <1>19, <3>1, <3>4 DEF Closed
  <2>14. x.pc = "ready" /\ x.todo = <<>>
    BY <1>7, <1>10, <1>19
  <2>15. Holds(p)'
    BY <1>1, <1>2, <1>4, <1>14, <2>7, <2>13, <2>14 DEF Holds
  <2>16. /\ exists' \in BOOLEAN /\ written' \in Nat /\ falls' \in Nat /\ file' \in Seq(FilePieces)
         /\ ~exists' => written' = 0 /\ file' = <<>>
    <3>1. exists /\ exists \in BOOLEAN
      BY <1>18 DEF LogInv, LogTypes
    <3> QED BY <1>1, <1>2, <1>5, <1>9, <3>1
  <2>17. Shaped(file', written') /\ Closed(file')
    BY <1>1, <1>2, <1>12, <2>13
  <2> QED BY <1>1, <1>6, <1>7, <2>9, <2>12, <2>14, <2>15, <2>16, <2>17, RuntimeStep
<1>20. CASE n # Len(todo)
  <2>1. acked' = acked /\ n < Len(todo)
    BY <1>2, <1>8, <1>20
  <2>2. x.pc = "append" /\ x.todo = rest
    BY <1>7, <1>20
  <2>3. Len(rest) \in 1 .. 3 /\ rest[Len(rest)] = todo[Len(todo)]
    BY <1>8, <1>10, <2>1
  <2>4. Appending(total, rest)
    BY <1>11, <1>16, <2>3 DEF Appending
  <2>5. Appending(file \o process[p].todo, process[p].todo)'
    <3>1. file' \o process'[p].todo = total /\ process'[p].todo = rest
      BY <1>1, <1>10, <1>14, <2>2
    <3>2. written' = written /\ acked' = acked
      BY <1>2, <2>1
    <3> QED BY <2>4, <3>1, <3>2, Zenon DEF Appending
  <2>6. Holds(p)'
    BY <1>2, <1>4, <1>14, <2>2, <2>5 DEF Holds
  <2>7. Acknowledged'
    BY <1>2, <2>1 DEF LogInv, Acknowledged
  <2>8. AllStored(file)' /\ Shaped(file', written')
    BY <1>1, <1>2, <1>12, <1>13, <2>1 DEF AllStored
  <2>9. /\ exists' \in BOOLEAN /\ written' \in Nat /\ falls' \in Nat /\ file' \in Seq(FilePieces)
        /\ ~exists' => written' = 0 /\ file' = <<>>
    <3>1. exists /\ exists \in BOOLEAN
      BY <1>18 DEF LogInv, LogTypes
    <3> QED BY <1>1, <1>2, <1>5, <1>9, <3>1
  <2> QED BY <1>1, <1>6, <1>7, <2>2, <2>6, <2>7, <2>8, <2>9, RuntimeStep
<1> QED BY <1>19, <1>20

(* Whoever dies leaves a part of its record, behind what was there.        *)
LEMMA CrashStep ==
  ASSUME LogInv, NEW p \in Runtimes, NEW n \in 0 .. 3, Log!Crash(p, n),
         process[p].pc # "rewrite"
  PROVE  LogInv'
<1> DEFINE todo == process[p].todo
           s == file \o SubSeq(todo, 1, n)
<1>1. process[p].pc # "idle" /\ n \in 0 .. Len(todo) /\ file' = s
  BY DEF Log!Crash
<1>2. UNCHANGED <<exists, acked, written>> /\ falls' = falls + 1
  BY DEF Log!Crash
<1>3. /\ process \in [Log!Processes -> ProcessType]
      /\ p \in Log!Processes /\ process[p] \in ProcessType /\ Holds(p)
      /\ Shaped(file, written) /\ AllStored(file)
  BY <1>1, AtWork
<1>4. file \in Seq(FilePieces) /\ written \in Nat /\ falls \in Nat /\ todo \in Seq(FilePieces)
  BY <1>3 DEF LogInv, LogTypes, ProcessType
<1>5. process' = [process EXCEPT ![p] = Log!Idle]
  BY <1>3 DEF Log!Crash
<1>6. Log!Idle \in ProcessType /\ Log!Idle.pc = "idle" /\ Log!Idle.todo = <<>>
  BY DEF ProcessType, Steps, Log!Idle
<1>7. process'[p] = Log!Idle
  BY <1>3, <1>5
<1>8. Holds(p)'
  BY <1>6, <1>7 DEF Holds
<1>9. process[p].pc # "append" => todo = <<>>
  BY <1>3 DEF LogInv, LogTypes
<1>10. process[p].pc = "append" => Appending(file \o todo, todo)
  BY <1>3 DEF Holds
<1> HIDE DEF todo
<1>11. /\ s \in Seq(FilePieces) /\ Len(s) = Len(file) + n
       /\ \A i \in 1 .. Len(file) : s[i] = file[i]
       /\ s = SubSeq(file \o todo, 1, Len(file) + n) /\ Len(file) + n \in 0 .. Len(file \o todo)
  BY <1>1, <1>4, PieceByPiece
<1>12. Shaped(file \o todo, written)
  <2>1. CASE process[p].pc = "append"
    BY <1>10, <2>1 DEF Appending
  <2>2. CASE process[p].pc # "append"
    <3>1. file \o todo = file
      BY <1>4, <1>9, <2>2
    <3> QED BY <1>3, <3>1
  <2> QED BY <2>1, <2>2
<1>13. Shaped(s, written)
  BY <1>11, <1>12, ShapedPrefix
<1>14. \A k \in 1 .. Len(acked) : Stored(s, acked[k])
  <2>1. Len(file) <= Len(s)
    BY <1>1, <1>4, <1>11
  <2> QED BY <1>3, <1>4, <1>11, <2>1, StoredLonger DEF AllStored
<1> HIDE DEF s
<1>15. AllStored(file)' /\ Shaped(file', written')
  BY <1>1, <1>2, <1>13, <1>14 DEF AllStored
<1>16. Acknowledged'
  BY <1>2 DEF LogInv, Acknowledged
<1>17. exists' \in BOOLEAN /\ written' \in Nat /\ falls' \in Nat /\ file' \in Seq(FilePieces)
  BY <1>1, <1>2, <1>4, <1>11 DEF LogInv, LogTypes
<1>18. ~exists' => written' = 0 /\ file' = <<>>
  <2> SUFFICES ASSUME ~exists PROVE written = 0 /\ file' = <<>>
    BY <1>2
  <2>1. written = 0
    BY DEF LogInv, LogTypes
  <2>2. Len(s) = 0
    <3> SUFFICES ASSUME Len(s) # 0 PROVE FALSE
      OBVIOUS
    <3>0. Len(s) \in Nat
      BY <1>11
    <3>1. 1 \in 1 .. Len(s) /\ s[1].part = 1
      BY <1>13, <3>0 DEF Shaped
    <3>2. s[1].rec \in 1 .. written
      BY <1>13, <3>1 DEF Shaped
    <3> QED BY <2>1, <3>2
  <2> QED BY <1>1, <1>11, <2>1, <2>2
<1> QED BY <1>1, <1>5, <1>6, <1>8, <1>15, <1>16, <1>17, <1>18, RuntimeStep

(* The steps of a process, but those the invariant is not kept by.         *)
Undisturbing(p) ==
  \/ Log!Acquire(p) \/ Log!Release(p) \/ Log!StartAppend(p)
  \/ \E n \in 1 .. 3 : Log!AppendPieces(p, n)
  \/ Log!List(p) \/ Log!ReadFile(p) \/ Log!Replay(p)
  \/ (Log!EndLine(p) \/ Log!Truncate(p)) /\ p \notin Listers
  \/ Log!Rewrite(p)
  \/ (\E n \in 0 .. 3 : Log!Crash(p, n)) /\ process[p].pc # "rewrite"

(* Any such step of a runtime.                                             *)
LEMMA RuntimeSteps ==
  ASSUME LogInv, NEW p \in Runtimes, Undisturbing(p)
  PROVE  LogInv'
<1>1. ~Log!List(p)
  BY InstanceAssumption DEF Log!SessionAssumption, Log!List
<1> QED
  BY <1>1, AcquireStep, ReleaseStep, StartAppendStep, AppendPiecesStep, ReadFileStep, EndLineStep,
     TruncateStep, RewriteStep, ReplayStep, CrashStep DEF Undisturbing

(* Any such step of a lister: it may have read a record half written and   *)
(* think of a repair, and changes nothing but itself.                      *)
LEMMA ListerSteps ==
  ASSUME LogInv, NEW p \in Listers, Undisturbing(p)
  PROVE  LogInv'
<1> DEFINE Reads == {"idle", "load", "newline", "truncate", "replay", "ready", "failed"}
<1>1. process \in [Log!Processes -> ProcessType] /\ p \in Log!Processes /\ process[p] \in ProcessType
  BY DEF LogInv, LogTypes, ProcessType, Log!Processes
<1>2. process[p].pc \in Reads
  BY DEF LogInv, Quiet
<1>3. process[p].todo = <<>>
  BY <1>1, <1>2 DEF LogInv, LogTypes
<1>4. p \notin Runtimes
  BY InstanceAssumption DEF Log!SessionAssumption
<1>5. file \in Seq(FilePieces) /\ falls \in Nat
  BY DEF LogInv, LogTypes
<1>6. \A pc \in Reads : /\ [process[p] EXCEPT !.pc = pc] \in ProcessType
                         /\ [process[p] EXCEPT !.pc = pc].pc = pc
                         /\ [process[p] EXCEPT !.pc = pc].todo = <<>>
  BY <1>1, <1>3 DEF ProcessType, Steps
<1>7. Log!Idle \in ProcessType /\ Log!Idle.pc = "idle" /\ Log!Idle.todo = <<>>
  BY DEF ProcessType, Steps, Log!Idle
<1>8. CASE Log!Release(p)
  <2>1. /\ lock' = (IF lock = p THEN Log!Nobody ELSE lock)
        /\ process' = [process EXCEPT ![p] = Log!Idle]
        /\ UNCHANGED <<file, exists, written, acked, falls>>
    BY <1>8 DEF Log!Release
  <2> QED BY <1>5, <1>7, <2>1, ListerStep
<1>9. CASE Log!List(p)
  <2> DEFINE x == [process[p] EXCEPT !.pc = "load"]
  <2>1. /\ lock' = lock /\ process' = [process EXCEPT ![p] = x]
        /\ UNCHANGED <<file, exists, written, acked, falls>>
    BY <1>1, <1>9 DEF Log!List, Log!Goto
  <2>2. x \in ProcessType /\ x.pc = "load" /\ x.todo = <<>>
    BY <1>6
  <2> HIDE DEF x
  <2> QED BY <1>5, <2>1, <2>2, ListerStep
<1>10. CASE Log!ReadFile(p)
  <2> DEFINE pc == IF Log!LastEnd(file) = Len(file) THEN "replay"
                   ELSE IF Log!LastEnd(file) + 1 \in Log!Records(file) THEN "newline"
                   ELSE IF Log!LineEnds(file) = {} THEN "failed"
                   ELSE "truncate"
             x == [process[p] EXCEPT !.raw = file, !.pc = pc]
  <2>1. /\ lock' = lock /\ process' = [process EXCEPT ![p] = x]
        /\ UNCHANGED <<file, exists, written, acked, falls>>
    BY <1>1, <1>10 DEF Log!ReadFile
  <2>2. pc \in {"replay", "newline", "failed", "truncate"}
    OBVIOUS
  <2> HIDE DEF pc
  <2>3. x \in ProcessType /\ x.pc = pc /\ x.todo = <<>>
    BY <1>1, <1>3, <1>5, <2>2 DEF ProcessType, Steps
  <2> HIDE DEF x
  <2> QED BY <1>5, <2>1, <2>2, <2>3, ListerStep
<1>11. CASE Log!Replay(p)
  <2> DEFINE pc == IF Log!Readable(file) THEN "ready" ELSE "failed"
             x == [process[p] EXCEPT !.pc = pc]
  <2>1. /\ lock' = lock /\ process' = [process EXCEPT ![p] = x]
        /\ UNCHANGED <<file, exists, written, acked, falls>>
    BY <1>1, <1>11 DEF Log!Replay, Log!Goto
  <2>2. pc \in {"ready", "failed"}
    OBVIOUS
  <2> HIDE DEF pc
  <2>3. x \in ProcessType /\ x.pc = pc /\ x.todo = <<>>
    BY <1>6, <2>2
  <2> HIDE DEF x
  <2> QED BY <1>5, <2>1, <2>2, <2>3, ListerStep
<1>12. CASE \E n \in 0 .. 3 : Log!Crash(p, n)
  <2>1. PICK n \in 0 .. 3 : Log!Crash(p, n)
    BY <1>12
  <2>2. /\ lock' = (IF lock = p THEN Log!Nobody ELSE lock)
        /\ process' = [process EXCEPT ![p] = Log!Idle]
        /\ UNCHANGED <<exists, written, acked>> /\ falls' = falls + 1
        /\ n \in 0 .. Len(process[p].todo) /\ file' = file \o SubSeq(process[p].todo, 1, n)
    BY <2>1 DEF Log!Crash
  <2>3. n = 0
    BY <1>3, <2>2
  <2>4. SubSeq(process[p].todo, 1, n) = <<>>
    BY <1>3, <2>3, SubSeqEmpty
  <2>5. file' = file \o <<>>
    BY <2>2, <2>4, Zenon
  <2>6. file' = file
    BY <1>5, <2>5
  <2>7. falls' \in Nat /\ UNCHANGED <<file, exists, written, acked>>
    BY <1>5, <2>2, <2>6
  <2>8. /\ lock' = (IF lock = p THEN Log!Nobody ELSE lock)
        /\ process' = [process EXCEPT ![p] = Log!Idle]
    BY <2>2
  <2> QED BY <1>7, <2>7, <2>8, ListerStep
<1>13. ~(Log!Acquire(p) \/ Log!StartAppend(p))
  BY <1>4 DEF Log!Acquire, Log!StartAppend
<1>14. ~(\E n \in 1 .. 3 : Log!AppendPieces(p, n)) /\ ~Log!Rewrite(p)
  BY <1>2 DEF Log!AppendPieces, Log!Rewrite
<1> QED
  BY <1>8, <1>9, <1>10, <1>11, <1>12, <1>13, <1>14 DEF Undisturbing

(* A step after which nothing is disturbed is none of the others, and      *)
(* nothing was disturbed before it.                                        *)
LEMMA UndisturbingSteps ==
  ASSUME Log!Next, ~disturbed'
  PROVE  ~disturbed /\ \E p \in Log!Processes : Undisturbing(p)
<1>1. PICK p \in Log!Processes :
        \/ Log!Acquire(p) \/ Log!Release(p) \/ Log!StartAppend(p)
        \/ \E n \in 1 .. 3 : Log!AppendPieces(p, n)
        \/ Log!List(p) \/ Log!ReadFile(p) \/ Log!EndLine(p) \/ Log!Truncate(p)
        \/ Log!Rewrite(p) \/ Log!Replay(p)
        \/ \E n \in 0 .. 3 : Log!Crash(p, n)
  BY DEF Log!Next
<1>2. CASE Log!EndLine(p) \/ Log!Truncate(p)
  <2>1. disturbed' = (disturbed \/ p \in Listers)
    BY <1>2 DEF Log!EndLine, Log!Truncate
  <2> QED BY <1>2, <2>1 DEF Undisturbing
<1>3. CASE \E n \in 0 .. 3 : Log!Crash(p, n)
  <2>1. disturbed' = (disturbed \/ process[p].pc = "rewrite")
    BY <1>3 DEF Log!Crash
  <2> QED BY <1>3, <2>1 DEF Undisturbing
<1>4. CASE \/ Log!Acquire(p) \/ Log!Release(p) \/ Log!StartAppend(p)
           \/ \E n \in 1 .. 3 : Log!AppendPieces(p, n)
           \/ Log!List(p) \/ Log!ReadFile(p) \/ Log!Rewrite(p) \/ Log!Replay(p)
  <2>1. disturbed' = disturbed
    BY <1>4 DEF Log!Acquire, Log!Release, Log!StartAppend, Log!AppendPieces, Log!List,
       Log!ReadFile, Log!Rewrite, Log!Replay
  <2> QED BY <1>4, <2>1 DEF Undisturbing
<1> QED BY <1>1, <1>2, <1>3, <1>4

(* The invariant of the scenario that uses the Session.                    *)
SessionInv == scenario = "torn" /\ ~disturbed => LogInv

(* At the start there is no file and nothing to keep.                      *)
LEMMA SessionInit == RecoveryInit => SessionInv
<1> SUFFICES ASSUME Log!Init PROVE LogInv
  BY DEF RecoveryInit, SessionInv
<1>1. /\ file = <<>> /\ exists = FALSE /\ lock = Log!Nobody
      /\ process = [p \in Log!Processes |-> Log!Idle]
      /\ acked = <<>> /\ written = 0 /\ falls = 0
  BY DEF Log!Init
<1>2. Log!Idle = [pc |-> "idle", todo |-> <<>>, raw |-> <<>>]
  BY DEF Log!Idle
<1>3. \A p \in Log!Processes : process[p] = Log!Idle
  BY <1>1
<1>4. Log!Idle \in [pc : Steps, todo : Seq(FilePieces), raw : Seq(FilePieces)]
  BY <1>2 DEF Steps
<1>5. LogTypes
  BY <1>1, <1>2, <1>3, <1>4 DEF LogTypes
<1>6. Acknowledged
  BY <1>1 DEF Acknowledged
<1>7. Shaped(file, written) /\ AllStored(file)
  BY <1>1 DEF Shaped, AllStored
<1>8. \A p \in Runtimes : Holds(p)
  BY <1>2, <1>3 DEF Holds, Log!Processes
<1>9. Quiet
  BY <1>2, <1>3 DEF Quiet, Log!Processes
<1> QED BY <1>5, <1>6, <1>7, <1>8, <1>9 DEF LogInv, FileKept

(* Every step keeps the invariant; those of the other scenarios do not     *)
(* touch the Session.                                                      *)
LEMMA SessionNext == SessionInv /\ [RecoveryNext]_recoveryVars => SessionInv'
<1> SUFFICES ASSUME SessionInv, [RecoveryNext]_recoveryVars, scenario' = "torn", ~disturbed'
             PROVE  LogInv'
  BY DEF SessionInv
<1>1. scenario = "torn"
  BY DEF RecoveryNext, IntakeStep, In, recoveryVars
<1>2. CASE UNCHANGED recoveryVars
  <2>1. LogInv
    BY <1>1, <1>2 DEF SessionInv, recoveryVars, session
  <2> QED BY <1>2, <2>1 DEF recoveryVars, session, LogInv, LogTypes, Acknowledged, Holds, FileKept,
             Quiet, AllStored, Appending
<1>3. CASE Log!Next
  <2>1. LogInv /\ \E p \in Log!Processes : Undisturbing(p)
    BY <1>1, <1>3, UndisturbingSteps DEF SessionInv
  <2> QED BY <2>1, RuntimeSteps, ListerSteps DEF Log!Processes
<1> QED BY <1>1, <1>2, <1>3 DEF RecoveryNext, IntakeStep, In

(* What the invariant says of the records.                                 *)
LEMMA SessionKept == SessionInv => RecordsSurvive
<1> SUFFICES ASSUME LogInv, ~disturbed
             PROVE  Log!AckedRecordsSurvive /\ Log!SessionStaysReadable
  BY DEF SessionInv, RecordsSurvive
<1>1. /\ acked \in Seq(Nat) /\ DOMAIN acked = 1 .. Len(acked)
      /\ \A k, m \in 1 .. Len(acked) : k < m => acked[k] < acked[m]
  BY DEF LogInv, Acknowledged
<1>2. Log!SessionStaysReadable
  <2>1. Len(acked) \in Nat
    BY <1>1
  <2> QED BY <2>1 DEF LogInv, Holds, Log!SessionStaysReadable
<1>3. ASSUME ~Log!Recovering
      PROVE  /\ \A k \in DOMAIN acked : \E i \in Log!Records(file) :
                  \A j \in Log!Records(file) : file[j].rec = acked[k] <=> j = i
             /\ \A i, j \in Log!Records(file), k, m \in DOMAIN acked :
                  k < m /\ file[i].rec = acked[k] /\ file[j].rec = acked[m] => i < j
  <2>1. Shaped(file, written) /\ AllStored(file)
    BY <1>3 DEF LogInv, FileKept, Log!Recovering, Log!Processes
  <2>2. file \in Seq(FilePieces) /\ Len(file) \in Nat
    BY DEF LogInv, LogTypes
  <2>3. Log!Records(file) = {i \in 1 .. Len(file) : file[i].part = 1 /\ i + 1 <= Len(file)}
    BY <2>1, ShapedRecords
  <2>4. \A i, j \in Log!Records(file) : i < j => file[i].rec < file[j].rec
    BY <2>1, <2>3 DEF Shaped
  <2>5. \A i \in Log!Records(file) : i \in Nat /\ file[i].rec \in Nat
    <3>1. \A i \in 1 .. Len(file) : file[i] \in FilePieces
      BY <2>2
    <3> QED BY <2>2, <2>3, <3>1 DEF FilePieces
  <2>6. \A k \in DOMAIN acked : \E i \in Log!Records(file) :
          \A j \in Log!Records(file) : file[j].rec = acked[k] <=> j = i
    <3> SUFFICES ASSUME NEW k \in 1 .. Len(acked)
                 PROVE  \E i \in Log!Records(file) :
                          \A j \in Log!Records(file) : file[j].rec = acked[k] <=> j = i
      BY <1>1
    <3>1. PICK i \in 1 .. Len(file) : i + 2 <= Len(file) /\ file[i].part = 1 /\ file[i].rec = acked[k]
      BY <2>1 DEF AllStored, Stored
    <3>2. i \in Log!Records(file)
      BY <2>2, <2>3, <3>1
    <3>3. \A j \in Log!Records(file) : file[j].rec = acked[k] => j = i
      <4> SUFFICES ASSUME NEW j \in Log!Records(file), file[j].rec = file[i].rec PROVE j = i
        BY <3>1
      <4>1. i \in Nat /\ j \in Nat /\ file[i].rec \in Nat
        BY <2>5, <3>2
      <4>2. i < j => file[i].rec < file[i].rec
        BY <2>4, <3>2
      <4>3. j < i => file[i].rec < file[i].rec
        BY <2>4, <3>2
      <4> QED BY <4>1, <4>2, <4>3
    <3> QED BY <3>1, <3>2, <3>3
  <2>7. \A i, j \in Log!Records(file), k, m \in DOMAIN acked :
          k < m /\ file[i].rec = acked[k] /\ file[j].rec = acked[m] => i < j
    <3> SUFFICES ASSUME NEW i \in Log!Records(file), NEW j \in Log!Records(file),
                        file[i].rec < file[j].rec
                 PROVE  i < j
      BY <1>1
    <3>1. i # j /\ ~(j < i)
      BY <2>4, <2>5
    <3> QED BY <2>5, <3>1
  <2> QED BY <2>6, <2>7
<1> QED BY <1>2, <1>3 DEF Log!AckedRecordsSurvive

(* Every record whose append returned is in the file once and in its       *)
(* place, and no runtime fails to load a Session of which two records were *)
(* acknowledged: for any number of processes, records and deaths, whoever  *)
(* reads, until a process dies within a repair or a lister makes one.      *)
THEOREM RecordsAlwaysSurvive == RecoverySpec => []RecordsSurvive
<1>1. RecoverySpec => []SessionInv
  BY SessionInit, SessionNext, PTL DEF RecoverySpec
<1> QED BY <1>1, SessionKept, PTL

=============================================================================
