--------------------------- MODULE AppShell_proofs ---------------------------
(***************************************************************************)
(* Theorems about AppShell for any number of devices, of clicks and of     *)
(* messages a queue holds, with their proofs.                              *)
(***************************************************************************)
EXTENDS AppShell, SequenceTheorems, FiniteSetTheorems, TLAPS

-----------------------------------------------------------------------------
(* Type correctness. *)

LEMMA MakeTask ==
    /\ \A op \in {"IsEmpty", "DeviceIds", "CloseAll", "Detach"} : Task(op, "any") \in Tasks
    /\ \A op \in {"Connect", "Disconnect"}, d \in Devices : Task(op, d) \in Tasks
  BY DEF Task, Tasks

LEMMA MakeMsg ==
    /\ \A what \in {"Connectdevice", "Close"} : Msg(what, "any", "none") \in Messages
    /\ \A r \in Reports : Msg("Marshal", r.dev, r.status) \in Messages
  BY DEF Msg, Messages, Reports

LEMMA MakeReport ==
    ASSUME NEW d \in Devices
    PROVE  /\ \A s \in {"connecting", "connected", "failed", "closed"} :
                 Report(d, s) \in Reports /\ <<Report(d, s)>> \in Seq(Reports)
           /\ <<Report(d, "connecting"), Report(d, "failed")>> \in Seq(Reports)
  <1>1. \A s \in {"connecting", "connected", "failed", "closed"} : Report(d, s) \in Reports
    BY DEF Report, Reports, Table!Statuses
  <1>2. /\ \A r \in Reports : <<r>> \in Seq(Reports)
        /\ \A r, q \in Reports : <<r, q>> \in Seq(Reports)
    OBVIOUS
  <1>. QED
    BY <1>1, <1>2

(* Appending to a sequence, and taking its head. *)
LEMMA Sequence ==
    ASSUME NEW S, NEW s \in Seq(S)
    PROVE  /\ Len(s) \in Nat
           /\ \A x \in S : Append(s, x) \in Seq(S) /\ Len(Append(s, x)) = Len(s) + 1
           /\ s # <<>> => /\ Head(s) \in S /\ Head(s) = s[1] /\ Len(s) >= 1
                          /\ Tail(s) \in Seq(S) /\ Len(Tail(s)) = Len(s) - 1
  BY HeadTailProperties, AppendProperties, EmptySeq, LenProperties

(* Nobody waits any more: the queue is the same but for that. *)
LEMMA GivenUp ==
    ASSUME queue \in Seq(Tasks),
           queue' = [i \in DOMAIN queue |-> [queue[i] EXCEPT !.awaited = FALSE]]
    PROVE  /\ queue' \in Seq(Tasks) /\ Len(queue') = Len(queue)
           /\ \A i \in 1..Len(queue) :
                 /\ queue'[i].op = queue[i].op /\ queue'[i].dev = queue[i].dev
                 /\ ~queue'[i].awaited
  <1>1. DOMAIN queue = 1..Len(queue) /\ Len(queue) \in Nat
    BY LenProperties
  <1>2. ASSUME NEW i \in 1..Len(queue)
        PROVE  /\ [queue[i] EXCEPT !.awaited = FALSE] \in Tasks
               /\ [queue[i] EXCEPT !.awaited = FALSE].op = queue[i].op
               /\ [queue[i] EXCEPT !.awaited = FALSE].dev = queue[i].dev
               /\ [queue[i] EXCEPT !.awaited = FALSE].awaited = FALSE
    <2>1. queue[i] \in Tasks
      BY ElementOfSeq
    <2>. QED
      BY <2>1 DEF Tasks
  <1>3. queue' \in [1..Len(queue) -> Tasks]
    BY <1>1, <1>2
  <1>4. queue' \in Seq(Tasks) /\ Len(queue') = Len(queue)
    BY <1>1, <1>3, SeqDef
  <1>. QED
    BY <1>1, <1>2, <1>4

(* The reports of CloseAll: one for each device of the table. *)
LEMMA ClosedReports ==
    ASSUME NEW here \in SUBSET Devices, NEW r \in SetToSeqs({Report(d, "closed") : d \in here})
    PROVE  /\ r \in Seq(Reports)
           /\ \A i \in 1..Len(r) : r[i].dev \in here /\ r[i].status = "closed"
           /\ \A i, j \in 1..Len(r) : i # j => r[i].dev # r[j].dev
  <1>. DEFINE S == {Report(d, "closed") : d \in here}
              n == Cardinality(S)
  <1>1. IsFiniteSet(S) /\ n \in Nat
    <2>. DEFINE f == [d \in here |-> Report(d, "closed")]
    <2>1. IsFiniteSet(here)
      BY DevicesAssumption, FS_Subset
    <2>2. f \in Surjection(here, S)
      BY DEF Surjection
    <2>. QED
      BY <2>1, <2>2, FS_Surjection, FS_CardinalityType
  <1>2. r \in [1..n -> S] /\ \A i, j \in 1..n : i # j => r[i] # r[j]
    BY DEF SetToSeqs
  <1>3. r \in Seq(S) /\ Len(r) = n
    BY <1>1, <1>2, SeqDef
  <1>4. \A x \in S : x \in Reports /\ x.dev \in here /\ x.status = "closed" /\ x = Report(x.dev, "closed")
    <2>. SUFFICES ASSUME NEW d \in here
                  PROVE  LET x == Report(d, "closed") IN
                         x \in Reports /\ x.dev \in here /\ x.status = "closed" /\ x = Report(x.dev, "closed")
      OBVIOUS
    <2>. QED
      BY MakeReport DEF Report
  <1>5. r \in Seq(Reports)
    BY <1>3, <1>4, SeqMonotonic
  <1>. HIDE DEF S, n
  <1>. QED
    BY <1>2, <1>3, <1>4, <1>5

(* A report that has passed the gate is still there to be posted. *)
TypeInv == TypeOK /\ (passed => telling # <<>>)

(* What a step may do to the three sequences. *)
LEMMA QueueType ==
    ASSUME queue \in Seq(Tasks)
    PROVE  /\ \A t \in Tasks : Post(t) => queue' \in Seq(Tasks)
           /\ \A op : RunNext(op) => /\ queue' \in Seq(Tasks)
                                     /\ Head(queue) \in Tasks /\ Head(queue).op = op
                                     /\ op \in {"Connect", "Disconnect"} => Head(queue).dev \in Devices
  <1>1. \A t \in Tasks : t.op \in {"Connect", "Disconnect"} => t.dev \in Devices
    BY DEF Tasks
  <1>2. ASSUME NEW t \in Tasks, Post(t) PROVE queue' \in Seq(Tasks)
    BY <1>2, Sequence DEF Post
  <1>3. ASSUME NEW op, RunNext(op)
        PROVE  queue' \in Seq(Tasks) /\ Head(queue) \in Tasks /\ Head(queue).op = op
    BY <1>3, Sequence DEF RunNext
  <1>. QED
    BY <1>1, <1>2, <1>3

LEMMA MsgsType ==
    ASSUME msgs \in Seq(Messages), Len(msgs) <= MaxMessages
    PROVE  /\ \A m \in Messages : /\ PostMessage(m) => msgs' \in Seq(Messages) /\ Len(msgs') <= MaxMessages
                                  /\ Append(msgs, m) \in Seq(Messages) /\ Len(Append(msgs, m)) = Len(msgs) + 1
           /\ Len(msgs) \in Nat
           /\ \A what : Take(what) => /\ msgs' \in Seq(Messages) /\ Len(msgs') <= MaxMessages
                                      /\ Head(msgs) \in Messages /\ Head(msgs).what = what
                                      /\ what = "Marshal" => /\ Head(msgs).dev \in Devices
                                                             /\ Head(msgs).status \in Table!Statuses
  <1>1. \A m \in Messages : m.what = "Marshal" => m.dev \in Devices /\ m.status \in Table!Statuses
    BY DEF Messages
  <1>. QED
    BY <1>1, Sequence, MaxMessagesAssumption DEF PostMessage, Take

LEMMA TellingType ==
    ASSUME telling \in Seq(Reports), telling # <<>>
    PROVE  /\ Head(telling) \in Reports /\ Tail(telling) \in Seq(Reports)
           /\ Msg("Marshal", Head(telling).dev, Head(telling).status) \in Messages
           /\ Head(telling).dev \in Devices /\ Head(telling).status \in Table!Statuses
  <1>1. Head(telling) \in Reports /\ Tail(telling) \in Seq(Reports)
    BY Sequence
  <1>. QED
    BY <1>1, MakeMsg DEF Reports

(* The queue of the executor. *)
LEMMA QueueTypeStep == ASSUME TypeInv, [Next]_vars PROVE queue' \in Seq(Tasks)
  <1>. USE DEF table, settings, reporting, choices, exits, histories
  <1>1. CASE \/ Stops \/ CloseFromOutside
           \/ Start \/ HandleConnectdevice \/ HandleMarshal \/ IsEmptyAnswered
           \/ DeviceIdsAnswered \/ SaveOpens \/ DetachReturns \/ ClickConfirm \/ TestGate
           \/ Posts
           \/ \E d \in Devices : LookupFails(d) \/ Settle(d) \/ Lose(d)
    <2>1. UNCHANGED <<queue>>
      BY <1>1 DEF Stops, CloseFromOutside,
         Start, HandleConnectdevice, Take, HandleMarshal, IsEmptyAnswered, LeaveOrAsk,
         PostMessage, DeviceIdsAnswered, SaveOpens, DetachReturns, ClickConfirm, Click,
         LookupFails, Settle, Free, Dropped, Tell, Leaves, Table!Open, Table!Fail, Table!Drop,
         Table!Move, Lose, TestGate, Posts
    <2>. QED
      BY <2>1 DEF TypeInv, TypeOK
  <1>2. CASE Killed
    BY <1>2
       DEF Killed, Stopped, TypeInv, TypeOK
  <1>3. CASE Returns
    BY <1>3
       DEF Returns, Stopped, TypeInv, TypeOK
  <1>4. CASE HandleClose
    BY <1>4, QueueType, MakeTask
       DEF HandleClose, Take, Post, TypeInv, TypeOK
  <1>5. CASE IsEmptyTimesOut
    BY <1>5, GivenUp
       DEF IsEmptyTimesOut, GivesUp, LeaveOrAsk, PostMessage, TypeInv, TypeOK
  <1>6. CASE DeviceIdsTimesOut
    BY <1>6, GivenUp
       DEF DeviceIdsTimesOut, GivesUp, TypeInv, TypeOK
  <1>7. CASE SaveFails
    BY <1>7, QueueType, MakeTask
       DEF SaveFails, ToClosing, Post, TypeInv, TypeOK
  <1>8. CASE SaveWrites
    BY <1>8, QueueType, MakeTask
       DEF SaveWrites, ToClosing, Post, TypeInv, TypeOK
  <1>9. CASE CloseAllReturns
    BY <1>9, QueueType, MakeTask
       DEF CloseAllReturns, Post, TypeInv, TypeOK
  <1>10. ASSUME NEW d \in Devices, ClickDevice(d) PROVE queue' \in Seq(Tasks)
    BY <1>10, QueueType, MakeTask
       DEF ClickDevice, Click, Post, TypeInv, TypeOK
  <1>11. CASE ClickExit
    BY <1>11, QueueType, MakeTask
       DEF ClickExit, Click, Post, TypeInv, TypeOK
  <1>12. ASSUME NEW d \in Devices, LookupSucceeds(d) PROVE queue' \in Seq(Tasks)
    BY <1>12, QueueType, MakeTask
       DEF LookupSucceeds, Post, TypeInv, TypeOK
  <1>13. CASE RunConnect
    BY <1>13, QueueType
       DEF RunConnect, RunNext, Free, Tell, Leaves, Table!Refuse, Table!Fail, Table!Begin,
           Table!Move, TypeInv, TypeOK
  <1>14. CASE RunDisconnect
    BY <1>14, QueueType
       DEF RunDisconnect, RunNext, Free, Dropped, Tell, Leaves, Table!Drop, Table!Move,
           TypeInv, TypeOK
  <1>15. CASE RunSnapshot
    BY <1>15, QueueType
       DEF RunSnapshot, RunNext, Free, TypeInv, TypeOK
  <1>16. CASE RunCloseAll
    BY <1>16, QueueType
       DEF RunCloseAll, RunNext, Free, Tell, Table!CloseAll, Table!Emptied, TypeInv, TypeOK
  <1>17. CASE RunDetach
    BY <1>17, QueueType
       DEF RunDetach, RunNext, Free, Table!Detach, Table!Emptied, TypeInv, TypeOK
  <1>18. CASE UNCHANGED vars
    BY <1>18 DEF vars, TypeInv, TypeOK
  <1>. QED
    BY <1>1, <1>2, <1>3, <1>4, <1>5, <1>6, <1>7, <1>8, <1>9, <1>10, <1>11, <1>12, <1>13, <1>14,
       <1>15, <1>16, <1>17, <1>18 DEF Next, UiStep, HandleMessage, ExitStep, ExecutorStep, RunTask,
       MarshalToUi

(* The queue of the window. *)
LEMMA MsgsTypeStep == ASSUME TypeInv, [Next]_vars PROVE msgs' \in Seq(Messages) /\ Len(msgs') <= MaxMessages
  <1>. USE DEF table, settings, reporting, choices, exits, histories
  <1>1. CASE \/ Stops
           \/ DeviceIdsAnswered \/ DeviceIdsTimesOut \/ SaveOpens \/ SaveFails \/ SaveWrites
           \/ CloseAllReturns \/ ClickExit \/ RunConnect \/ RunDisconnect \/ RunSnapshot
           \/ RunCloseAll \/ RunDetach \/ TestGate
           \/ \E d \in Devices : ClickDevice(d) \/ LookupSucceeds(d) \/ LookupFails(d) \/ Settle(d) \/ Lose(d)
    <2>1. UNCHANGED <<msgs>>
      BY <1>1 DEF Stops,
         DeviceIdsAnswered, DeviceIdsTimesOut, GivesUp, SaveOpens, SaveFails,
         ToClosing, Post, SaveWrites, CloseAllReturns, ClickDevice, Click, ClickExit,
         LookupSucceeds, LookupFails, RunConnect, RunNext, Free, Tell, Leaves, Table!Refuse,
         Table!Fail, Table!Begin, Table!Move, RunDisconnect, Dropped, Table!Drop, RunSnapshot,
         RunCloseAll, Table!CloseAll, Table!Emptied, RunDetach, Table!Detach, Settle,
         Table!Open, Lose, TestGate
    <2>. QED
      BY <2>1 DEF TypeInv, TypeOK
  <1>2. CASE Start
    BY <1>2, MakeMsg, MaxMessagesAssumption
       DEF Start, TypeInv, TypeOK
  <1>3. CASE Killed
    BY <1>3, MaxMessagesAssumption
       DEF Killed, Stopped, TypeInv, TypeOK
  <1>4. CASE Returns
    BY <1>4, MaxMessagesAssumption
       DEF Returns, Stopped, TypeInv, TypeOK
  <1>5. CASE HandleConnectdevice
    BY <1>5, MsgsType
       DEF HandleConnectdevice, Take, TypeInv, TypeOK
  <1>6. CASE HandleMarshal
    BY <1>6, MsgsType
       DEF HandleMarshal, Take, TypeInv, TypeOK
  <1>7. CASE HandleClose
    BY <1>7, MsgsType
       DEF HandleClose, Take, Post, TypeInv, TypeOK
  <1>8. CASE IsEmptyAnswered
    BY <1>8, MsgsType, MakeMsg
       DEF IsEmptyAnswered, LeaveOrAsk, PostMessage, TypeInv, TypeOK
  <1>9. CASE IsEmptyTimesOut
    BY <1>9, MsgsType, MakeMsg
       DEF IsEmptyTimesOut, GivesUp, LeaveOrAsk, PostMessage, TypeInv, TypeOK
  <1>10. CASE DetachReturns
    BY <1>10, MaxMessagesAssumption
       DEF DetachReturns, TypeInv, TypeOK
  <1>11. CASE ClickConfirm
    BY <1>11, MsgsType, MakeMsg
       DEF ClickConfirm, Click, PostMessage, TypeInv, TypeOK
  <1>12. CASE Posts
    <2>1. telling \in Seq(Reports) /\ telling # <<>> /\ msgs \in Seq(Messages) /\ Len(msgs) <= MaxMessages
      BY <1>12 DEF Posts, TypeInv, TypeOK
    <2>2. CASE /\ Len(msgs) < MaxMessages
               /\ msgs' = Append(msgs, Msg("Marshal", Head(telling).dev, Head(telling).status))
      BY <2>1, <2>2, MsgsType, TellingType, MaxMessagesAssumption
    <2>3. CASE msgs' = msgs
      BY <2>1, <2>3
    <2>. QED
      BY <1>12, <2>2, <2>3 DEF Posts
  <1>13. CASE UNCHANGED vars
    BY <1>13 DEF vars, TypeInv, TypeOK
  <1>outside. CASE CloseFromOutside
    BY <1>outside, MsgsType, MakeMsg
       DEF CloseFromOutside, TypeInv, TypeOK
  <1>. QED
    BY <1>1, <1>2, <1>3, <1>4, <1>5, <1>6, <1>7, <1>8, <1>9, <1>10, <1>11, <1>12, <1>13, <1>outside
       DEF Next, UiStep, HandleMessage, ExitStep, ExecutorStep, RunTask,
       MarshalToUi

(* The reports. *)
LEMMA TellingTypeStep == ASSUME TypeInv, [Next]_vars PROVE telling' \in Seq(Reports) /\ (passed' => telling' # <<>>)
  <1>. USE DEF table, settings, reporting, choices, exits, histories
  <1>1. CASE \/ Stops \/ CloseFromOutside
           \/ Start \/ HandleConnectdevice \/ HandleMarshal \/ HandleClose \/ IsEmptyAnswered
           \/ IsEmptyTimesOut \/ DeviceIdsAnswered \/ DeviceIdsTimesOut \/ SaveOpens
           \/ SaveFails \/ SaveWrites \/ CloseAllReturns \/ DetachReturns \/ ClickExit
           \/ ClickConfirm \/ RunSnapshot \/ RunDetach
           \/ \E d \in Devices : ClickDevice(d) \/ LookupSucceeds(d) \/ LookupFails(d)
    <2>1. UNCHANGED <<telling, passed>>
      BY <1>1 DEF Stops, CloseFromOutside,
         Start, HandleConnectdevice, Take, HandleMarshal, HandleClose, Post,
         IsEmptyAnswered, LeaveOrAsk, PostMessage, IsEmptyTimesOut, GivesUp, DeviceIdsAnswered,
         DeviceIdsTimesOut, SaveOpens, SaveFails, ToClosing, SaveWrites, CloseAllReturns,
         DetachReturns, ClickDevice, Click, ClickExit, ClickConfirm, LookupSucceeds,
         LookupFails, RunSnapshot, RunNext, Free, RunDetach, Table!Detach, Table!Emptied
    <2>. QED
      BY <2>1 DEF TypeInv, TypeOK
  <1>2. CASE Killed
    BY <1>2
       DEF Killed, Stopped, TypeInv, TypeOK
  <1>3. CASE Returns
    BY <1>3
       DEF Returns, Stopped, TypeInv, TypeOK
  <1>4. CASE RunConnect
    <2>. DEFINE d == Head(queue).dev
    <2>1. d \in Devices
      BY <1>4, QueueType DEF RunConnect, TypeInv, TypeOK
    <2>2. /\ telling = <<>> /\ passed' = passed
          /\ \/ telling' = <<Report(d, "connecting"), Report(d, "failed")>>
             \/ telling' = <<Report(d, "connecting")>>
      BY <1>4 DEF RunConnect, RunNext, Free, Tell
    <2>. HIDE DEF d
    <2>. QED
      BY <2>1, <2>2, MakeReport DEF TypeInv
  <1>5. CASE RunDisconnect
    BY <1>5, MakeReport, QueueType
       DEF RunDisconnect, RunNext, Free, Dropped, Tell, Leaves, Table!Drop, Table!Move,
           TypeInv, TypeOK
  <1>6. CASE RunCloseAll
    <2>1. telling = <<>> /\ passed' = passed
      BY <1>6 DEF RunCloseAll, RunNext, Free, Tell
    <2>2. telling' \in Seq(Reports)
      <3>. DEFINE here == {d \in Devices : tracked[d] # "none"}
      <3>1. PICK r \in SetToSeqs({Report(d, "closed") : d \in here}) : telling' = r
        BY <1>6 DEF RunCloseAll, Tell
      <3>. HIDE DEF here
      <3>2. here \in SUBSET Devices
        BY DEF here
      <3>. QED
        BY <3>1, <3>2, ClosedReports
    <2>. QED
      BY <2>1, <2>2 DEF TypeInv
  <1>7. ASSUME NEW d \in Devices, Settle(d) PROVE telling' \in Seq(Reports) /\ (passed' => telling' # <<>>)
    <2>1. /\ telling = <<>> /\ passed' = passed
          /\ \E s \in {"connecting", "connected", "failed", "closed"} : telling' = <<Report(d, s)>>
      BY <1>7 DEF Settle, Free, Dropped, Tell
    <2>. QED
      BY <2>1, MakeReport DEF TypeInv
  <1>8. ASSUME NEW d \in Devices, Lose(d) PROVE telling' \in Seq(Reports) /\ (passed' => telling' # <<>>)
    <2>1. /\ telling = <<>> /\ passed' = passed
          /\ \E s \in {"connecting", "connected", "failed", "closed"} : telling' = <<Report(d, s)>>
      BY <1>8 DEF Lose, Free, Dropped, Tell
    <2>. QED
      BY <2>1, MakeReport DEF TypeInv
  <1>9. CASE TestGate
    <2>1. telling \in Seq(Reports) /\ telling # <<>>
      BY <1>9 DEF TestGate, TypeInv, TypeOK
    <2>2. (telling' = Tail(telling) /\ ~passed') \/ telling' = telling
      BY <1>9 DEF TestGate
    <2>. QED
      BY <2>1, <2>2, TellingType
  <1>10. CASE Posts
    <2>1. telling \in Seq(Reports) /\ telling # <<>> /\ telling' = Tail(telling) /\ ~passed'
      BY <1>10 DEF Posts, TypeInv, TypeOK
    <2>. QED
      BY <2>1, TellingType
  <1>11. CASE UNCHANGED vars
    BY <1>11 DEF vars, TypeInv, TypeOK
  <1>. QED
    BY <1>1, <1>2, <1>3, <1>4, <1>5, <1>6, <1>7, <1>8, <1>9, <1>10, <1>11 DEF Next, UiStep, HandleMessage, ExitStep, ExecutorStep, RunTask,
       MarshalToUi

(* The table, the reports and the picker. *)
TableTypes ==
    /\ tracked \in [Devices -> Table!Places]
    /\ shown \in [Devices -> Table!Statuses]
    /\ display \in [Devices -> Table!Statuses]

LEMMA TableTypeStep == ASSUME TypeInv, [Next]_vars PROVE TableTypes'
  <1>. USE DEF table, settings, reporting, choices, exits, histories
  <1>1. CASE \/ Stops \/ CloseFromOutside
           \/ Start \/ HandleConnectdevice \/ HandleClose \/ IsEmptyAnswered \/ IsEmptyTimesOut
           \/ DeviceIdsAnswered \/ DeviceIdsTimesOut \/ SaveOpens \/ SaveFails \/ SaveWrites
           \/ CloseAllReturns \/ ClickExit \/ ClickConfirm \/ RunSnapshot
           \/ TestGate \/ Posts
           \/ \E d \in Devices : ClickDevice(d) \/ LookupSucceeds(d) \/ LookupFails(d)
    <2>1. UNCHANGED <<tracked, shown, display>>
      BY <1>1 DEF Stops, CloseFromOutside,
         Start, HandleConnectdevice, Take, HandleClose, Post, IsEmptyAnswered,
         LeaveOrAsk, PostMessage, IsEmptyTimesOut, GivesUp, DeviceIdsAnswered,
         DeviceIdsTimesOut, SaveOpens, SaveFails, ToClosing, SaveWrites, CloseAllReturns,
         ClickDevice, Click, ClickExit, ClickConfirm, LookupSucceeds,
         LookupFails, RunSnapshot, RunNext, Free, TestGate, Posts
    <2>. QED
      BY <2>1 DEF TypeInv, TypeOK, TableTypes
  <1>2. CASE Killed
    BY <1>2
       DEF Killed, Stopped, Nowhere, Table!Places, Table!Statuses, TypeInv, TypeOK, TableTypes
  <1>3. CASE Returns
    BY <1>3
       DEF Returns, Stopped, Nowhere, Table!Places, Table!Statuses, TypeInv, TypeOK, TableTypes
  <1>4. CASE HandleMarshal
    BY <1>4, MsgsType
       DEF HandleMarshal, Take, TypeInv, TypeOK, TableTypes
  <1>5. CASE RunConnect
    BY <1>5, QueueType
       DEF RunConnect, RunNext, Free, Tell, Leaves, Table!Refuse, Table!Fail, Table!Begin,
           Table!Move, Table!Places, Table!Statuses, TypeInv, TypeOK, TableTypes
  <1>6. CASE RunDisconnect
    BY <1>6, QueueType
       DEF RunDisconnect, RunNext, Free, Dropped, Tell, Leaves, Table!Drop, Table!Move,
           Table!Places, Table!Statuses, TypeInv, TypeOK, TableTypes
  <1>7. CASE RunCloseAll
    BY <1>7
       DEF RunCloseAll, RunNext, Free, Tell, Table!CloseAll, Table!Emptied, Table!Places,
           Table!Statuses, TypeInv, TypeOK, TableTypes
  <1>8. CASE RunDetach
    BY <1>8
       DEF RunDetach, RunNext, Free, Table!Detach, Table!Emptied, Table!Places, TypeInv,
           TypeOK, TableTypes
  <1>9. ASSUME NEW d \in Devices, Settle(d) PROVE TableTypes'
    BY <1>9
       DEF Settle, Free, Dropped, Tell, Leaves, Table!Open, Table!Fail, Table!Drop, Table!Move,
           Table!Places, Table!Statuses, TypeInv, TypeOK, TableTypes
  <1>10. ASSUME NEW d \in Devices, Lose(d) PROVE TableTypes'
    BY <1>10
       DEF Lose, Free, Dropped, Tell, Leaves, Table!Drop, Table!Move, Table!Places,
           Table!Statuses, TypeInv, TypeOK, TableTypes
  <1>11. CASE UNCHANGED vars
    BY <1>11 DEF vars, TypeInv, TypeOK, TableTypes
  <1>detach. CASE DetachReturns
    BY <1>detach
       DEF DetachReturns, Nowhere, Table!Statuses, TypeInv, TypeOK, TableTypes
  <1>. QED
    BY <1>1, <1>2, <1>3, <1>4, <1>5, <1>6, <1>7, <1>8, <1>9, <1>10, <1>11, <1>detach
       DEF Next, UiStep, HandleMessage, ExitStep, ExecutorStep, RunTask,
       MarshalToUi

(* The settings and their file, and what is copied from them. *)
LEMMA LoadType ==
    ASSUME NEW f \in Files
    PROVE  LoadSettings(f).reconnect \in BOOLEAN /\ LoadSettings(f).devices \in SUBSET Devices
  BY DEF LoadSettings, Files

LEMMA FileType ==
    \A kind \in {"torn", "partial", "ok"}, r \in BOOLEAN, ds \in SUBSET Devices : File(kind, r, ds) \in Files
  BY DEF File, Files

SettingsTypes ==
    /\ file \in Files /\ reconnect \in BOOLEAN
    /\ lastDevices \in SUBSET Devices /\ lookups \in SUBSET Devices
    /\ owed \in SUBSET Devices /\ kept \in SUBSET Devices
    /\ answer \in [given : BOOLEAN, devices : SUBSET Devices]

LEMMA SettingsTypeStep == ASSUME TypeInv, [Next]_vars PROVE SettingsTypes'
  <1>. USE DEF table, settings, reporting, choices, exits, histories
  <1>1. CASE \/ Stops \/ CloseFromOutside
           \/ HandleMarshal \/ SaveFails \/ CloseAllReturns \/ DetachReturns \/ ClickExit
           \/ RunCloseAll \/ RunDetach \/ TestGate \/ Posts
           \/ \E d \in Devices : ClickDevice(d)
    <2>1. UNCHANGED <<file, reconnect, lastDevices, lookups, owed, kept, answer>>
      BY <1>1 DEF Stops, CloseFromOutside, PostMessage,
         HandleMarshal, Take, SaveFails, ToClosing, Post, CloseAllReturns,
         DetachReturns, ClickDevice, Click, ClickExit, RunCloseAll, RunNext, Free, Tell,
         Table!CloseAll, Table!Emptied, RunDetach, Table!Detach, TestGate, Posts
    <2>. QED
      BY <2>1 DEF TypeInv, TypeOK, SettingsTypes
  <1>2. CASE Start
    BY <1>2, LoadType, FileType
       DEF Start, TypeInv, TypeOK, SettingsTypes
  <1>3. CASE Killed
    BY <1>3
       DEF Killed, Stopped, NoAnswer, TypeInv, TypeOK, SettingsTypes
  <1>4. CASE Returns
    BY <1>4
       DEF Returns, Stopped, NoAnswer, TypeInv, TypeOK, SettingsTypes
  <1>5. CASE HandleConnectdevice
    BY <1>5
       DEF HandleConnectdevice, Take, TypeInv, TypeOK, SettingsTypes
  <1>6. CASE HandleClose
    BY <1>6
       DEF HandleClose, Take, Post, TypeInv, TypeOK, SettingsTypes
  <1>7. CASE IsEmptyAnswered
    BY <1>7
       DEF IsEmptyAnswered, LeaveOrAsk, PostMessage, NoAnswer, TypeInv, TypeOK, SettingsTypes
  <1>8. CASE IsEmptyTimesOut
    BY <1>8
       DEF IsEmptyTimesOut, GivesUp, LeaveOrAsk, PostMessage, NoAnswer, TypeInv, TypeOK,
           SettingsTypes
  <1>9. CASE DeviceIdsAnswered
    BY <1>9
       DEF DeviceIdsAnswered, NoAnswer, TypeInv, TypeOK, SettingsTypes
  <1>10. CASE DeviceIdsTimesOut
    BY <1>10
       DEF DeviceIdsTimesOut, GivesUp, TypeInv, TypeOK, SettingsTypes
  <1>11. CASE SaveOpens
    BY <1>11, FileType
       DEF SaveOpens, TypeInv, TypeOK, SettingsTypes
  <1>12. CASE SaveWrites
    BY <1>12, FileType
       DEF SaveWrites, ToClosing, Post, TypeInv, TypeOK, SettingsTypes
  <1>13. CASE ClickConfirm
    BY <1>13
       DEF ClickConfirm, Click, PostMessage, TypeInv, TypeOK, SettingsTypes
  <1>14. ASSUME NEW d \in Devices, LookupSucceeds(d) PROVE SettingsTypes'
    BY <1>14
       DEF LookupSucceeds, Post, TypeInv, TypeOK, SettingsTypes
  <1>15. ASSUME NEW d \in Devices, LookupFails(d) PROVE SettingsTypes'
    BY <1>15
       DEF LookupFails, TypeInv, TypeOK, SettingsTypes
  <1>16. CASE RunConnect
    BY <1>16
       DEF RunConnect, RunNext, Free, Tell, Leaves, Table!Refuse, Table!Fail, Table!Begin,
           Table!Move, TypeInv, TypeOK, SettingsTypes
  <1>17. CASE RunDisconnect
    BY <1>17
       DEF RunDisconnect, RunNext, Free, Dropped, Tell, Leaves, Table!Drop, Table!Move,
           TypeInv, TypeOK, SettingsTypes
  <1>18. CASE RunSnapshot
    BY <1>18
       DEF RunSnapshot, RunNext, Free, TypeInv, TypeOK, SettingsTypes
  <1>19. ASSUME NEW d \in Devices, Settle(d) PROVE SettingsTypes'
    BY <1>19
       DEF Settle, Free, Dropped, Tell, Leaves, Table!Open, Table!Fail, Table!Drop, Table!Move,
           TypeInv, TypeOK, SettingsTypes
  <1>20. ASSUME NEW d \in Devices, Lose(d) PROVE SettingsTypes'
    BY <1>20
       DEF Lose, Free, Dropped, Tell, Leaves, Table!Drop, Table!Move, TypeInv, TypeOK,
           SettingsTypes
  <1>21. CASE UNCHANGED vars
    BY <1>21 DEF vars, TypeInv, TypeOK, SettingsTypes
  <1>. QED
    BY <1>1, <1>2, <1>3, <1>4, <1>5, <1>6, <1>7, <1>8, <1>9, <1>10, <1>11, <1>12, <1>13, <1>14,
       <1>15, <1>16, <1>17, <1>18, <1>19, <1>20, <1>21 DEF Next, UiStep, HandleMessage, ExitStep, ExecutorStep, RunTask,
       MarshalToUi

(* Flags, counters and the rest. *)
OtherTypes ==
    /\ ui \in UiStates /\ clicks \in Nat /\ lateMarshals \in Nat
    /\ g_exiting \in BOOLEAN /\ flyout \in BOOLEAN /\ passed \in BOOLEAN
    /\ confirmed \in BOOLEAN /\ foundEmpty \in BOOLEAN /\ saved \in BOOLEAN
    /\ missed \in SUBSET Devices /\ begun \in SUBSET Devices

LEMMA OtherTypeStep == ASSUME TypeInv, [Next]_vars PROVE OtherTypes'
  <1>. USE DEF table, settings, reporting, choices, exits, histories
  <1>1. CASE \/ HandleConnectdevice \/ HandleMarshal \/ RunDisconnect \/ RunCloseAll \/ RunDetach
           \/ \E d \in Devices : LookupSucceeds(d) \/ LookupFails(d) \/ Settle(d) \/ Lose(d)
    <2>1. UNCHANGED <<ui, clicks, lateMarshals, g_exiting, flyout, passed, confirmed, foundEmpty, saved, missed, begun>>
      BY <1>1 DEF HandleConnectdevice, Take, HandleMarshal, LookupSucceeds, Post, LookupFails,
         RunDisconnect, RunNext, Free, Dropped, Tell, Leaves, Table!Drop, Table!Move,
         RunCloseAll, Table!CloseAll, Table!Emptied, RunDetach, Table!Detach, Settle,
         Table!Open, Table!Fail, Lose
    <2>. QED
      BY <2>1 DEF TypeInv, TypeOK, UiStates, OtherTypes
  <1>2. CASE Start
    BY <1>2
       DEF Start, TypeInv, TypeOK, UiStates, OtherTypes
  <1>3. CASE Killed
    BY <1>3
       DEF Killed, Stopped, TypeInv, TypeOK, UiStates, OtherTypes
  <1>4. CASE Returns
    BY <1>4
       DEF Returns, Stopped, TypeInv, TypeOK, UiStates, OtherTypes
  <1>5. CASE HandleClose
    BY <1>5
       DEF HandleClose, Take, Post, TypeInv, TypeOK, UiStates, OtherTypes
  <1>6. CASE IsEmptyAnswered
    BY <1>6
       DEF IsEmptyAnswered, LeaveOrAsk, PostMessage, TypeInv, TypeOK, UiStates, OtherTypes
  <1>7. CASE IsEmptyTimesOut
    BY <1>7
       DEF IsEmptyTimesOut, GivesUp, LeaveOrAsk, PostMessage, TypeInv, TypeOK, UiStates,
           OtherTypes
  <1>8. CASE DeviceIdsAnswered
    BY <1>8
       DEF DeviceIdsAnswered, TypeInv, TypeOK, UiStates, OtherTypes
  <1>9. CASE DeviceIdsTimesOut
    BY <1>9
       DEF DeviceIdsTimesOut, GivesUp, TypeInv, TypeOK, UiStates, OtherTypes
  <1>10. CASE SaveOpens
    BY <1>10
       DEF SaveOpens, TypeInv, TypeOK, UiStates, OtherTypes
  <1>11. CASE SaveFails
    BY <1>11
       DEF SaveFails, ToClosing, Post, TypeInv, TypeOK, UiStates, OtherTypes
  <1>12. CASE SaveWrites
    BY <1>12
       DEF SaveWrites, ToClosing, Post, TypeInv, TypeOK, UiStates, OtherTypes
  <1>13. CASE CloseAllReturns
    BY <1>13
       DEF CloseAllReturns, Post, TypeInv, TypeOK, UiStates, OtherTypes
  <1>14. CASE DetachReturns
    BY <1>14
       DEF DetachReturns, TypeInv, TypeOK, UiStates, OtherTypes
  <1>15. ASSUME NEW d \in Devices, ClickDevice(d) PROVE OtherTypes'
    BY <1>15
       DEF ClickDevice, Click, Post, TypeInv, TypeOK, UiStates, OtherTypes
  <1>16. CASE ClickExit
    BY <1>16
       DEF ClickExit, Click, Post, TypeInv, TypeOK, UiStates, OtherTypes
  <1>17. CASE ClickConfirm
    BY <1>17
       DEF ClickConfirm, Click, PostMessage, TypeInv, TypeOK, UiStates, OtherTypes
  <1>18. CASE RunConnect
    BY <1>18, QueueType
       DEF RunConnect, RunNext, Free, Tell, Leaves, Table!Refuse, Table!Fail, Table!Begin,
           Table!Move, TypeInv, TypeOK, UiStates, OtherTypes
  <1>19. CASE RunSnapshot
    BY <1>19
       DEF RunSnapshot, RunNext, Free, TypeInv, TypeOK, UiStates, OtherTypes
  <1>20. CASE TestGate
    BY <1>20
       DEF TestGate, TypeInv, TypeOK, UiStates, OtherTypes
  <1>21. CASE Posts
    <2>1. Head(telling).dev \in Devices
      BY <1>21, TellingType DEF Posts, TypeInv, TypeOK
    <2>2. missed' \in SUBSET Devices
      BY <1>21, <2>1 DEF Posts, TypeInv, TypeOK
    <2>3. lateMarshals' \in Nat /\ passed' = FALSE
      BY <1>21 DEF Posts, TypeInv, TypeOK
    <2>4. UNCHANGED <<ui, clicks, g_exiting, flyout, confirmed, foundEmpty, saved, begun>>
      BY <1>21 DEF Posts
    <2>. QED
      BY <2>2, <2>3, <2>4 DEF TypeInv, TypeOK, OtherTypes
  <1>22. CASE UNCHANGED vars
    BY <1>22 DEF vars, TypeInv, TypeOK, UiStates, OtherTypes
  <1>stop. CASE Stops
    BY <1>stop
       DEF Stops, TypeInv, TypeOK, UiStates, OtherTypes
  <1>outside. CASE CloseFromOutside
    BY <1>outside
       DEF CloseFromOutside, PostMessage, TypeInv, TypeOK, UiStates, OtherTypes
  <1>. QED
    BY <1>1, <1>2, <1>3, <1>4, <1>5, <1>6, <1>7, <1>8, <1>9, <1>10, <1>11, <1>12, <1>13, <1>14,
       <1>15, <1>16, <1>17, <1>18, <1>19, <1>20, <1>21, <1>22, <1>stop
      , <1>outside
       DEF Next, UiStep, HandleMessage, ExitStep, ExecutorStep, RunTask,
       MarshalToUi

LEMMA TypeInit == Init => TypeInv
  <1>. SUFFICES ASSUME Init PROVE TypeInv
    OBVIOUS
  <1>1. /\ msgs \in Seq(Messages) /\ Len(msgs) <= MaxMessages
        /\ queue \in Seq(Tasks) /\ telling \in Seq(Reports) /\ passed = FALSE
    BY MaxMessagesAssumption DEF Init
  <1>2. TableTypes
    BY DEF Init, TableTypes, Nowhere, Table!Places, Table!Statuses
  <1>3. SettingsTypes
    BY FileType DEF Init, SettingsTypes, NoAnswer
  <1>4. OtherTypes
    BY DEF Init, OtherTypes, UiStates
  <1>. QED
    BY <1>1, <1>2, <1>3, <1>4 DEF TypeInv, TypeOK, TableTypes, SettingsTypes, OtherTypes

LEMMA TypeStep == ASSUME TypeInv, [Next]_vars PROVE TypeInv'
  BY QueueTypeStep, MsgsTypeStep, TellingTypeStep, TableTypeStep, SettingsTypeStep, OtherTypeStep
     DEF TypeInv, TypeOK, TableTypes, SettingsTypes, OtherTypes

(* TypeOK, and that a report past the gate is there. *)
LEMMA TypeInvariance == Safety => []TypeInv
  BY TypeInit, TypeStep, PTL DEF Safety

THEOREM TypeCorrect == Safety => []TypeOK
  <1>1. TypeInv => TypeOK
    BY DEF TypeInv
  <1>. QED
    BY <1>1, TypeInvariance, PTL

-----------------------------------------------------------------------------
(* The gate.  Nothing is late before WM_DESTROY, and after it only the
   report that had passed already.                                         *)
GateInv ==
    /\ lateMarshals + (IF passed THEN 1 ELSE 0) <= 1
    /\ ~g_exiting => lateMarshals = 0
    /\ ui \in {"off", "loop", "isEmpty"} => ~g_exiting

LEMMA GateStep == ASSUME TypeInv, GateInv, [Next]_vars PROVE GateInv'
  <1>. USE DEF table, settings, reporting, choices, exits, histories
  <1>1. CASE \/ CloseFromOutside
           \/ HandleConnectdevice \/ HandleMarshal \/ ClickConfirm \/ RunConnect
           \/ RunDisconnect \/ RunSnapshot \/ RunCloseAll \/ RunDetach
           \/ \E d \in Devices : ClickDevice(d) \/ LookupSucceeds(d) \/ LookupFails(d) \/ Settle(d) \/ Lose(d)
    <2>1. UNCHANGED <<passed, lateMarshals, g_exiting, ui>>
      BY <1>1 DEF CloseFromOutside,
         HandleConnectdevice, Take, HandleMarshal, ClickDevice, Click, Post,
         ClickConfirm, PostMessage, LookupSucceeds, LookupFails, RunConnect, RunNext, Free,
         Tell, Leaves, Table!Refuse, Table!Fail, Table!Begin, Table!Move, RunDisconnect,
         Dropped, Table!Drop, RunSnapshot, RunCloseAll, Table!CloseAll, Table!Emptied,
         RunDetach, Table!Detach, Settle, Table!Open, Lose
    <2>. QED
      BY <2>1 DEF TypeInv, TypeOK, GateInv
  <1>2. CASE Start
    BY <1>2
       DEF Start, TypeInv, TypeOK, GateInv
  <1>3. CASE Killed
    BY <1>3
       DEF Killed, Stopped, TypeInv, TypeOK, GateInv
  <1>4. CASE Returns
    BY <1>4
       DEF Returns, Stopped, TypeInv, TypeOK, GateInv
  <1>5. CASE HandleClose
    BY <1>5
       DEF HandleClose, Take, Post, TypeInv, TypeOK, GateInv
  <1>6. CASE IsEmptyAnswered
    BY <1>6
       DEF IsEmptyAnswered, LeaveOrAsk, PostMessage, TypeInv, TypeOK, GateInv
  <1>7. CASE IsEmptyTimesOut
    BY <1>7
       DEF IsEmptyTimesOut, GivesUp, LeaveOrAsk, PostMessage, TypeInv, TypeOK, GateInv
  <1>8. CASE DeviceIdsAnswered
    BY <1>8
       DEF DeviceIdsAnswered, TypeInv, TypeOK, GateInv
  <1>9. CASE DeviceIdsTimesOut
    BY <1>9
       DEF DeviceIdsTimesOut, GivesUp, TypeInv, TypeOK, GateInv
  <1>10. CASE SaveOpens
    BY <1>10
       DEF SaveOpens, TypeInv, TypeOK, GateInv
  <1>11. CASE SaveFails
    BY <1>11
       DEF SaveFails, ToClosing, Post, TypeInv, TypeOK, GateInv
  <1>12. CASE SaveWrites
    BY <1>12
       DEF SaveWrites, ToClosing, Post, TypeInv, TypeOK, GateInv
  <1>13. CASE CloseAllReturns
    BY <1>13
       DEF CloseAllReturns, Post, TypeInv, TypeOK, GateInv
  <1>14. CASE DetachReturns
    BY <1>14
       DEF DetachReturns, TypeInv, TypeOK, GateInv
  <1>15. CASE ClickExit
    BY <1>15
       DEF ClickExit, Click, Post, TypeInv, TypeOK, GateInv
  <1>16. CASE TestGate
    BY <1>16
       DEF TestGate, TypeInv, TypeOK, GateInv
  <1>17. CASE Posts
    BY <1>17
       DEF Posts, TypeInv, TypeOK, GateInv
  <1>18. CASE UNCHANGED vars
    BY <1>18 DEF vars, TypeInv, TypeOK, GateInv
  <1>stop. CASE Stops
    BY <1>stop
       DEF Stops, TypeInv, TypeOK, GateInv
  <1>. QED
    BY <1>1, <1>2, <1>3, <1>4, <1>5, <1>6, <1>7, <1>8, <1>9, <1>10, <1>11, <1>12, <1>13, <1>14,
       <1>15, <1>16, <1>17, <1>18, <1>stop
       DEF Next, UiStep, HandleMessage, ExitStep, ExecutorStep, RunTask,
       MarshalToUi

LEMMA GateInvariance == Safety => []GateInv
  <1>1. Init => GateInv
    BY DEF Init, GateInv
  <1>. QED
    BY <1>1, GateStep, TypeInvariance, PTL DEF Safety

(* GateLetsOneThrough: however many reports the executor has to give while
   the window is destroyed, one closure at most is posted to it.           *)
THEOREM GateHolds == Safety => []GateLetsOneThrough
  <1>1. TypeInv /\ GateInv => GateLetsOneThrough
    BY DEF TypeInv, TypeOK, GateInv, GateLetsOneThrough
  <1>. QED
    BY <1>1, TypeInvariance, GateInvariance, PTL

-----------------------------------------------------------------------------
(* What is in a sequence after a step. *)
LEMMA InAppend ==
    ASSUME NEW S, NEW s \in Seq(S), NEW x \in S
    PROVE  /\ Len(s) \in Nat /\ Len(Append(s, x)) = Len(s) + 1
           /\ \A i \in 1..Len(s) : Append(s, x)[i] = s[i]
           /\ Append(s, x)[Len(s) + 1] = x
           /\ \A i \in 1..(Len(s) + 1) : i \in 1..Len(s) \/ i = Len(s) + 1
  BY AppendProperties, LenProperties

LEMMA InTail ==
    ASSUME NEW S, NEW s \in Seq(S), s # <<>>
    PROVE  /\ Len(s) \in Nat /\ Len(Tail(s)) = Len(s) - 1 /\ 1 \in 1..Len(s) /\ Head(s) = s[1]
           /\ \A i \in 1..Len(Tail(s)) : Tail(s)[i] = s[i + 1] /\ i + 1 \in 1..Len(s)
           /\ \A i \in 1..Len(s) : i = 1 \/ (i - 1 \in 1..Len(Tail(s)) /\ s[i] = Tail(s)[i - 1])
  <1>1. /\ Len(s) \in Nat /\ Len(s) >= 1 /\ Len(Tail(s)) = Len(s) - 1 /\ Head(s) = s[1]
        /\ \A i \in 1..Len(Tail(s)) : Tail(s)[i] = s[i + 1]
    BY HeadTailProperties, LenProperties, EmptySeq
  <1>2. \A i \in 1..Len(s) : i = 1 \/ i - 1 \in 1..Len(Tail(s))
    BY <1>1
  <1>3. \A i \in 1..Len(s) : i - 1 \in 1..Len(Tail(s)) => s[i] = Tail(s)[i - 1]
    BY <1>1
  <1>. QED
    BY <1>1, <1>2, <1>3

-----------------------------------------------------------------------------
(* The snapshots.  One task at most is awaited, by the wait the UI thread is
   in, and not after it was answered.                                      *)
AwaitInv ==
    /\ \A i \in 1..Len(queue) :
          queue[i].awaited =>
             /\ ~answer.given
             /\ \/ queue[i].op = "IsEmpty" /\ ui = "isEmpty"
                \/ queue[i].op = "DeviceIds" /\ ui = "deviceIds"
             /\ \A j \in 1..Len(queue) : queue[j].awaited => i = j
    /\ answer.given => ui \in {"isEmpty", "deviceIds"}

(* Nothing is awaited, and nothing that is becomes so. *)
NoneAwaited == \A i \in 1..Len(queue) : ~queue[i].awaited

LEMMA PostQuiet ==
    ASSUME TypeInv, NEW t \in Tasks, Post(t), ~t.awaited, NoneAwaited
    PROVE  NoneAwaited'
  BY InAppend DEF TypeInv, TypeOK, Post, NoneAwaited

LEMMA AwaitQuiet ==
    /\ AwaitInv /\ ui \notin {"isEmpty", "deviceIds"} => NoneAwaited /\ ~answer.given
    /\ NoneAwaited' /\ ~answer'.given => AwaitInv'
  BY DEF AwaitInv, NoneAwaited

LEMMA AwaitPost ==
    ASSUME TypeInv, AwaitInv, NEW t \in Tasks, Post(t), ~t.awaited, ui' = ui, answer' = answer
    PROVE  AwaitInv'
  BY InAppend DEF TypeInv, TypeOK, Post, AwaitInv

LEMMA AwaitTail ==
    ASSUME TypeInv, AwaitInv, queue # <<>>, queue' = Tail(queue), ui' = ui
    PROVE  /\ answer' = answer => AwaitInv'
           /\ Head(queue).awaited => NoneAwaited'
  BY InTail DEF TypeInv, TypeOK, AwaitInv, NoneAwaited

LEMMA AwaitedTask ==
    /\ \A op \in {"CloseAll", "Detach"} : Task(op, "any") \in Tasks /\ ~Task(op, "any").awaited
    /\ \A op \in {"Connect", "Disconnect"}, d \in Devices : Task(op, d) \in Tasks /\ ~Task(op, d).awaited
    /\ \A op \in {"IsEmpty", "DeviceIds"} : Task(op, "any") \in Tasks /\ Task(op, "any").op = op
  <1>1. \A op \in {"CloseAll", "Detach"} : ~Task(op, "any").awaited
    BY DEF Task
  <1>2. \A op \in {"Connect", "Disconnect"}, d \in Devices : ~Task(op, d).awaited
    BY DEF Task
  <1>3. \A op \in {"IsEmpty", "DeviceIds"} : Task(op, "any").op = op
    BY DEF Task
  <1>. QED
    BY <1>1, <1>2, <1>3, MakeTask

LEMMA AwaitStep == ASSUME TypeInv, AwaitInv, [Next]_vars PROVE AwaitInv'
  <1>. USE DEF table, settings, reporting, choices, exits, histories
  <1>1. CASE \/ CloseFromOutside
           \/ HandleConnectdevice \/ HandleMarshal \/ ClickConfirm \/ TestGate \/ Posts
           \/ \E d \in Devices : LookupFails(d) \/ Settle(d) \/ Lose(d)
    <2>1. UNCHANGED <<queue, answer, ui>>
      BY <1>1 DEF CloseFromOutside,
         HandleConnectdevice, Take, HandleMarshal, ClickConfirm, Click, PostMessage,
         LookupFails, Settle, Free, Dropped, Tell, Leaves, Table!Open, Table!Fail, Table!Drop,
         Table!Move, Lose, TestGate, Posts
    <2>. QED
      BY <2>1 DEF AwaitInv
  <1>2. CASE Start
    <2>1. NoneAwaited /\ ~answer.given /\ queue' = queue /\ answer' = answer
      BY <1>2, AwaitQuiet DEF Start
    <2>. QED
      BY <2>1, AwaitQuiet DEF NoneAwaited
  <1>3. CASE Killed
    BY <1>3
       DEF Killed, Stopped, NoAnswer, AwaitInv
  <1>4. CASE Returns
    BY <1>4
       DEF Returns, Stopped, NoAnswer, AwaitInv
  <1>5. CASE HandleClose
    <2>1. CASE reconnect
      <3>1. NoneAwaited /\ ~answer.given
        BY <1>5, <2>1, AwaitQuiet DEF HandleClose, Click, Take
      <3>2. Post(Task("DeviceIds", "any")) /\ ui = "loop" /\ ui' = "deviceIds" /\ answer' = answer
        BY <1>5, <2>1 DEF HandleClose, Take
      <3>. QED
        BY <3>1, <3>2, InAppend, AwaitedTask DEF TypeInv, TypeOK, Post, AwaitInv, NoneAwaited
    <2>2. CASE ~reconnect
      <3>1. NoneAwaited /\ ~answer.given /\ queue' = queue /\ answer' = answer
        BY <1>5, <2>2, AwaitQuiet DEF HandleClose, Take
      <3>. QED
        BY <3>1, AwaitQuiet DEF NoneAwaited
    <2>. QED
      BY <2>1, <2>2
  <1>6. CASE IsEmptyAnswered
    <2>1. NoneAwaited'
      BY <1>6 DEF IsEmptyAnswered, AwaitInv, NoneAwaited
    <2>2. ~answer'.given
      BY <1>6 DEF IsEmptyAnswered, LeaveOrAsk, NoAnswer
    <2>. QED
      BY <2>1, <2>2, AwaitQuiet
  <1>7. CASE IsEmptyTimesOut
    <2>1. NoneAwaited'
      BY <1>7, GivenUp DEF IsEmptyTimesOut, GivesUp, NoneAwaited, TypeInv, TypeOK
    <2>2. ~answer'.given
      BY <1>7 DEF IsEmptyTimesOut, GivesUp, LeaveOrAsk, NoAnswer
    <2>. QED
      BY <2>1, <2>2, AwaitQuiet
  <1>8. CASE DeviceIdsAnswered
    <2>1. NoneAwaited'
      BY <1>8 DEF DeviceIdsAnswered, AwaitInv, NoneAwaited
    <2>2. ~answer'.given
      BY <1>8 DEF DeviceIdsAnswered, LeaveOrAsk, NoAnswer
    <2>. QED
      BY <2>1, <2>2, AwaitQuiet
  <1>9. CASE DeviceIdsTimesOut
    <2>1. NoneAwaited'
      BY <1>9, GivenUp DEF DeviceIdsTimesOut, GivesUp, NoneAwaited, TypeInv, TypeOK
    <2>2. ~answer'.given
      BY <1>9 DEF DeviceIdsTimesOut, GivesUp, LeaveOrAsk, NoAnswer
    <2>. QED
      BY <2>1, <2>2, AwaitQuiet
  <1>10. CASE SaveOpens
    <2>1. NoneAwaited /\ ~answer.given /\ queue' = queue /\ answer' = answer
      BY <1>10, AwaitQuiet DEF SaveOpens
    <2>. QED
      BY <2>1, AwaitQuiet DEF NoneAwaited
  <1>11. CASE SaveFails
    <2>1. ui \notin {"isEmpty", "deviceIds"} /\ answer' = answer /\ Post(Task("CloseAll", "any"))
      BY <1>11 DEF SaveFails, ToClosing
    <2>. QED
      BY <2>1, AwaitQuiet, PostQuiet, AwaitedTask
  <1>12. CASE SaveWrites
    <2>1. ui \notin {"isEmpty", "deviceIds"} /\ answer' = answer /\ Post(Task("CloseAll", "any"))
      BY <1>12 DEF SaveWrites, ToClosing
    <2>. QED
      BY <2>1, AwaitQuiet, PostQuiet, AwaitedTask
  <1>13. CASE CloseAllReturns
    <2>1. ui \notin {"isEmpty", "deviceIds"} /\ answer' = answer /\ Post(Task("Detach", "any"))
      BY <1>13 DEF CloseAllReturns
    <2>. QED
      BY <2>1, AwaitQuiet, PostQuiet, AwaitedTask
  <1>14. CASE DetachReturns
    <2>1. NoneAwaited /\ ~answer.given /\ queue' = queue /\ answer' = answer
      BY <1>14, AwaitQuiet DEF DetachReturns
    <2>. QED
      BY <2>1, AwaitQuiet DEF NoneAwaited
  <1>15. ASSUME NEW d \in Devices, ClickDevice(d) PROVE AwaitInv'
    <2>1. PICK op \in {"Connect", "Disconnect"} : Post(Task(op, d))
      BY <1>15 DEF ClickDevice
    <2>2. ui' = ui /\ answer' = answer
      BY <1>15 DEF ClickDevice
    <2>. QED
      BY <2>1, <2>2, AwaitPost, AwaitedTask
  <1>16. CASE ClickExit
    <2>1. NoneAwaited /\ ~answer.given
      BY <1>16, AwaitQuiet DEF ClickExit, Click, Take
    <2>2. Post(Task("IsEmpty", "any")) /\ ui = "loop" /\ ui' = "isEmpty" /\ answer' = answer
      BY <1>16 DEF ClickExit, Click
    <2>. QED
      BY <2>1, <2>2, InAppend, AwaitedTask DEF TypeInv, TypeOK, Post, AwaitInv, NoneAwaited
  <1>17. ASSUME NEW d \in Devices, LookupSucceeds(d) PROVE AwaitInv'
    <2>1. Post(Task("Connect", d)) /\ ui' = ui /\ answer' = answer
      BY <1>17 DEF LookupSucceeds, Click
    <2>. QED
      BY <2>1, AwaitPost, AwaitedTask
  <1>18. CASE RunConnect
    <2>1. queue # <<>> /\ queue' = Tail(queue) /\ ui' = ui /\ answer' = answer
      BY <1>18 DEF RunConnect, RunNext
    <2>. QED
      BY <2>1, AwaitTail
  <1>19. CASE RunDisconnect
    <2>1. queue # <<>> /\ queue' = Tail(queue) /\ ui' = ui /\ answer' = answer
      BY <1>19 DEF RunDisconnect, RunNext
    <2>. QED
      BY <2>1, AwaitTail
  <1>20. CASE RunSnapshot
    <2>1. /\ queue # <<>> /\ queue' = Tail(queue) /\ ui' = ui
          /\ IF Head(queue).awaited THEN answer'.given ELSE answer' = answer
      BY <1>20 DEF RunSnapshot, RunNext
    <2>2. CASE ~Head(queue).awaited
      BY <2>1, <2>2, AwaitTail
    <2>3. CASE Head(queue).awaited
      <3>1. NoneAwaited' /\ ui \in {"isEmpty", "deviceIds"}
        BY <2>1, <2>3, AwaitTail, InTail DEF TypeInv, TypeOK, AwaitInv
      <3>. QED
        BY <2>1, <3>1 DEF AwaitInv, NoneAwaited
    <2>. QED
      BY <2>2, <2>3
  <1>21. CASE RunCloseAll
    <2>1. queue # <<>> /\ queue' = Tail(queue) /\ ui' = ui /\ answer' = answer
      BY <1>21 DEF RunCloseAll, RunNext
    <2>. QED
      BY <2>1, AwaitTail
  <1>22. CASE RunDetach
    <2>1. queue # <<>> /\ queue' = Tail(queue) /\ ui' = ui /\ answer' = answer
      BY <1>22 DEF RunDetach, RunNext
    <2>. QED
      BY <2>1, AwaitTail
  <1>23. CASE UNCHANGED vars
    BY <1>23 DEF vars, AwaitInv
  <1>stop. CASE Stops
    <2>1. NoneAwaited /\ ~answer.given /\ queue' = queue /\ answer' = answer
      BY <1>stop, AwaitQuiet DEF Stops
    <2>. QED
      BY <2>1, AwaitQuiet DEF NoneAwaited
  <1>. QED
    BY <1>1, <1>2, <1>3, <1>4, <1>5, <1>6, <1>7, <1>8, <1>9, <1>10, <1>11, <1>12, <1>13, <1>14,
       <1>15, <1>16, <1>17, <1>18, <1>19, <1>20, <1>21, <1>22, <1>23, <1>stop
       DEF Next, UiStep, HandleMessage, ExitStep, ExecutorStep, RunTask,
       MarshalToUi

LEMMA AwaitInvariance == Safety => []AwaitInv
  <1>1. Init => AwaitInv
    BY DEF Init, AwaitInv, NoAnswer
  <1>. QED
    BY <1>1, AwaitStep, TypeInvariance, PTL DEF Safety

-----------------------------------------------------------------------------
(* The exit.  Who asks for the window to be closed has a reason; IsEmpty
   vouches for what was there when it answered, begun for what came later. *)
CloseInv ==
    /\ \A i \in 1..Len(msgs) : msgs[i].what = "Close" => confirmed \/ foundEmpty
    /\ answer.given /\ ui = "isEmpty" /\ answer.devices = {} => foundEmpty

BegunInv == foundEmpty => \A d \in Devices : tracked[d] # "none" => d \in begun

Reasoned == \A i \in 1..Len(msgs) : msgs[i].what = "Close" => confirmed \/ foundEmpty

LEMMA ReasonedAppend ==
    ASSUME TypeInv, Reasoned, NEW m \in Messages, msgs' = Append(msgs, m) \/ msgs' = msgs,
           confirmed => confirmed', foundEmpty => foundEmpty',
           m.what = "Close" => confirmed' \/ foundEmpty'
    PROVE  Reasoned'
  <1>1. CASE msgs' = Append(msgs, m)
    BY <1>1, InAppend DEF TypeInv, TypeOK, Reasoned
  <1>2. CASE msgs' = msgs
    BY <1>2 DEF Reasoned
  <1>. QED
    BY <1>1, <1>2

LEMMA ReasonedTail ==
    ASSUME TypeInv, Reasoned, msgs # <<>>, msgs' = Tail(msgs), confirmed' = confirmed, foundEmpty' = foundEmpty
    PROVE  Reasoned' /\ (Head(msgs).what = "Close" => confirmed \/ foundEmpty)
  BY InTail DEF TypeInv, TypeOK, Reasoned

LEMMA CloseStep == ASSUME TypeInv, AwaitInv, CloseInv, [Next]_vars PROVE CloseInv'
  <1>. USE DEF table, settings, reporting, choices, exits, histories
  <1>1. CASE \/ RunConnect \/ RunDisconnect \/ RunCloseAll \/ RunDetach \/ TestGate
           \/ \E d \in Devices : ClickDevice(d) \/ LookupSucceeds(d) \/ LookupFails(d) \/ Settle(d) \/ Lose(d)
    <2>1. UNCHANGED <<msgs, confirmed, foundEmpty, answer, ui>>
      BY <1>1 DEF ClickDevice, Click, Post, LookupSucceeds, LookupFails, RunConnect, RunNext,
         Free, Tell, Leaves, Table!Refuse, Table!Fail, Table!Begin, Table!Move, RunDisconnect,
         Dropped, Table!Drop, RunCloseAll, Table!CloseAll, Table!Emptied, RunDetach,
         Table!Detach, Settle, Table!Open, Lose, TestGate
    <2>. QED
      BY <2>1 DEF CloseInv
  <1>2. CASE Start
    <2>1. msgs' = <<Msg("Connectdevice", "any", "none")>> /\ ui' = "loop"
      BY <1>2 DEF Start
    <2>. QED
      BY <2>1 DEF CloseInv, Msg
  <1>3. CASE Killed
    BY <1>3
       DEF Killed, Stopped, NoAnswer, CloseInv
  <1>4. CASE Returns
    BY <1>4
       DEF Returns, Stopped, NoAnswer, CloseInv
  <1>5. CASE HandleConnectdevice
    <2>1. msgs # <<>> /\ msgs' = Tail(msgs) /\ UNCHANGED <<confirmed, foundEmpty, answer>> /\ ui = "loop"
      BY <1>5 DEF HandleConnectdevice, Take, histories
    <2>2. Reasoned'
      BY <2>1, ReasonedTail DEF CloseInv, Reasoned
    <2>3. ~answer.given
      BY <2>1 DEF AwaitInv
    <2>. QED
      BY <2>1, <2>2, <2>3 DEF CloseInv, Reasoned
  <1>6. CASE HandleMarshal
    <2>1. msgs # <<>> /\ msgs' = Tail(msgs) /\ UNCHANGED <<confirmed, foundEmpty, answer>> /\ ui = "loop"
      BY <1>6 DEF HandleMarshal, Take, histories
    <2>2. Reasoned'
      BY <2>1, ReasonedTail DEF CloseInv, Reasoned
    <2>3. ~answer.given
      BY <2>1 DEF AwaitInv
    <2>. QED
      BY <2>1, <2>2, <2>3 DEF CloseInv, Reasoned
  <1>7. CASE HandleClose
    <2>1. msgs # <<>> /\ msgs' = Tail(msgs) /\ UNCHANGED <<confirmed, foundEmpty, answer>> /\ ui = "loop"
      BY <1>7 DEF HandleClose, Take, histories
    <2>2. Reasoned'
      BY <2>1, ReasonedTail DEF CloseInv, Reasoned
    <2>3. ~answer.given
      BY <2>1 DEF AwaitInv
    <2>. QED
      BY <2>1, <2>2, <2>3 DEF CloseInv, Reasoned
  <1>8. CASE IsEmptyAnswered
    <2>1. /\ answer.devices = {} => foundEmpty
          /\ ui' = "loop" /\ ~answer'.given /\ UNCHANGED <<confirmed, foundEmpty>>
      BY <1>8 DEF IsEmptyAnswered, LeaveOrAsk, NoAnswer, CloseInv
    <2>2. \/ UNCHANGED msgs
          \/ answer.devices = {} /\ msgs' = Append(msgs, Msg("Close", "any", "none"))
      BY <1>8 DEF IsEmptyAnswered, LeaveOrAsk, PostMessage
    <2>3. Reasoned'
      BY <2>1, <2>2, ReasonedAppend, MakeMsg DEF CloseInv, Reasoned
    <2>. QED
      BY <2>1, <2>3 DEF CloseInv, Reasoned
  <1>9. CASE IsEmptyTimesOut
    BY <1>9
       DEF IsEmptyTimesOut, GivesUp, LeaveOrAsk, PostMessage, CloseInv
  <1>10. CASE DeviceIdsAnswered
    BY <1>10
       DEF DeviceIdsAnswered, CloseInv
  <1>11. CASE DeviceIdsTimesOut
    BY <1>11
       DEF DeviceIdsTimesOut, GivesUp, CloseInv
  <1>12. CASE SaveOpens
    BY <1>12
       DEF SaveOpens, CloseInv
  <1>13. CASE SaveFails
    BY <1>13
       DEF SaveFails, ToClosing, Post, CloseInv
  <1>14. CASE SaveWrites
    BY <1>14
       DEF SaveWrites, ToClosing, Post, CloseInv
  <1>15. CASE CloseAllReturns
    BY <1>15
       DEF CloseAllReturns, Post, CloseInv
  <1>16. CASE DetachReturns
    BY <1>16
       DEF DetachReturns, CloseInv
  <1>17. CASE ClickExit
    BY <1>17
       DEF ClickExit, Click, Post, AwaitInv, CloseInv
  <1>18. CASE ClickConfirm
    <2>1. /\ msgs' = Append(msgs, Msg("Close", "any", "none")) \/ msgs' = msgs
          /\ confirmed' /\ UNCHANGED <<foundEmpty, answer, ui>>
      BY <1>18 DEF ClickConfirm, Click, PostMessage
    <2>2. Reasoned'
      BY <2>1, ReasonedAppend, MakeMsg DEF CloseInv, Reasoned
    <2>. QED
      BY <2>1, <2>2 DEF CloseInv, Reasoned
  <1>19. CASE RunSnapshot
    <2>1. UNCHANGED <<msgs, confirmed, ui>> /\ (foundEmpty => foundEmpty')
      BY <1>19 DEF RunSnapshot
    <2>2. CASE ~Head(queue).awaited
      BY <1>19, <2>1, <2>2 DEF RunSnapshot, CloseInv
    <2>3. CASE Head(queue).awaited
      <3>1. Head(queue).op = "IsEmpty" \/ ui = "deviceIds"
        BY <1>19, <2>3, InTail DEF RunSnapshot, RunNext, AwaitInv, TypeInv, TypeOK
      <3>. QED
        BY <1>19, <2>1, <2>3, <3>1 DEF RunSnapshot, CloseInv
    <2>. QED
      BY <2>2, <2>3
  <1>20. CASE Posts
    <2>. DEFINE m == Msg("Marshal", Head(telling).dev, Head(telling).status)
    <2>1. m \in Messages /\ m.what # "Close"
      BY <1>20, TellingType DEF Posts, Msg, TypeInv, TypeOK
    <2>2. msgs' = Append(msgs, m) \/ msgs' = msgs
      BY <1>20 DEF Posts
    <2>3. UNCHANGED <<confirmed, foundEmpty, answer, ui>>
      BY <1>20 DEF Posts
    <2>. HIDE DEF m
    <2>4. Reasoned'
      BY <2>1, <2>2, <2>3, ReasonedAppend DEF CloseInv, Reasoned
    <2>. QED
      BY <2>3, <2>4 DEF CloseInv, Reasoned
  <1>21. CASE UNCHANGED vars
    BY <1>21 DEF vars, CloseInv
  <1>stop. CASE Stops
    BY <1>stop
       DEF Stops, CloseInv
  <1>outside. CASE CloseFromOutside
    <2>1. /\ msgs' = Append(msgs, Msg("Close", "any", "none")) \/ msgs' = msgs
          /\ confirmed' /\ UNCHANGED <<foundEmpty, answer, ui>>
      BY <1>outside DEF CloseFromOutside, PostMessage
    <2>2. Reasoned'
      BY <2>1, ReasonedAppend, MakeMsg DEF CloseInv, Reasoned
    <2>. QED
      BY <2>1, <2>2 DEF CloseInv, Reasoned
  <1>. QED
    BY <1>1, <1>2, <1>3, <1>4, <1>5, <1>6, <1>7, <1>8, <1>9, <1>10, <1>11, <1>12, <1>13, <1>14,
       <1>15, <1>16, <1>17, <1>18, <1>19, <1>20, <1>21, <1>stop
      , <1>outside
       DEF Next, UiStep, HandleMessage, ExitStep, ExecutorStep, RunTask,
       MarshalToUi

LEMMA BegunStep == ASSUME TypeInv, BegunInv, [Next]_vars PROVE BegunInv'
  <1>. USE DEF table, settings, reporting, choices, exits, histories
  <1>1. CASE \/ Stops \/ CloseFromOutside
           \/ Start \/ HandleConnectdevice \/ HandleMarshal \/ HandleClose \/ IsEmptyAnswered
           \/ IsEmptyTimesOut \/ DeviceIdsAnswered \/ DeviceIdsTimesOut \/ SaveOpens
           \/ SaveFails \/ SaveWrites \/ CloseAllReturns \/ DetachReturns \/ ClickExit
           \/ ClickConfirm \/ TestGate \/ Posts
           \/ \E d \in Devices : ClickDevice(d) \/ LookupSucceeds(d) \/ LookupFails(d)
    <2>1. UNCHANGED <<foundEmpty, tracked, begun>>
      BY <1>1 DEF Stops, CloseFromOutside,
         Start, HandleConnectdevice, Take, HandleMarshal, HandleClose, Post,
         IsEmptyAnswered, LeaveOrAsk, PostMessage, IsEmptyTimesOut, GivesUp, DeviceIdsAnswered,
         DeviceIdsTimesOut, SaveOpens, SaveFails, ToClosing, SaveWrites, CloseAllReturns,
         DetachReturns, ClickDevice, Click, ClickExit, ClickConfirm, LookupSucceeds,
         LookupFails, TestGate, Posts
    <2>. QED
      BY <2>1 DEF TypeInv, TypeOK, BegunInv
  <1>2. CASE Killed
    BY <1>2
       DEF Killed, Stopped, Nowhere, TypeInv, TypeOK, BegunInv
  <1>3. CASE Returns
    BY <1>3
       DEF Returns, Stopped, Nowhere, TypeInv, TypeOK, BegunInv
  <1>4. CASE RunConnect
    BY <1>4, QueueType
       DEF RunConnect, RunNext, Free, Tell, Leaves, Table!Refuse, Table!Fail, Table!Begin,
           Table!Move, TypeInv, TypeOK, BegunInv
  <1>5. CASE RunDisconnect
    BY <1>5, QueueType
       DEF RunDisconnect, RunNext, Free, Dropped, Tell, Leaves, Table!Drop, Table!Move,
           TypeInv, TypeOK, BegunInv
  <1>6. CASE RunSnapshot
    BY <1>6
       DEF RunSnapshot, RunNext, Free, TypeInv, TypeOK, BegunInv
  <1>7. CASE RunCloseAll
    BY <1>7
       DEF RunCloseAll, RunNext, Free, Tell, Table!CloseAll, Table!Emptied, TypeInv, TypeOK,
           BegunInv
  <1>8. CASE RunDetach
    BY <1>8
       DEF RunDetach, RunNext, Free, Table!Detach, Table!Emptied, TypeInv, TypeOK, BegunInv
  <1>9. ASSUME NEW d \in Devices, Settle(d) PROVE BegunInv'
    BY <1>9
       DEF Settle, Free, Dropped, Tell, Leaves, Table!Open, Table!Fail, Table!Drop, Table!Move,
           TypeInv, TypeOK, BegunInv
  <1>10. ASSUME NEW d \in Devices, Lose(d) PROVE BegunInv'
    BY <1>10
       DEF Lose, Free, Dropped, Tell, Leaves, Table!Drop, Table!Move, TypeInv, TypeOK, BegunInv
  <1>11. CASE UNCHANGED vars
    BY <1>11 DEF vars, TypeInv, TypeOK, BegunInv
  <1>. QED
    BY <1>1, <1>2, <1>3, <1>4, <1>5, <1>6, <1>7, <1>8, <1>9, <1>10, <1>11 DEF Next, UiStep, HandleMessage, ExitStep, ExecutorStep, RunTask,
       MarshalToUi

LEMMA ConfirmStep == ASSUME TypeInv, GateInv, AwaitInv, CloseInv, BegunInv, ExitIsConfirmed, [Next]_vars PROVE ExitIsConfirmed'
  <1>. USE DEF table, settings, reporting, choices, exits, histories
  <1>1. CASE \/ Stops
           \/ HandleConnectdevice \/ HandleMarshal \/ IsEmptyAnswered \/ IsEmptyTimesOut
           \/ DeviceIdsAnswered \/ SaveOpens \/ SaveFails \/ SaveWrites \/ CloseAllReturns
           \/ DetachReturns \/ ClickExit \/ RunCloseAll \/ RunDetach \/ TestGate \/ Posts
           \/ \E d \in Devices : ClickDevice(d) \/ LookupSucceeds(d) \/ LookupFails(d)
    <2>1. UNCHANGED <<g_exiting, confirmed, foundEmpty, kept, begun>>
      BY <1>1 DEF Stops,
         HandleConnectdevice, Take, HandleMarshal, IsEmptyAnswered, LeaveOrAsk,
         PostMessage, IsEmptyTimesOut, GivesUp, DeviceIdsAnswered, SaveOpens, SaveFails,
         ToClosing, Post, SaveWrites, CloseAllReturns, DetachReturns, ClickDevice, Click,
         ClickExit, LookupSucceeds, LookupFails, RunCloseAll, RunNext, Free, Tell,
         Table!CloseAll, Table!Emptied, RunDetach, Table!Detach, TestGate, Posts
    <2>. QED
      BY <2>1 DEF ExitIsConfirmed
  <1>2. CASE Start
    BY <1>2
       DEF Start, ExitIsConfirmed
  <1>3. CASE Killed
    BY <1>3
       DEF Killed, Stopped, ExitIsConfirmed
  <1>4. CASE Returns
    BY <1>4
       DEF Returns, Stopped, ExitIsConfirmed
  <1>5. CASE HandleClose
    <2>1. confirmed \/ foundEmpty
      BY <1>5, ReasonedTail DEF HandleClose, Take, CloseInv, Reasoned
    <2>2. /\ kept' = {d \in Devices : tracked[d] # "none"}
          /\ UNCHANGED <<confirmed, foundEmpty, begun>>
      BY <1>5 DEF HandleClose
    <2>. QED
      BY <2>1, <2>2 DEF BegunInv, ExitIsConfirmed
  <1>6. CASE DeviceIdsTimesOut
    BY <1>6
       DEF DeviceIdsTimesOut, GivesUp, ExitIsConfirmed
  <1>7. CASE ClickConfirm
    BY <1>7
       DEF ClickConfirm, Click, PostMessage, ExitIsConfirmed
  <1>8. CASE RunConnect
    BY <1>8
       DEF RunConnect, RunNext, Free, Tell, Leaves, Table!Refuse, Table!Fail, Table!Begin,
           Table!Move, ExitIsConfirmed
  <1>9. CASE RunDisconnect
    BY <1>9
       DEF RunDisconnect, RunNext, Free, Dropped, Tell, Leaves, Table!Drop, Table!Move,
           ExitIsConfirmed
  <1>10. CASE RunSnapshot
    <2>1. UNCHANGED <<g_exiting, confirmed, kept>> /\ (foundEmpty => foundEmpty')
      BY <1>10 DEF RunSnapshot
    <2>2. CASE g_exiting
      <3>1. Head(queue).awaited => Head(queue).op # "IsEmpty"
        BY <1>10, <2>2, InTail DEF RunSnapshot, RunNext, AwaitInv, GateInv, TypeInv, TypeOK
      <3>2. begun' = begun
        BY <1>10, <3>1 DEF RunSnapshot
      <3>. QED
        BY <2>1, <3>2 DEF ExitIsConfirmed
    <2>3. CASE ~g_exiting
      BY <2>1, <2>3 DEF ExitIsConfirmed
    <2>. QED
      BY <2>2, <2>3
  <1>11. ASSUME NEW d \in Devices, Settle(d) PROVE ExitIsConfirmed'
    BY <1>11
       DEF Settle, Free, Dropped, Tell, Leaves, Table!Open, Table!Fail, Table!Drop, Table!Move,
           ExitIsConfirmed
  <1>12. ASSUME NEW d \in Devices, Lose(d) PROVE ExitIsConfirmed'
    BY <1>12
       DEF Lose, Free, Dropped, Tell, Leaves, Table!Drop, Table!Move, ExitIsConfirmed
  <1>13. CASE UNCHANGED vars
    BY <1>13 DEF vars, ExitIsConfirmed
  <1>outside. CASE CloseFromOutside
    BY <1>outside
       DEF CloseFromOutside, PostMessage, ExitIsConfirmed
  <1>. QED
    BY <1>1, <1>2, <1>3, <1>4, <1>5, <1>6, <1>7, <1>8, <1>9, <1>10, <1>11, <1>12, <1>13, <1>outside
       DEF Next, UiStep, HandleMessage, ExitStep, ExecutorStep, RunTask,
       MarshalToUi

LEMMA ExitInvariance == Safety => [](CloseInv /\ BegunInv /\ ExitIsConfirmed)
  <1>1. Init => CloseInv /\ BegunInv /\ ExitIsConfirmed
    BY DEF Init, CloseInv, BegunInv, ExitIsConfirmed, Nowhere, NoAnswer
  <1>. QED
    BY <1>1, CloseStep, BegunStep, ConfirmStep, TypeInvariance, GateInvariance, AwaitInvariance, PTL
       DEF Safety

(* ExitIsConfirmed: a snapshot is stale as soon as it is given, but an exit
   that nobody confirmed ends at most the connections begun after it.      *)
THEOREM Confirmed == Safety => []ExitIsConfirmed
  BY ExitInvariance, PTL

-----------------------------------------------------------------------------
(* The saved list.  The tasks that empty the table come after the file is
   written; until then the list only gains on what is to be kept.          *)
Early == ui \notin {"closing", "detaching", "quit", "joining"}
NotEmptiedYet == Early => \A i \in 1..Len(queue) : queue[i].op \notin {"CloseAll", "Detach"}

SavedInv ==
    /\ ui = "deviceIds" => /\ \A d \in kept : tracked[d] # "none"
                           /\ answer.given => kept \subseteq answer.devices
    /\ ui \in {"save", "write"} /\ reconnect => kept \subseteq lastDevices
    /\ ui \in {"loop", "isEmpty", "deviceIds", "save", "write"} => ~saved
    /\ SavedListComplete

LEMMA NotEmptiedPost ==
    ASSUME TypeInv, NotEmptiedYet, NEW t \in Tasks, Post(t), Early' => Early /\ t.op \notin {"CloseAll", "Detach"}
    PROVE  NotEmptiedYet'
  <1>. SUFFICES ASSUME Early', NEW i \in 1..Len(queue') PROVE queue'[i].op \notin {"CloseAll", "Detach"}
    BY DEF NotEmptiedYet
  <1>1. queue \in Seq(Tasks) /\ queue' = Append(queue, t)
    BY DEF TypeInv, TypeOK, Post, Early
  <1>2. (i \in 1..Len(queue) /\ queue'[i] = queue[i]) \/ queue'[i] = t
    BY <1>1, InAppend
  <1>. QED
    BY <1>2 DEF NotEmptiedYet

LEMMA NotEmptiedTail ==
    ASSUME TypeInv, NotEmptiedYet, queue # <<>>, queue' = Tail(queue), ui' = ui
    PROVE  NotEmptiedYet' /\ (Early => Head(queue).op \notin {"CloseAll", "Detach"})
  BY InTail DEF TypeInv, TypeOK, NotEmptiedYet, Early

LEMMA NotEmptiedStep == ASSUME TypeInv, NotEmptiedYet, [Next]_vars PROVE NotEmptiedYet'
  <1>. USE DEF table, settings, reporting, choices, exits, histories
  <1>1. CASE \/ CloseFromOutside
           \/ HandleConnectdevice \/ HandleMarshal \/ ClickConfirm \/ TestGate \/ Posts
           \/ \E d \in Devices : LookupFails(d) \/ Settle(d) \/ Lose(d)
    <2>1. UNCHANGED <<queue, ui>>
      BY <1>1 DEF CloseFromOutside,
         HandleConnectdevice, Take, HandleMarshal, ClickConfirm, Click, PostMessage,
         LookupFails, Settle, Free, Dropped, Tell, Leaves, Table!Open, Table!Fail, Table!Drop,
         Table!Move, Lose, TestGate, Posts
    <2>. QED
      BY <2>1 DEF NotEmptiedYet, Early
  <1>2. CASE Start
    BY <1>2
       DEF Start, NotEmptiedYet, Early
  <1>3. CASE Killed
    BY <1>3
       DEF Killed, Stopped, NotEmptiedYet, Early
  <1>4. CASE Returns
    BY <1>4
       DEF Returns, Stopped, NotEmptiedYet, Early
  <1>5. CASE HandleClose
    <2>1. Early /\ (queue' = queue \/ Post(Task("DeviceIds", "any")))
      BY <1>5 DEF HandleClose, Take, Early
    <2>2. Task("DeviceIds", "any").op = "DeviceIds"
      BY DEF Task
    <2>. QED
      BY <2>1, <2>2, NotEmptiedPost, MakeTask DEF NotEmptiedYet
  <1>6. CASE IsEmptyAnswered
    BY <1>6
       DEF IsEmptyAnswered, LeaveOrAsk, PostMessage, NotEmptiedYet, Early
  <1>7. CASE IsEmptyTimesOut
    <2>1. Early /\ queue \in Seq(Tasks) /\ queue' = [i \in DOMAIN queue |-> [queue[i] EXCEPT !.awaited = FALSE]]
      BY <1>7 DEF IsEmptyTimesOut, GivesUp, Early, TypeInv, TypeOK
    <2>. QED
      BY <2>1, GivenUp DEF NotEmptiedYet
  <1>8. CASE DeviceIdsAnswered
    BY <1>8
       DEF DeviceIdsAnswered, NotEmptiedYet, Early
  <1>9. CASE DeviceIdsTimesOut
    <2>1. Early /\ queue \in Seq(Tasks) /\ queue' = [i \in DOMAIN queue |-> [queue[i] EXCEPT !.awaited = FALSE]]
      BY <1>9 DEF DeviceIdsTimesOut, GivesUp, Early, TypeInv, TypeOK
    <2>. QED
      BY <2>1, GivenUp DEF NotEmptiedYet
  <1>10. CASE SaveOpens
    BY <1>10
       DEF SaveOpens, NotEmptiedYet, Early
  <1>11. CASE SaveFails
    <2>1. Post(Task("CloseAll", "any")) /\ ~Early'
      BY <1>11 DEF SaveFails, Early, ToClosing
    <2>. QED
      BY <2>1, NotEmptiedPost, MakeTask
  <1>12. CASE SaveWrites
    <2>1. Post(Task("CloseAll", "any")) /\ ~Early'
      BY <1>12 DEF SaveWrites, Early, ToClosing
    <2>. QED
      BY <2>1, NotEmptiedPost, MakeTask
  <1>13. CASE CloseAllReturns
    <2>1. Post(Task("Detach", "any")) /\ ~Early'
      BY <1>13 DEF CloseAllReturns, Early
    <2>. QED
      BY <2>1, NotEmptiedPost, MakeTask
  <1>14. CASE DetachReturns
    BY <1>14
       DEF DetachReturns, NotEmptiedYet, Early
  <1>15. ASSUME NEW d \in Devices, ClickDevice(d) PROVE NotEmptiedYet'
    <2>1. PICK op \in {"Connect", "Disconnect"} : Post(Task(op, d)) /\ ui' = ui
      BY <1>15 DEF ClickDevice
    <2>. QED
      BY <2>1, NotEmptiedPost, MakeTask DEF Task, Early
  <1>16. CASE ClickExit
    <2>1. Post(Task("IsEmpty", "any")) /\ Early
      BY <1>16 DEF ClickExit, Click, Early
    <2>. QED
      BY <2>1, NotEmptiedPost, MakeTask DEF Task
  <1>17. ASSUME NEW d \in Devices, LookupSucceeds(d) PROVE NotEmptiedYet'
    <2>1. Post(Task("Connect", d)) /\ ui' = ui
      BY <1>17 DEF LookupSucceeds
    <2>. QED
      BY <2>1, NotEmptiedPost, MakeTask DEF Task, Early
  <1>18. CASE RunConnect
    <2>1. queue # <<>> /\ queue' = Tail(queue) /\ ui' = ui
      BY <1>18 DEF RunConnect, RunNext
    <2>. QED
      BY <2>1, NotEmptiedTail
  <1>19. CASE RunDisconnect
    <2>1. queue # <<>> /\ queue' = Tail(queue) /\ ui' = ui
      BY <1>19 DEF RunDisconnect, RunNext
    <2>. QED
      BY <2>1, NotEmptiedTail
  <1>20. CASE RunSnapshot
    <2>1. queue # <<>> /\ queue' = Tail(queue) /\ ui' = ui
      BY <1>20 DEF RunSnapshot, RunNext
    <2>. QED
      BY <2>1, NotEmptiedTail
  <1>21. CASE RunCloseAll
    <2>1. queue # <<>> /\ queue' = Tail(queue) /\ ui' = ui
      BY <1>21 DEF RunCloseAll, RunNext
    <2>. QED
      BY <2>1, NotEmptiedTail
  <1>22. CASE RunDetach
    <2>1. queue # <<>> /\ queue' = Tail(queue) /\ ui' = ui
      BY <1>22 DEF RunDetach, RunNext
    <2>. QED
      BY <2>1, NotEmptiedTail
  <1>23. CASE UNCHANGED vars
    BY <1>23 DEF vars, NotEmptiedYet, Early
  <1>stop. CASE Stops
    BY <1>stop
       DEF Stops, NotEmptiedYet, Early
  <1>. QED
    BY <1>1, <1>2, <1>3, <1>4, <1>5, <1>6, <1>7, <1>8, <1>9, <1>10, <1>11, <1>12, <1>13, <1>14,
       <1>15, <1>16, <1>17, <1>18, <1>19, <1>20, <1>21, <1>22, <1>23, <1>stop
       DEF Next, UiStep, HandleMessage, ExitStep, ExecutorStep, RunTask,
       MarshalToUi

LEMMA SavedStep == ASSUME TypeInv, AwaitInv, NotEmptiedYet, SavedInv, [Next]_vars PROVE SavedInv'
  <1>. USE DEF table, settings, reporting, choices, exits, histories
  <1>1. CASE \/ HandleMarshal \/ TestGate \/ Posts
           \/ \E d \in Devices : ClickDevice(d) \/ LookupSucceeds(d) \/ LookupFails(d)
    <2>1. UNCHANGED <<ui, kept, tracked, answer, reconnect, lastDevices, saved, file>>
      BY <1>1 DEF HandleMarshal, Take, ClickDevice, Click, Post, LookupSucceeds, LookupFails,
         TestGate, Posts
    <2>. QED
      BY <2>1 DEF TypeInv, TypeOK, SavedInv, SavedListComplete
  <1>2. CASE Start
    BY <1>2
       DEF Start, TypeInv, TypeOK, SavedInv, SavedListComplete
  <1>3. CASE Killed
    BY <1>3
       DEF Killed, Stopped, UiStates, TypeInv, TypeOK, SavedInv, SavedListComplete
  <1>4. CASE Returns
    BY <1>4
       DEF Returns, Stopped, UiStates, TypeInv, TypeOK, SavedInv, SavedListComplete
  <1>5. CASE HandleConnectdevice
    BY <1>5
       DEF HandleConnectdevice, Take, TypeInv, TypeOK, SavedInv, SavedListComplete
  <1>6. CASE HandleClose
    <2>1. ~answer.given
      BY <1>6 DEF HandleClose, Take, AwaitInv
    <2>2. /\ kept' = {d \in Devices : tracked[d] # "none"} /\ ~saved
          /\ UNCHANGED <<tracked, answer, reconnect, saved, file>>
          /\ (reconnect /\ ui' = "deviceIds") \/ (~reconnect /\ ui' = "save")
      BY <1>6 DEF HandleClose, Take, SavedInv
    <2>. QED
      BY <2>1, <2>2 DEF SavedInv, SavedListComplete
  <1>7. CASE IsEmptyAnswered
    BY <1>7
       DEF IsEmptyAnswered, LeaveOrAsk, PostMessage, TypeInv, TypeOK, SavedInv,
           SavedListComplete
  <1>8. CASE IsEmptyTimesOut
    BY <1>8
       DEF IsEmptyTimesOut, GivesUp, LeaveOrAsk, PostMessage, TypeInv, TypeOK, SavedInv,
           SavedListComplete
  <1>9. CASE DeviceIdsAnswered
    BY <1>9
       DEF DeviceIdsAnswered, TypeInv, TypeOK, SavedInv, SavedListComplete
  <1>10. CASE DeviceIdsTimesOut
    BY <1>10
       DEF DeviceIdsTimesOut, GivesUp, TypeInv, TypeOK, SavedInv, SavedListComplete
  <1>11. CASE SaveOpens
    BY <1>11
       DEF SaveOpens, TypeInv, TypeOK, SavedInv, SavedListComplete
  <1>12. CASE SaveFails
    BY <1>12
       DEF SaveFails, ToClosing, Post, TypeInv, TypeOK, SavedInv, SavedListComplete
  <1>13. CASE SaveWrites
    BY <1>13
       DEF SaveWrites, ToClosing, Post, File, LoadSettings, TypeInv, TypeOK, SavedInv,
           SavedListComplete
  <1>14. CASE CloseAllReturns
    BY <1>14
       DEF CloseAllReturns, Post, TypeInv, TypeOK, SavedInv, SavedListComplete
  <1>15. CASE DetachReturns
    BY <1>15
       DEF DetachReturns, TypeInv, TypeOK, SavedInv, SavedListComplete
  <1>16. CASE ClickExit
    BY <1>16
       DEF ClickExit, Click, Post, TypeInv, TypeOK, SavedInv, SavedListComplete
  <1>17. CASE ClickConfirm
    BY <1>17
       DEF ClickConfirm, Click, PostMessage, TypeInv, TypeOK, SavedInv, SavedListComplete
  <1>18. CASE RunConnect
    BY <1>18, QueueType
       DEF RunConnect, RunNext, Free, Tell, Leaves, Table!Refuse, Table!Fail, Table!Begin,
           Table!Move, TypeInv, TypeOK, SavedInv, SavedListComplete
  <1>19. CASE RunDisconnect
    BY <1>19, QueueType
       DEF RunDisconnect, RunNext, Free, Dropped, Tell, Leaves, Table!Drop, Table!Move,
           TypeInv, TypeOK, SavedInv, SavedListComplete
  <1>20. CASE RunSnapshot
    BY <1>20
       DEF RunSnapshot, RunNext, Free, TypeInv, TypeOK, SavedInv, SavedListComplete
  <1>21. CASE RunCloseAll
    <2>1. ~Early
      BY <1>21, NotEmptiedTail DEF RunCloseAll, RunNext
    <2>2. UNCHANGED <<ui, kept, saved, file>>
      BY <1>21 DEF RunCloseAll, Table!CloseAll, Table!Detach
    <2>. QED
      BY <2>1, <2>2 DEF SavedInv, SavedListComplete, Early
  <1>22. CASE RunDetach
    <2>1. ~Early
      BY <1>22, NotEmptiedTail DEF RunDetach, RunNext
    <2>2. UNCHANGED <<ui, kept, saved, file>>
      BY <1>22 DEF RunDetach, Table!CloseAll, Table!Detach
    <2>. QED
      BY <2>1, <2>2 DEF SavedInv, SavedListComplete, Early
  <1>23. ASSUME NEW d \in Devices, Settle(d) PROVE SavedInv'
    BY <1>23
       DEF Settle, Free, Dropped, Tell, Leaves, Table!Open, Table!Fail, Table!Drop, Table!Move,
           TypeInv, TypeOK, SavedInv, SavedListComplete
  <1>24. ASSUME NEW d \in Devices, Lose(d) PROVE SavedInv'
    BY <1>24
       DEF Lose, Free, Dropped, Tell, Leaves, Table!Drop, Table!Move, TypeInv, TypeOK,
           SavedInv, SavedListComplete
  <1>25. CASE UNCHANGED vars
    BY <1>25 DEF vars, TypeInv, TypeOK, SavedInv, SavedListComplete
  <1>stop. CASE Stops
    BY <1>stop
       DEF Stops, TypeInv, TypeOK, SavedInv, SavedListComplete
  <1>outside. CASE CloseFromOutside
    BY <1>outside
       DEF CloseFromOutside, PostMessage, TypeInv, TypeOK, SavedInv, SavedListComplete
  <1>. QED
    BY <1>1, <1>2, <1>3, <1>4, <1>5, <1>6, <1>7, <1>8, <1>9, <1>10, <1>11, <1>12, <1>13, <1>14,
       <1>15, <1>16, <1>17, <1>18, <1>19, <1>20, <1>21, <1>22, <1>23, <1>24, <1>25, <1>stop
      , <1>outside
       DEF Next, UiStep, HandleMessage, ExitStep, ExecutorStep, RunTask,
       MarshalToUi

LEMMA SavedInvariance == Safety => [](NotEmptiedYet /\ SavedInv)
  <1>1. Init => NotEmptiedYet /\ SavedInv
    BY DEF Init, NotEmptiedYet, SavedInv, SavedListComplete
  <1>. QED
    BY <1>1, NotEmptiedStep, SavedStep, TypeInvariance, AwaitInvariance, PTL DEF Safety

(* SavedListComplete: whatever was torn down, lost or timed out, a list that
   was answered and written holds every device it ought to.                *)
THEOREM Saved == Safety => []SavedListComplete
  <1>1. SavedInv => SavedListComplete
    BY DEF SavedInv
  <1>. QED
    BY <1>1, SavedInvariance, PTL

-----------------------------------------------------------------------------
(* The list of devices to reconnect. *)
Pending == \E i \in DOMAIN msgs : msgs[i].what = "Connectdevice"
Wanted(d) == \E i \in DOMAIN queue : queue[i].op = "Connect" /\ queue[i].dev = d

LEMMA PendingStays ==
    ASSUME TypeInv
    PROVE  /\ \A m \in Messages : msgs' = Append(msgs, m) /\ Pending => Pending'
           /\ msgs # <<>> /\ msgs' = Tail(msgs) /\ Pending
              => Pending' \/ Head(msgs).what = "Connectdevice"
  <1>0. msgs \in Seq(Messages) /\ DOMAIN msgs = 1..Len(msgs)
    BY LenProperties DEF TypeInv, TypeOK
  <1>1. ASSUME NEW m \in Messages, msgs' = Append(msgs, m), Pending PROVE Pending'
    <2>1. DOMAIN msgs' = 1..(Len(msgs) + 1)
      BY <1>0, <1>1, InAppend, AppendProperties, LenProperties
    <2>. QED
      BY <1>0, <1>1, <2>1, InAppend DEF Pending
  <1>2. ASSUME msgs # <<>>, msgs' = Tail(msgs), Pending PROVE Pending' \/ Head(msgs).what = "Connectdevice"
    <2>1. DOMAIN msgs' = 1..Len(Tail(msgs))
      BY <1>0, <1>2, HeadTailProperties, LenProperties
    <2>2. PICK i \in 1..Len(msgs) : msgs[i].what = "Connectdevice"
      BY <1>0, <1>2 DEF Pending
    <2>3. CASE i = 1
      BY <1>0, <1>2, <2>2, <2>3, InTail
    <2>4. CASE i # 1
      <3>1. i - 1 \in 1..Len(Tail(msgs)) /\ msgs[i] = Tail(msgs)[i - 1]
        BY <1>0, <1>2, <2>2, <2>4, InTail
      <3>. QED
        BY <1>2, <2>1, <2>2, <3>1 DEF Pending
    <2>. QED
      BY <2>3, <2>4
  <1>. QED
    BY <1>1, <1>2

LEMMA WantedStays ==
    ASSUME TypeInv, NEW d \in Devices, Wanted(d)
    PROVE  /\ \A t \in Tasks : Post(t) => Wanted(d)'
           /\ queue # <<>> /\ queue' = Tail(queue)
              => Wanted(d)' \/ (Head(queue).op = "Connect" /\ Head(queue).dev = d)
           /\ queue' = [i \in DOMAIN queue |-> [queue[i] EXCEPT !.awaited = FALSE]] => Wanted(d)'
  <1>0. queue \in Seq(Tasks) /\ DOMAIN queue = 1..Len(queue)
    BY LenProperties DEF TypeInv, TypeOK
  <1>1. ASSUME NEW t \in Tasks, Post(t) PROVE Wanted(d)'
    <2>1. CASE ui = "joining"
      BY <1>1, <2>1 DEF Post, Wanted
    <2>2. CASE ui # "joining"
      <3>1. queue' = Append(queue, t) /\ DOMAIN queue' = 1..(Len(queue) + 1)
        BY <1>0, <1>1, <2>2, InAppend, AppendProperties, LenProperties DEF Post
      <3>. QED
        BY <1>0, <3>1, InAppend DEF Wanted
    <2>. QED
      BY <2>1, <2>2
  <1>2. ASSUME queue # <<>>, queue' = Tail(queue)
        PROVE  Wanted(d)' \/ (Head(queue).op = "Connect" /\ Head(queue).dev = d)
    <2>1. DOMAIN queue' = 1..Len(Tail(queue))
      BY <1>0, <1>2, HeadTailProperties, LenProperties
    <2>2. PICK i \in 1..Len(queue) : queue[i].op = "Connect" /\ queue[i].dev = d
      BY <1>0 DEF Wanted
    <2>3. CASE i = 1
      BY <1>0, <1>2, <2>2, <2>3, InTail
    <2>4. CASE i # 1
      <3>1. i - 1 \in 1..Len(Tail(queue)) /\ queue[i] = Tail(queue)[i - 1]
        BY <1>0, <1>2, <2>2, <2>4, InTail
      <3>. QED
        BY <1>2, <2>1, <2>2, <3>1 DEF Wanted
    <2>. QED
      BY <2>3, <2>4
  <1>3. ASSUME queue' = [i \in DOMAIN queue |-> [queue[i] EXCEPT !.awaited = FALSE]] PROVE Wanted(d)'
    <2>1. DOMAIN queue' = DOMAIN queue
      BY <1>3
    <2>. QED
      BY <1>0, <1>3, <2>1, GivenUp DEF Wanted
  <1>. QED
    BY <1>1, <1>2, <1>3

(* The last task is the one just posted. *)
LEMMA WantedNow ==
    ASSUME TypeInv, NEW d \in Devices, Post(Task("Connect", d)), Working
    PROVE  Wanted(d)'
  <1>1. /\ queue \in Seq(Tasks) /\ Task("Connect", d) \in Tasks
        /\ Task("Connect", d).op = "Connect" /\ Task("Connect", d).dev = d
    BY MakeTask DEF Task, TypeInv, TypeOK
  <1>2. queue' = Append(queue, Task("Connect", d)) /\ queue' \in Seq(Tasks)
    BY <1>1, AppendProperties DEF Post, Working
  <1>3. DOMAIN queue' = 1..(Len(queue) + 1) /\ queue'[Len(queue) + 1] = Task("Connect", d)
    BY <1>1, <1>2, InAppend, LenProperties
  <1>. QED
    BY <1>1, <1>3, InAppend DEF Wanted

OwedInv == Working => \A d \in owed : (d \in lastDevices /\ Pending) \/ d \in lookups \/ Wanted(d)

LEMMA OwedStep == ASSUME TypeInv, OwedInv, [Next]_vars PROVE OwedInv'
  <1>. USE DEF table, settings, reporting, choices, exits, histories
  <1>1. CASE \/ TestGate
           \/ \E d \in Devices : Settle(d) \/ Lose(d)
    <2>1. UNCHANGED <<ui, owed, lastDevices, msgs, lookups, queue>>
      BY <1>1 DEF Settle, Free, Dropped, Tell, Leaves, Table!Open, Table!Fail, Table!Drop,
         Table!Move, Lose, TestGate
    <2>. QED
      BY <2>1 DEF OwedInv, Working, Pending, Wanted
  <1>2. CASE Start
    <2>1. /\ msgs' = <<Msg("Connectdevice", "any", "none")>>
          /\ owed' \subseteq lastDevices'
      BY <1>2 DEF Start
    <2>2. Pending'
      BY <2>1 DEF Pending, Msg
    <2>. QED
      BY <2>1, <2>2 DEF OwedInv
  <1>3. CASE Killed
    <2>1. ~Working'
      BY <1>3 DEF Killed, Working, Stopped
    <2>. QED
      BY <2>1 DEF OwedInv
  <1>4. CASE Returns
    <2>1. ~Working'
      BY <1>4 DEF Returns, Working, Stopped
    <2>. QED
      BY <2>1 DEF OwedInv
  <1>5. CASE HandleConnectdevice
    <2>1. UNCHANGED <<ui, queue>> /\ owed' \subseteq owed
      BY <1>5 DEF HandleConnectdevice
    <2>2. owed' = {} \/ lookups' = lookups \cup lastDevices
      BY <1>5 DEF HandleConnectdevice
    <2>. QED
      BY <2>1, <2>2 DEF OwedInv, Working, Wanted
  <1>6. CASE HandleMarshal
    <2>1. /\ msgs # <<>> /\ msgs' = Tail(msgs) /\ Head(msgs).what # "Connectdevice"
          /\ UNCHANGED <<ui, owed, lastDevices, queue, lookups>>
      BY <1>6 DEF HandleMarshal, Take
    <2>. QED
      BY <2>1, PendingStays DEF OwedInv, Working, Wanted
  <1>7. CASE HandleClose
    <2>1. ~Working'
      BY <1>7 DEF HandleClose, Working, Stopped
    <2>. QED
      BY <2>1 DEF OwedInv
  <1>8. CASE IsEmptyAnswered
    <2>1. /\ msgs' = msgs \/ msgs' = Append(msgs, Msg("Close", "any", "none"))
          /\ Working /\ UNCHANGED <<owed, lastDevices, lookups, queue>>
      BY <1>8 DEF IsEmptyAnswered, LeaveOrAsk, PostMessage, Working
    <2>. QED
      BY <2>1, PendingStays, MakeMsg DEF OwedInv, Pending, Wanted
  <1>9. CASE IsEmptyTimesOut
    <2>1. /\ UNCHANGED <<owed, lastDevices, lookups, msgs>> /\ Working
          /\ queue' = [i \in DOMAIN queue |-> [queue[i] EXCEPT !.awaited = FALSE]]
      BY <1>9 DEF IsEmptyTimesOut, GivesUp, LeaveOrAsk, Working
    <2>. QED
      BY <2>1, WantedStays DEF OwedInv, Pending, TypeInv, TypeOK
  <1>10. CASE DeviceIdsAnswered
    <2>1. ~Working'
      BY <1>10 DEF DeviceIdsAnswered, Working, Stopped
    <2>. QED
      BY <2>1 DEF OwedInv
  <1>11. CASE DeviceIdsTimesOut
    <2>1. ~Working'
      BY <1>11 DEF DeviceIdsTimesOut, Working, Stopped
    <2>. QED
      BY <2>1 DEF OwedInv
  <1>12. CASE SaveOpens
    <2>1. ~Working'
      BY <1>12 DEF SaveOpens, Working, Stopped
    <2>. QED
      BY <2>1 DEF OwedInv
  <1>13. CASE SaveFails
    <2>1. ~Working'
      BY <1>13 DEF SaveFails, Working, Stopped, ToClosing
    <2>. QED
      BY <2>1 DEF OwedInv
  <1>14. CASE SaveWrites
    <2>1. ~Working'
      BY <1>14 DEF SaveWrites, Working, Stopped, ToClosing
    <2>. QED
      BY <2>1 DEF OwedInv
  <1>15. CASE CloseAllReturns
    <2>1. ~Working'
      BY <1>15 DEF CloseAllReturns, Working, Stopped
    <2>. QED
      BY <2>1 DEF OwedInv
  <1>16. CASE DetachReturns
    <2>1. ~Working'
      BY <1>16 DEF DetachReturns, Working, Stopped
    <2>. QED
      BY <2>1 DEF OwedInv
  <1>17. ASSUME NEW d \in Devices, ClickDevice(d) PROVE OwedInv'
    <2>1. \E t \in Tasks : Post(t)
      BY <1>17, MakeTask DEF ClickDevice
    <2>2. Working /\ UNCHANGED <<owed, lastDevices, msgs, lookups>>
      BY <1>17 DEF ClickDevice, Click, Working
    <2>. QED
      BY <2>1, <2>2, WantedStays DEF OwedInv, Pending, TypeInv, TypeOK
  <1>18. CASE ClickExit
    <2>1. Post(Task("IsEmpty", "any")) /\ Working /\ UNCHANGED <<owed, lastDevices, msgs, lookups>>
      BY <1>18 DEF ClickExit, Click, Working
    <2>. QED
      BY <2>1, WantedStays, MakeTask DEF OwedInv, Pending, TypeInv, TypeOK
  <1>19. CASE ClickConfirm
    <2>1. /\ msgs' = msgs \/ msgs' = Append(msgs, Msg("Close", "any", "none"))
          /\ Working /\ UNCHANGED <<owed, lastDevices, lookups, queue>>
      BY <1>19 DEF ClickConfirm, Click, PostMessage, Working
    <2>. QED
      BY <2>1, PendingStays, MakeMsg DEF OwedInv, Pending, Wanted
  <1>20. ASSUME NEW d \in Devices, LookupSucceeds(d) PROVE OwedInv'
    <2>1. Post(Task("Connect", d)) /\ lookups' = lookups \ {d} /\ UNCHANGED <<ui, owed, lastDevices, msgs>>
      BY <1>20 DEF LookupSucceeds
    <2>. QED
      BY <2>1, WantedStays, WantedNow, MakeTask DEF OwedInv, Working, Pending, TypeInv, TypeOK
  <1>21. ASSUME NEW d \in Devices, LookupFails(d) PROVE OwedInv'
    <2>1. lookups' = lookups \ {d} /\ owed' = owed \ {d} /\ UNCHANGED <<ui, lastDevices, msgs, queue>>
      BY <1>21 DEF LookupFails
    <2>. QED
      BY <2>1 DEF OwedInv, Working, Pending, Wanted
  <1>22. CASE RunConnect
    <2>1. /\ queue # <<>> /\ queue' = Tail(queue) /\ owed' = owed \ {Head(queue).dev}
          /\ UNCHANGED <<ui, lastDevices, msgs, lookups>>
      BY <1>22 DEF RunConnect, RunNext
    <2>. QED
      BY <2>1, WantedStays DEF OwedInv, Working, Pending, TypeInv, TypeOK
  <1>23. CASE RunDisconnect
    <2>1. /\ queue # <<>> /\ queue' = Tail(queue) /\ Head(queue).op # "Connect"
          /\ UNCHANGED <<ui, owed, lastDevices, msgs, lookups>>
      BY <1>23 DEF RunDisconnect, RunNext
    <2>. QED
      BY <2>1, WantedStays DEF OwedInv, Working, Pending, TypeInv, TypeOK
  <1>24. CASE RunSnapshot
    <2>1. /\ queue # <<>> /\ queue' = Tail(queue) /\ Head(queue).op # "Connect"
          /\ UNCHANGED <<ui, owed, lastDevices, msgs, lookups>>
      BY <1>24 DEF RunSnapshot, RunNext
    <2>. QED
      BY <2>1, WantedStays DEF OwedInv, Working, Pending, TypeInv, TypeOK
  <1>25. CASE RunCloseAll
    <2>1. /\ queue # <<>> /\ queue' = Tail(queue) /\ Head(queue).op # "Connect"
          /\ UNCHANGED <<ui, owed, lastDevices, msgs, lookups>>
      BY <1>25 DEF RunCloseAll, RunNext
    <2>. QED
      BY <2>1, WantedStays DEF OwedInv, Working, Pending, TypeInv, TypeOK
  <1>26. CASE RunDetach
    <2>1. /\ queue # <<>> /\ queue' = Tail(queue) /\ Head(queue).op # "Connect"
          /\ UNCHANGED <<ui, owed, lastDevices, msgs, lookups>>
      BY <1>26 DEF RunDetach, RunNext
    <2>. QED
      BY <2>1, WantedStays DEF OwedInv, Working, Pending, TypeInv, TypeOK
  <1>27. CASE Posts
    <2>. DEFINE m == Msg("Marshal", Head(telling).dev, Head(telling).status)
    <2>1. m \in Messages
      BY <1>27, TellingType DEF Posts, TypeInv, TypeOK
    <2>2. /\ msgs' = Append(msgs, m) \/ msgs' = msgs
          /\ UNCHANGED <<ui, owed, lastDevices, queue, lookups>>
      BY <1>27 DEF Posts
    <2>. HIDE DEF m
    <2>. QED
      BY <2>1, <2>2, PendingStays DEF OwedInv, Working, Pending, Wanted
  <1>28. CASE UNCHANGED vars
    BY <1>28 DEF vars, OwedInv, Working, Pending, Wanted
  <1>stop. CASE Stops
    <2>1. ~Working'
      BY <1>stop DEF Stops, Working
    <2>. QED
      BY <2>1 DEF OwedInv
  <1>outside. CASE CloseFromOutside
    <2>1. /\ msgs' = msgs \/ msgs' = Append(msgs, Msg("Close", "any", "none"))
          /\ Working /\ UNCHANGED <<owed, lastDevices, lookups, queue>>
      BY <1>outside DEF CloseFromOutside, PostMessage
    <2>. QED
      BY <2>1, PendingStays, MakeMsg DEF OwedInv, Pending, Wanted
  <1>. QED
    BY <1>1, <1>2, <1>3, <1>4, <1>5, <1>6, <1>7, <1>8, <1>9, <1>10, <1>11, <1>12, <1>13, <1>14,
       <1>15, <1>16, <1>17, <1>18, <1>19, <1>20, <1>21, <1>22, <1>23, <1>24, <1>25, <1>26,
       <1>27, <1>28, <1>stop
      , <1>outside
       DEF Next, UiStep, HandleMessage, ExitStep, ExecutorStep, RunTask,
       MarshalToUi

(* NobodyForgotten: each device of the loaded list is in the list, in a
   lookup or in the queue until it is tried, however these overlap.        *)
THEOREM NobodyIsForgotten == Safety => []NobodyForgotten
  <1>1. Init => OwedInv
    BY DEF Init, OwedInv, Working
  <1>2. OwedInv => NobodyForgotten
    BY DEF OwedInv, NobodyForgotten, Pending, Wanted
  <1>. QED
    BY <1>1, <1>2, OwedStep, TypeInvariance, PTL DEF Safety

-----------------------------------------------------------------------------
(* The picker.  What is on its way to the window is, per device, the last
   word of a sequence or no word at all.                                   *)
LEMMA WordTail ==
    ASSUME NEW S, NEW s \in Seq(S), s # <<>>, NEW d
    PROVE  /\ Silent(s, d) => Silent(Tail(s), d) /\ Head(s).dev # d
           /\ \A x : LastWord(s, d, x) =>
                 \/ LastWord(Tail(s), d, x)
                 \/ Silent(Tail(s), d) /\ Head(s).dev = d /\ Head(s).status = x
  <1>1. Silent(s, d) => Silent(Tail(s), d) /\ Head(s).dev # d
    BY InTail DEF Silent
  <1>2. ASSUME NEW x, LastWord(s, d, x)
        PROVE  \/ LastWord(Tail(s), d, x)
               \/ Silent(Tail(s), d) /\ Head(s).dev = d /\ Head(s).status = x
    <2>1. PICK i \in 1..Len(s) : /\ s[i].dev = d /\ s[i].status = x
                                 /\ \A j \in (i + 1)..Len(s) : s[j].dev # d
      BY <1>2 DEF LastWord
    <2>2. CASE i = 1
      <3>1. \A j \in 1..Len(Tail(s)) : Tail(s)[j] = s[j + 1] /\ j + 1 \in (i + 1)..Len(s)
        BY <2>2, InTail
      <3>. QED
        BY <2>1, <2>2, <3>1, InTail DEF Silent
    <2>3. CASE i # 1
      <3>1. i - 1 \in 1..Len(Tail(s)) /\ s[i] = Tail(s)[i - 1]
        BY <2>3, InTail
      <3>2. \A j \in ((i - 1) + 1)..Len(Tail(s)) : Tail(s)[j] = s[j + 1] /\ j + 1 \in (i + 1)..Len(s)
        BY <2>3, <3>1, InTail
      <3>. QED
        BY <2>1, <3>1, <3>2 DEF LastWord
    <2>. QED
      BY <2>2, <2>3
  <1>. QED
    BY <1>1, <1>2

LEMMA WordAppend ==
    ASSUME NEW S, NEW s \in Seq(S), NEW m \in S, NEW d
    PROVE  /\ m.dev # d /\ Silent(s, d) => Silent(Append(s, m), d)
           /\ \A x : m.dev # d /\ LastWord(s, d, x) => LastWord(Append(s, m), d, x)
           /\ m.dev = d => LastWord(Append(s, m), d, m.status)
  <1>1. m.dev # d /\ Silent(s, d) => Silent(Append(s, m), d)
    BY InAppend DEF Silent
  <1>2. ASSUME NEW x, m.dev # d, LastWord(s, d, x) PROVE LastWord(Append(s, m), d, x)
    <2>1. PICK i \in 1..Len(s) : /\ s[i].dev = d /\ s[i].status = x
                                 /\ \A j \in (i + 1)..Len(s) : s[j].dev # d
      BY <1>2 DEF LastWord
    <2>2. i \in 1..Len(Append(s, m)) /\ Append(s, m)[i] = s[i]
      BY InAppend
    <2>3. \A j \in (i + 1)..Len(Append(s, m)) : j \in (i + 1)..Len(s) \/ j = Len(s) + 1
      BY InAppend
    <2>4. \A j \in (i + 1)..Len(s) : Append(s, m)[j] = s[j]
      BY InAppend
    <2>5. \A j \in (i + 1)..Len(Append(s, m)) : Append(s, m)[j].dev # d
      BY <1>2, <2>1, <2>3, <2>4, InAppend
    <2>. QED
      BY <2>1, <2>2, <2>5 DEF LastWord
  <1>3. m.dev = d => LastWord(Append(s, m), d, m.status)
    <2>1. /\ Len(s) + 1 \in 1..Len(Append(s, m)) /\ Append(s, m)[Len(s) + 1] = m
          /\ \A j \in ((Len(s) + 1) + 1)..Len(Append(s, m)) : FALSE
      BY InAppend
    <2>. QED
      BY <2>1 DEF LastWord
  <1>. QED
    BY <1>1, <1>2, <1>3

LEMMA NoWord == \A d : Silent(<<>>, d) /\ \A x : ~LastWord(<<>>, d, x)
  BY DEF Silent, LastWord

LEMMA OneWord ==
    ASSUME NEW d, NEW x, NEW s, s = <<Report(d, x)>> \/ s = <<Report(d, "connecting"), Report(d, x)>>
    PROVE  LastWord(s, d, x) /\ \A e : e # d => Silent(s, e)
  <1>1. CASE s = <<Report(d, x)>>
    <2>1. Len(s) = 1 /\ s[1].dev = d /\ s[1].status = x /\ 1..Len(s) = {1} /\ 2..Len(s) = {}
      BY <1>1 DEF Report
    <2>. QED
      BY <2>1 DEF LastWord, Silent
  <1>2. CASE s = <<Report(d, "connecting"), Report(d, x)>>
    <2>1. Len(s) = 2 /\ s[1].dev = d /\ s[2].dev = d /\ s[2].status = x
      BY <1>2 DEF Report
    <2>2. 1..Len(s) = {1, 2} /\ 3..Len(s) = {} /\ 2 + 1 = 3
      BY <2>1
    <2>. QED
      BY <2>1, <2>2 DEF LastWord, Silent
  <1>. QED
    BY <1>1, <1>2

(* One device of the picker. *)
Shows(d) ==
    \/ LastWord(telling, d, shown[d])
    \/ /\ Silent(telling, d)
       /\ \/ LastWord(msgs, d, shown[d])
          \/ Silent(msgs, d) /\ display[d] = shown[d]
Telling == \A d \in Devices : Silent(telling, d) \/ LastWord(telling, d, shown[d])
OffInv == ui = "off" => telling = <<>> /\ display = shown
PickInv == OffInv /\ Telling /\ (Working => \A d \in Devices \ missed : Shows(d))

(* A task has something to tell: the executor had told all before. *)
LEMMA SomethingTold ==
    ASSUME PickInv, TypeInv, telling = <<>>, NEW d \in Devices, NEW x,
           shown' = [shown EXCEPT ![d] = x],
           telling' = <<Report(d, x)>> \/ telling' = <<Report(d, "connecting"), Report(d, x)>>,
           Alive, UNCHANGED <<ui, msgs, display, missed>>
    PROVE  PickInv'
  <1>1. LastWord(telling', d, x) /\ \A e : e # d => Silent(telling', e)
    BY OneWord
  <1>2. shown'[d] = x /\ \A e \in Devices : e # d => shown'[e] = shown[e]
    BY DEF TypeInv, TypeOK
  <1>3. Telling'
    BY <1>1, <1>2 DEF Telling
  <1>4. ASSUME Working, NEW e \in Devices \ missed PROVE Shows(e)'
    <2>1. CASE e = d
      BY <1>1, <1>2, <2>1 DEF Shows
    <2>2. CASE e # d
      BY <1>1, <1>2, <1>4, <2>2, NoWord DEF Shows, PickInv
    <2>. QED
      BY <2>1, <2>2
  <1>. QED
    BY <1>3, <1>4 DEF PickInv, OffInv, Alive, Working

(* The window's queue loses its head, which tells of no device, or gains
   a message which tells of none.                                          *)
LEMMA NothingTaken ==
    ASSUME PickInv, TypeInv, msgs # <<>>, msgs' = Tail(msgs), Head(msgs).dev \notin Devices,
           UNCHANGED <<ui, shown, telling, display, missed>>
    PROVE  PickInv'
  <1>1. ASSUME Working, NEW d \in Devices \ missed PROVE Shows(d)'
    <2>1. Shows(d)
      BY <1>1 DEF PickInv
    <2>2. /\ Silent(msgs, d) => Silent(msgs', d)
          /\ LastWord(msgs, d, shown[d]) => LastWord(msgs', d, shown[d])
      <3>1. msgs \in Seq(Messages) /\ Head(msgs).dev # d
        BY DEF TypeInv, TypeOK
      <3>2. Silent(msgs, d) => Silent(Tail(msgs), d)
        BY <3>1, WordTail
      <3>3. LastWord(msgs, d, shown[d]) => LastWord(Tail(msgs), d, shown[d])
        BY <3>1, WordTail
      <3>. QED
        BY <3>2, <3>3
    <2>. QED
      BY <2>1, <2>2 DEF Shows
  <1>. QED
    BY <1>1 DEF PickInv, OffInv, Telling, Working

LEMMA NothingPosted ==
    ASSUME PickInv, TypeInv, NEW m \in Messages, m.dev \notin Devices,
           msgs' = msgs \/ msgs' = Append(msgs, m), Working, Working',
           UNCHANGED <<shown, telling, display, missed>>
    PROVE  PickInv'
  <1>1. ASSUME NEW d \in Devices \ missed PROVE Shows(d)'
    <2>1. Shows(d)
      BY <1>1 DEF PickInv
    <2>2. /\ Silent(msgs, d) => Silent(msgs', d)
          /\ LastWord(msgs, d, shown[d]) => LastWord(msgs', d, shown[d])
      <3>1. m.dev # d /\ msgs \in Seq(Messages)
        BY <1>1 DEF TypeInv, TypeOK
      <3>2. /\ Silent(msgs, d) => Silent(Append(msgs, m), d)
            /\ LastWord(msgs, d, shown[d]) => LastWord(Append(msgs, m), d, shown[d])
        BY <3>1, WordAppend
      <3>. QED
        BY <3>2
    <2>. QED
      BY <2>1, <2>2 DEF Shows
  <1>. QED
    BY <1>1 DEF PickInv, OffInv, Telling, Working

(* Past the gate the picker is of no importance. *)
LEMMA NotWorking ==
    ASSUME PickInv, Alive', ~Working', UNCHANGED <<shown, telling>>
    PROVE  PickInv'
  BY DEF PickInv, OffInv, Telling, Alive

LEMMA OfNoDevice ==
    \A what \in {"Connectdevice", "Close"} :
        Msg(what, "any", "none") \in Messages /\ Msg(what, "any", "none").dev \notin Devices
  BY DevicesAssumption, MakeMsg DEF Msg

LEMMA PickStep == ASSUME TypeInv, GateInv, PickInv, [Next]_vars PROVE PickInv'
  <1>. USE DEF table, settings, reporting, choices, exits, histories
  <1>1. CASE \/ RunSnapshot \/ RunDetach
           \/ \E d \in Devices : ClickDevice(d) \/ LookupSucceeds(d) \/ LookupFails(d)
    <2>1. UNCHANGED <<shown, display, telling, msgs, missed, ui>>
      BY <1>1 DEF ClickDevice, Click, Post, LookupSucceeds, LookupFails, RunSnapshot, RunNext,
         Free, RunDetach, Table!Detach, Table!Emptied
    <2>. QED
      BY <2>1 DEF PickInv, OffInv, Telling, Working, Shows
  <1>2. CASE Start
    <2>. DEFINE m == Msg("Connectdevice", "any", "none")
    <2>1. /\ msgs' = <<m>> /\ telling' = <<>> /\ display' = shown' /\ ui' = "loop"
      BY <1>2 DEF Start, PickInv, OffInv
    <2>2. \A e \in Devices : m.dev # e
      BY OfNoDevice
    <2>. HIDE DEF m
    <2>3. Len(msgs') = 1 /\ msgs'[1] = m /\ 1..Len(msgs') = {1}
      BY <2>1
    <2>4. \A e \in Devices : Silent(msgs', e)
      BY <2>2, <2>3 DEF Silent
    <2>. QED
      BY <2>1, <2>4, NoWord DEF PickInv, OffInv, Telling, Shows
  <1>3. CASE Killed
    <2>1. ui' = "off" /\ telling' = <<>> /\ display' = shown'
      BY <1>3 DEF Killed, Stopped
    <2>. QED
      BY <2>1, NoWord DEF PickInv, OffInv, Telling, Working
  <1>4. CASE Returns
    <2>1. ui' = "off" /\ telling' = <<>> /\ display' = shown'
      BY <1>4 DEF Returns, Stopped
    <2>. QED
      BY <2>1, NoWord DEF PickInv, OffInv, Telling, Working
  <1>5. CASE HandleConnectdevice
    <2>1. /\ msgs # <<>> /\ msgs' = Tail(msgs) /\ Head(msgs).what = "Connectdevice"
          /\ UNCHANGED <<ui, shown, telling, display, missed>>
      BY <1>5 DEF HandleConnectdevice, Take
    <2>2. Head(msgs).dev \notin Devices
      <3>1. Head(msgs) \in Messages
        BY <2>1, Sequence DEF TypeInv, TypeOK
      <3>. QED
        BY <2>1, <3>1, DevicesAssumption DEF Messages
    <2>. QED
      BY <2>1, <2>2, NothingTaken
  <1>6. CASE HandleMarshal
    <2>. DEFINE h == Head(msgs)
    <2>1. /\ msgs # <<>> /\ msgs' = Tail(msgs) /\ display' = [display EXCEPT ![h.dev] = h.status]
          /\ Working /\ UNCHANGED <<ui, shown, telling, missed>>
      BY <1>6 DEF HandleMarshal, Take, Working
    <2>2. ASSUME NEW d \in Devices \ missed PROVE Shows(d)'
      <3>1. Shows(d)
        BY <2>1, <2>2 DEF PickInv
      <3>2. display'[d] = IF h.dev = d THEN h.status ELSE display[d]
        BY <2>1, <2>2 DEF TypeInv, TypeOK
      <3>3. /\ Silent(msgs, d) => Silent(msgs', d) /\ h.dev # d
            /\ LastWord(msgs, d, shown[d]) =>
                  \/ LastWord(msgs', d, shown[d])
                  \/ Silent(msgs', d) /\ h.dev = d /\ h.status = shown[d]
        BY <2>1, WordTail DEF TypeInv, TypeOK
      <3>. HIDE DEF h
      <3>. QED
        BY <2>1, <3>1, <3>2, <3>3 DEF Shows
    <2>. QED
      BY <2>1, <2>2 DEF PickInv, OffInv, Telling, Working
  <1>7. CASE HandleClose
    <2>1. Alive' /\ ~Working' /\ UNCHANGED <<shown, telling>>
      BY <1>7 DEF HandleClose, Alive, Working
    <2>. QED
      BY <2>1, NotWorking
  <1>8. CASE IsEmptyAnswered
    <2>1. /\ msgs' = msgs \/ msgs' = Append(msgs, Msg("Close", "any", "none"))
          /\ Working /\ Working' /\ UNCHANGED <<shown, telling, display, missed>>
      BY <1>8 DEF IsEmptyAnswered, LeaveOrAsk, PostMessage, Working
    <2>. QED
      BY <2>1, NothingPosted, OfNoDevice
  <1>9. CASE IsEmptyTimesOut
    <2>1. /\ msgs' = msgs \/ msgs' = Append(msgs, Msg("Close", "any", "none"))
          /\ Working /\ Working' /\ UNCHANGED <<shown, telling, display, missed>>
      BY <1>9 DEF IsEmptyTimesOut, GivesUp, LeaveOrAsk, PostMessage, Working
    <2>. QED
      BY <2>1, NothingPosted, OfNoDevice
  <1>10. CASE DeviceIdsAnswered
    <2>1. Alive' /\ ~Working' /\ UNCHANGED <<shown, telling>>
      BY <1>10 DEF DeviceIdsAnswered, Alive, Working
    <2>. QED
      BY <2>1, NotWorking
  <1>11. CASE DeviceIdsTimesOut
    <2>1. Alive' /\ ~Working' /\ UNCHANGED <<shown, telling>>
      BY <1>11 DEF DeviceIdsTimesOut, Alive, Working
    <2>. QED
      BY <2>1, NotWorking
  <1>12. CASE SaveOpens
    <2>1. Alive' /\ ~Working' /\ UNCHANGED <<shown, telling>>
      BY <1>12 DEF SaveOpens, Alive, Working
    <2>. QED
      BY <2>1, NotWorking
  <1>13. CASE SaveFails
    <2>1. Alive' /\ ~Working' /\ UNCHANGED <<shown, telling>>
      BY <1>13 DEF SaveFails, Alive, Working, ToClosing
    <2>. QED
      BY <2>1, NotWorking
  <1>14. CASE SaveWrites
    <2>1. Alive' /\ ~Working' /\ UNCHANGED <<shown, telling>>
      BY <1>14 DEF SaveWrites, Alive, Working, ToClosing
    <2>. QED
      BY <2>1, NotWorking
  <1>15. CASE CloseAllReturns
    <2>1. Alive' /\ ~Working' /\ UNCHANGED <<shown, telling>>
      BY <1>15 DEF CloseAllReturns, Alive, Working
    <2>. QED
      BY <2>1, NotWorking
  <1>16. CASE DetachReturns
    <2>1. Alive' /\ ~Working' /\ UNCHANGED <<shown, telling>>
      BY <1>16 DEF DetachReturns, Alive, Working
    <2>. QED
      BY <2>1, NotWorking
  <1>17. CASE ClickExit
    <2>1. Working /\ Working' /\ UNCHANGED <<shown, telling, display, missed, msgs>>
      BY <1>17 DEF ClickExit, Click, Working
    <2>. QED
      BY <2>1 DEF PickInv, OffInv, Telling, Working, Shows
  <1>18. CASE ClickConfirm
    <2>1. /\ msgs' = msgs \/ msgs' = Append(msgs, Msg("Close", "any", "none"))
          /\ Working /\ Working' /\ UNCHANGED <<shown, telling, display, missed>>
      BY <1>18 DEF ClickConfirm, Click, PostMessage, Working
    <2>. QED
      BY <2>1, NothingPosted, OfNoDevice
  <1>19. CASE RunConnect
    <2>. DEFINE dv == Head(queue).dev
    <2>1. /\ \/ shown' = [shown EXCEPT ![dv] = "failed"] /\ telling' = <<Report(dv, "connecting"), Report(dv, "failed")>>
             \/ shown' = [shown EXCEPT ![dv] = "connecting"] /\ telling' = <<Report(dv, "connecting")>>
          /\ RunNext("Connect") /\ UNCHANGED <<ui, msgs, display, missed>>
      BY <1>19 DEF RunConnect, Tell, Table!Refuse, Table!Fail, Table!Begin, Table!Move
    <2>2. dv \in Devices /\ telling = <<>> /\ Alive
      BY <2>1, QueueType DEF RunNext, Free, TypeInv, TypeOK
    <2>. HIDE DEF dv
    <2>. QED
      BY <2>1, <2>2, SomethingTold
  <1>20. CASE RunDisconnect
    <2>. DEFINE dv == Head(queue).dev
    <2>1. /\ shown' = [shown EXCEPT ![dv] = "closed"] /\ telling' = <<Report(dv, "closed")>>
          /\ RunNext("Disconnect") /\ UNCHANGED <<ui, msgs, display, missed>>
      BY <1>20 DEF RunDisconnect, Dropped, Tell, Table!Drop, Table!Move
    <2>2. dv \in Devices /\ telling = <<>> /\ Alive
      BY <2>1, QueueType DEF RunNext, Free, TypeInv, TypeOK
    <2>. HIDE DEF dv
    <2>. QED
      BY <2>1, <2>2, SomethingTold
  <1>21. CASE RunCloseAll
    <2>. DEFINE here == {d \in Devices : tracked[d] # "none"}
    <2>1. /\ g_exiting /\ UNCHANGED ui
          /\ shown' = [d \in Devices |-> IF tracked[d] = "none" THEN shown[d] ELSE "closed"]
      BY <1>21 DEF RunCloseAll, Table!CloseAll
    <2>2. PICK r \in SetToSeqs({Report(d, "closed") : d \in here}) : telling' = r
      BY <1>21 DEF RunCloseAll, Tell
    <2>3. /\ r \in Seq(Reports)
          /\ \A i \in 1..Len(r) : r[i].dev \in here /\ r[i].status = "closed"
          /\ \A i, j \in 1..Len(r) : i # j => r[i].dev # r[j].dev
      BY ClosedReports
    <2>4. ASSUME NEW d \in Devices, ~Silent(r, d) PROVE LastWord(r, d, shown'[d])
      <3>1. PICK i \in 1..Len(r) : r[i].dev = d
        BY <2>4 DEF Silent
      <3>2. r[i].status = "closed" /\ shown'[d] = "closed"
        BY <2>1, <2>3, <3>1
      <3>3. \A j \in (i + 1)..Len(r) : j \in 1..Len(r) /\ j # i
        BY <2>3, <3>1, Sequence
      <3>4. \A j \in (i + 1)..Len(r) : r[j].dev # d
        BY <2>3, <3>1, <3>3
      <3>. QED
        BY <3>1, <3>2, <3>4 DEF LastWord
    <2>5. ui \notin {"off", "loop", "isEmpty"}
      BY <2>1 DEF GateInv
    <2>. QED
      BY <2>1, <2>2, <2>4, <2>5 DEF PickInv, OffInv, Telling, Working
  <1>22. ASSUME NEW d \in Devices, Settle(d) PROVE PickInv'
    <2>1. /\ telling = <<>> /\ Alive /\ UNCHANGED <<ui, msgs, display, missed>>
          /\ \E x \in {"connected", "failed", "closed"} :
                shown' = [shown EXCEPT ![d] = x] /\ telling' = <<Report(d, x)>>
      BY <1>22 DEF Settle, Free, Dropped, Tell, Table!Open, Table!Fail, Table!Drop, Table!Move
    <2>. QED
      BY <2>1, <1>22, SomethingTold
  <1>23. ASSUME NEW d \in Devices, Lose(d) PROVE PickInv'
    <2>1. /\ telling = <<>> /\ Alive /\ UNCHANGED <<ui, msgs, display, missed>>
          /\ shown' = [shown EXCEPT ![d] = "closed"] /\ telling' = <<Report(d, "closed")>>
      BY <1>23 DEF Lose, Free, Dropped, Tell, Table!Drop, Table!Move
    <2>. QED
      BY <2>1, <1>23, SomethingTold
  <1>24. CASE TestGate
    <2>1. UNCHANGED <<ui, shown, display, msgs, missed>> /\ telling # <<>>
      BY <1>24 DEF TestGate
    <2>2. CASE telling' = telling
      BY <2>1, <2>2 DEF PickInv, OffInv, Telling, Working, Shows
    <2>3. CASE g_exiting /\ telling' = Tail(telling)
      <3>1. ui \notin {"off", "loop", "isEmpty"}
        BY <2>3 DEF GateInv
      <3>2. Telling'
        BY <2>1, <2>3, WordTail DEF PickInv, Telling, TypeInv, TypeOK
      <3>. QED
        BY <2>1, <3>1, <3>2 DEF PickInv, OffInv, Working
    <2>. QED
      BY <1>24, <2>2, <2>3 DEF TestGate
  <1>25. CASE Posts
    <2>. DEFINE r == Head(telling)
                m == Msg("Marshal", r.dev, r.status)
    <2>1. /\ telling # <<>> /\ telling' = Tail(telling) /\ UNCHANGED <<ui, shown, display>>
          /\ \/ msgs' = Append(msgs, m) /\ missed' = missed \ {r.dev}
             \/ msgs' = msgs /\ missed' = missed \cup {r.dev}
      BY <1>25 DEF Posts, TypeInv
    <2>2. m \in Messages /\ m.dev = r.dev /\ m.status = r.status
      BY <2>1, TellingType DEF Msg, TypeInv, TypeOK
    <2>3. \A d \in Devices : /\ Silent(telling, d) => Silent(telling', d) /\ r.dev # d
                             /\ LastWord(telling, d, shown[d]) =>
                                   \/ LastWord(telling', d, shown[d])
                                   \/ Silent(telling', d) /\ r.dev = d /\ r.status = shown[d]
      BY <2>1, WordTail DEF TypeInv, TypeOK
    <2>. HIDE DEF r, m
    <2>4. Telling'
      BY <2>1, <2>3 DEF PickInv, Telling
    <2>5. ASSUME Working, NEW d \in Devices \ missed' PROVE Shows(d)'
      <3>1. CASE d = r.dev
        <4>1. msgs' = Append(msgs, m)
          BY <2>1, <2>5, <3>1
        <4>2. LastWord(msgs', d, r.status)
          BY <2>2, <3>1, <4>1, WordAppend DEF TypeInv, TypeOK
        <4>3. LastWord(telling, d, shown[d])
          BY <2>3, <3>1 DEF PickInv, Telling
        <4>. QED
          BY <2>1, <2>3, <4>2, <4>3 DEF Shows
      <3>2. CASE d # r.dev
        <4>1. Shows(d)
          BY <2>1, <2>5, <3>2 DEF PickInv
        <4>2. /\ Silent(msgs, d) => Silent(msgs', d)
              /\ LastWord(msgs, d, shown[d]) => LastWord(msgs', d, shown[d])
          <5>1. m.dev # d /\ msgs \in Seq(Messages)
            BY <2>2, <3>2 DEF TypeInv, TypeOK
          <5>2. /\ Silent(msgs, d) => Silent(Append(msgs, m), d)
                /\ LastWord(msgs, d, shown[d]) => LastWord(Append(msgs, m), d, shown[d])
            BY <2>2, <5>1, WordAppend
          <5>. QED
            BY <2>1, <5>2
        <4>. QED
          BY <2>1, <2>3, <3>2, <4>1, <4>2 DEF Shows
      <3>. QED
        BY <3>1, <3>2
    <2>6. ui # "off"
      BY <2>1 DEF PickInv, OffInv
    <2>. QED
      BY <2>1, <2>4, <2>5, <2>6 DEF PickInv, OffInv, Working
  <1>26. CASE UNCHANGED vars
    BY <1>26 DEF vars, PickInv, OffInv, Telling, Working, Shows
  <1>stop. CASE Stops
    <2>1. Alive' /\ ~Working' /\ UNCHANGED <<shown, telling>>
      BY <1>stop DEF Stops, Alive, Working
    <2>. QED
      BY <2>1, NotWorking
  <1>outside. CASE CloseFromOutside
    <2>1. /\ msgs' = msgs \/ msgs' = Append(msgs, Msg("Close", "any", "none"))
          /\ Working /\ Working' /\ UNCHANGED <<shown, telling, display, missed>>
      BY <1>outside DEF CloseFromOutside, PostMessage, Working
    <2>. QED
      BY <2>1, NothingPosted, OfNoDevice
  <1>. QED
    BY <1>1, <1>2, <1>3, <1>4, <1>5, <1>6, <1>7, <1>8, <1>9, <1>10, <1>11, <1>12, <1>13, <1>14,
       <1>15, <1>16, <1>17, <1>18, <1>19, <1>20, <1>21, <1>22, <1>23, <1>24, <1>25, <1>26, <1>stop
      , <1>outside
       DEF Next, UiStep, HandleMessage, ExitStep, ExecutorStep, RunTask,
       MarshalToUi

(* PickerCatchesUp: whatever the interleaving of the executor's reports,
   the window's queue and its handler, the last word on a device is the
   manager's last report of it, unless it was lost to a full queue.        *)
THEOREM PickerIsRight == Safety => []PickerCatchesUp
  <1>1. Init => PickInv
    BY NoWord DEF Init, PickInv, OffInv, Telling, Working
  <1>2. PickInv => PickerCatchesUp
    BY DEF PickInv, Shows, PickerCatchesUp
  <1>. QED
    BY <1>1, <1>2, PickStep, GateInvariance, TypeInvariance, PTL DEF Safety
=============================================================================
