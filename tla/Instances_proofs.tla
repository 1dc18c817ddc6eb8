-------------------------- MODULE Instances_proofs --------------------------
(***************************************************************************)
(* Theorems about Instances and its Log for any number of processes, any   *)
(* size of the file and any length of a line, with their proofs.           *)
(***************************************************************************)
EXTENDS Instances, TLAPS

-----------------------------------------------------------------------------
(* The inductive invariant of the log: one process at most has the file,
   and it does not rotate.                                                 *)
OneWriter == \A p, q \in Processes : log[p].open /\ log[q].open => p = q
ClosedToRotate == \A p \in Processes : writing[p].step # "idle" => ~log[p].open
LogInv == LogTypeOK /\ OneWriter /\ ClosedToRotate /\ CountIsSize

Writings == [step: Steps, size: Nat]
DiskFiles == [exists: BOOLEAN, size: Nat]

(* What LimitKept says of a step. *)
Excused(p) ==
    /\ ~HeldByOthers(p)
    /\ log[p].rotationDisabled \/ log'[p].blind \/ writing[p].step = "reopen"
Outgrown == file'.size > file.size /\ file'.size > kMaxFileBytes

(* The invariant survives a step that changes one log, and the file only
   if no other process has it open.                                        *)
LEMMA OneLogChanges ==
    ASSUME LogInv,
           NEW p \in Processes, NEW l \in Logs, NEW w \in Writings,
           log' = [log EXCEPT ![p] = l], writing' = [writing EXCEPT ![p] = w],
           file' \in DiskFiles,
           l.open => ~HeldByOthers(p),
           file'.size # file.size => ~HeldByOthers(p),
           l.open /\ ~l.blind => l.bytes = file'.size,
           w.step # "idle" => ~l.open
    PROVE  LogInv'
  <1>1. LogTypeOK'
    BY DEF LogInv, LogTypeOK, Writings, DiskFiles
  <1>2. /\ log'[p] = l /\ writing'[p] = w
        /\ \A q \in Processes \ {p} : log'[q] = log[q] /\ writing'[q] = writing[q]
    BY DEF LogInv, LogTypeOK
  <1>3. OneWriter'
    BY <1>2 DEF LogInv, OneWriter, HeldByOthers
  <1>4. ClosedToRotate'
    BY <1>2 DEF LogInv, ClosedToRotate
  <1>5. CountIsSize'
    <2>. SUFFICES ASSUME NEW q \in Processes, log'[q].open, ~log'[q].blind
                  PROVE  log'[q].bytes = file'.size
      BY DEF CountIsSize
    <2>1. CASE q = p
      BY <1>2, <2>1
    <2>2. CASE q # p
      <3>1. log[q].open /\ HeldByOthers(p) /\ log[q].bytes = file.size
        BY <1>2, <2>2 DEF LogInv, CountIsSize, HeldByOthers
      <3>. QED
        BY <3>1, <1>2, <2>2
    <2>. QED
      BY <2>1, <2>2
  <1>. QED
    BY <1>1, <1>3, <1>4, <1>5 DEF LogInv

(* What OpenLocked makes of a closed log. *)
LEMMA WhatOpenLockedGives ==
    ASSUME LogInv, NEW p \in Processes, NEW l0 \in Logs, NEW l \in OpenLocked(p, l0)
    PROVE  /\ l \in Logs
           /\ l.rotationDisabled = l0.rotationDisabled
           /\ l.open => ~HeldByOthers(p)
           /\ l.open /\ ~l.blind => l.bytes = file.size
  <1>1. file.size \in Nat
    BY DEF LogInv, LogTypeOK
  <1>2. CASE l = [l0 EXCEPT !.open = FALSE, !.blind = FALSE]
    BY <1>2 DEF Logs
  <1>3. CASE l = [l0 EXCEPT !.open = TRUE, !.bytes = file.size, !.blind = FALSE] /\ ~HeldByOthers(p)
    BY <1>1, <1>3 DEF Logs
  <1>4. CASE l = [l0 EXCEPT !.open = TRUE, !.bytes = 0, !.blind = TRUE] /\ ~HeldByOthers(p)
    BY <1>4 DEF Logs
  <1>. QED
    BY <1>2, <1>3, <1>4 DEF OpenLocked

(* The log with which Write goes on. *)
LEMMA WhatOpenedGives ==
    ASSUME LogInv, NEW p \in Processes, NEW l \in Opened(p)
    PROVE  /\ l \in Logs
           /\ l.rotationDisabled = log[p].rotationDisabled
           /\ l.open => ~HeldByOthers(p)
           /\ l.open /\ ~l.blind => l.bytes = file.size
  <1>1. log[p] \in Logs
    BY DEF LogInv, LogTypeOK
  <1>2. CASE log[p].open
    <2>1. l = log[p]
      BY <1>2 DEF Opened
    <2>. QED
      BY <1>1, <1>2, <2>1 DEF LogInv, OneWriter, HeldByOthers, CountIsSize
  <1>3. CASE ~log[p].open
    BY <1>1, <1>3, WhatOpenLockedGives DEF Opened
  <1>. QED
    BY <1>2, <1>3

(* WriteFile writes to a log that is open, and counts what it writes. *)
LEMMA WhatWriteFileDoes ==
    ASSUME LogInv, NEW p \in Processes, NEW l \in Logs, NEW n \in Nat,
           l.open, ~HeldByOthers(p), ~l.blind => l.bytes = file.size,
           WriteFile(p, l, n)
    PROVE  /\ file' \in DiskFiles
           /\ file'.size <= file.size + n
           /\ \E m \in Logs :
                 /\ log' = [log EXCEPT ![p] = m]
                 /\ m.open /\ ~m.blind => m.bytes = file'.size
                 /\ m.blind = l.blind
  <1>0. file \in DiskFiles
    BY DEF LogInv, LogTypeOK, DiskFiles
  <1>1. CASE /\ file' = [exists |-> TRUE, size |-> file.size + n]
             /\ log' = [log EXCEPT ![p] = [l EXCEPT !.bytes = @ + n]]
    <2>. DEFINE m == [l EXCEPT !.bytes = @ + n]
    <2>1. m \in Logs /\ m.blind = l.blind /\ m.bytes = l.bytes + n
      BY DEF Logs
    <2>2. log' = [log EXCEPT ![p] = m] /\ file'.size = file.size + n /\ file' \in DiskFiles
      BY <1>0, <1>1 DEF DiskFiles
    <2>3. file.size + n <= file.size + n
      BY <1>0 DEF DiskFiles
    <2>. HIDE DEF m
    <2>. QED
      BY <2>1, <2>2, <2>3
  <1>2. ASSUME NEW k \in 0..(n - 1),
               file' = [exists |-> TRUE, size |-> file.size + k],
               log' = [log EXCEPT ![p] = [CloseLocked(l) EXCEPT !.blind = l.blind]]
        PROVE  /\ file' \in DiskFiles
               /\ file'.size <= file.size + n
               /\ \E m \in Logs :
                     /\ log' = [log EXCEPT ![p] = m]
                     /\ m.open /\ ~m.blind => m.bytes = file'.size
                     /\ m.blind = l.blind
    <2>. DEFINE m == [CloseLocked(l) EXCEPT !.blind = l.blind]
    <2>1. m \in Logs /\ m.blind = l.blind /\ ~m.open
      BY DEF Logs, CloseLocked
    <2>2. k \in Nat /\ k <= n
      OBVIOUS
    <2>3. file'.size <= file.size + n /\ file' \in DiskFiles
      BY <1>0, <1>2, <2>2 DEF DiskFiles
    <2>4. log' = [log EXCEPT ![p] = m]
      BY <1>2
    <2>. HIDE DEF m
    <2>. QED
      BY <2>1, <2>3, <2>4
  <1>. QED
    BY <1>1, <1>2 DEF WriteFile

(* A log that is not touched stays as it is. *)
LEMMA SameLog ==
    ASSUME LogInv, NEW p \in Processes
    PROVE  /\ log[p] \in Logs /\ writing[p] \in Writings /\ file \in DiskFiles
           /\ log = [log EXCEPT ![p] = log[p]]
           /\ writing = [writing EXCEPT ![p] = writing[p]]
           /\ Idle \in Writings /\ Idle.step = "idle"
  BY DEF LogInv, LogTypeOK, Writings, DiskFiles, Idle, Steps

LEMMA TouchedKeepsSize ==
    ASSUME file \in DiskFiles, NEW l \in Logs
    PROVE  Touched(l) \in DiskFiles /\ Touched(l).size = file.size
  BY DEF DiskFiles, Logs, Touched

-----------------------------------------------------------------------------
(* One lemma for each operation of the log: it keeps the invariant, and an
   operation that lets the file outgrow its limit is excused.              *)
LEMMA SetLogFileStep ==
    ASSUME LogInv, NEW p \in Processes, SetLogFile(p)
    PROVE  LogInv' /\ file'.size = file.size
  <1>. DEFINE l0 == [CloseLocked(log[p]) EXCEPT !.rotationDisabled = FALSE]
  <1>1. l0 \in Logs
    BY SameLog DEF Logs, CloseLocked
  <1>2. PICK l \in OpenLocked(p, l0) : log' = [log EXCEPT ![p] = l] /\ file' = Touched(l)
    BY DEF SetLogFile
  <1>3. /\ l \in Logs /\ (l.open => ~HeldByOthers(p))
        /\ l.open /\ ~l.blind => l.bytes = file.size
    <2>. HIDE DEF l0
    <2>. QED
      BY <1>1, WhatOpenLockedGives
  <1>4. file' \in DiskFiles /\ file'.size = file.size
    BY <1>2, <1>3, SameLog, TouchedKeepsSize
  <1>5. writing[p] = Idle /\ writing' = [writing EXCEPT ![p] = Idle]
    BY SameLog DEF SetLogFile
  <1>. QED
    BY <1>2, <1>3, <1>4, <1>5, SameLog, OneLogChanges

LEMMA WriteFailsStep ==
    ASSUME LogInv, NEW p \in Processes, WriteFails(p)
    PROVE  LogInv' /\ file'.size = file.size
  <1>1. PICK l \in Opened(p) : log' = [log EXCEPT ![p] = l] /\ file' = Touched(l)
    BY DEF WriteFails
  <1>2. /\ l \in Logs /\ (l.open => ~HeldByOthers(p))
        /\ l.open /\ ~l.blind => l.bytes = file.size
    BY WhatOpenedGives
  <1>3. writing[p] = Idle /\ writing' = [writing EXCEPT ![p] = Idle]
    BY SameLog DEF WriteFails
  <1>4. file' \in DiskFiles /\ file'.size = file.size
    BY <1>1, <1>2, SameLog, TouchedKeepsSize
  <1>. QED
    BY <1>1, <1>2, <1>3, <1>4, SameLog, OneLogChanges

(* The heart of LimitKept: a log that is not blind knows the size, so that
   IsFull is the truth about the file.                                     *)
LEMMA WriteAppendsStep ==
    ASSUME LogInv, NEW p \in Processes, NEW n \in 1..MaxLine, WriteAppends(p, n)
    PROVE  LogInv' /\ (Outgrown => Excused(p))
  <1>1. PICK l \in Opened(p) : l.open /\ ~IsFull(l, n) /\ WriteFile(p, l, n)
    BY DEF WriteAppends
  <1>2. /\ l \in Logs /\ l.rotationDisabled = log[p].rotationDisabled /\ ~HeldByOthers(p)
        /\ ~l.blind => l.bytes = file.size
    BY <1>1, WhatOpenedGives
  <1>3. n \in Nat /\ n <= kMaxFileBytes /\ kMaxFileBytes \in Nat
    BY SizesAssumption
  <1>4. /\ file' \in DiskFiles /\ file'.size <= file.size + n
        /\ \E m \in Logs : /\ log' = [log EXCEPT ![p] = m]
                           /\ m.open /\ ~m.blind => m.bytes = file'.size
                           /\ m.blind = l.blind
    BY <1>1, <1>2, <1>3, WhatWriteFileDoes
  <1>5. PICK m \in Logs : /\ log' = [log EXCEPT ![p] = m]
                          /\ m.open /\ ~m.blind => m.bytes = file'.size
                          /\ m.blind = l.blind
    BY <1>4
  <1>6. writing[p] = Idle /\ writing' = [writing EXCEPT ![p] = Idle]
    BY SameLog DEF WriteAppends
  <1>7. LogInv'
    BY <1>2, <1>4, <1>5, <1>6, SameLog, OneLogChanges
  <1>8. ASSUME Outgrown, ~l.rotationDisabled PROVE l.blind
    <2>1. SUFFICES ASSUME ~l.blind PROVE FALSE
      BY <1>2 DEF Logs
    <2>2. l.bytes = file.size /\ file.size \in Nat /\ file'.size \in Nat
      BY <1>2, <1>4, <2>1, SameLog DEF DiskFiles
    <2>. QED
      BY <1>1, <1>3, <1>4, <1>8, <2>2 DEF Outgrown, IsFull
  <1>9. log'[p].blind = l.blind
    BY <1>5, SameLog DEF LogInv, LogTypeOK
  <1>. QED
    BY <1>2, <1>7, <1>8, <1>9 DEF Excused

LEMMA WriteRotatesStep ==
    ASSUME LogInv, NEW p \in Processes, NEW n \in 1..MaxLine, WriteRotates(p, n)
    PROVE  LogInv' /\ file'.size = file.size
  <1>1. PICK l \in Opened(p) : log' = [log EXCEPT ![p] = CloseLocked(l)] /\ file' = Touched(l)
    BY DEF WriteRotates
  <1>2. l \in Logs
    BY WhatOpenedGives
  <1>3. CloseLocked(l) \in Logs /\ ~CloseLocked(l).open
    BY <1>2 DEF CloseLocked, Logs
  <1>4. file' \in DiskFiles /\ file'.size = file.size
    BY <1>1, <1>2, SameLog, TouchedKeepsSize
  <1>5. [step |-> "move", size |-> n] \in Writings
    BY SizesAssumption DEF Writings, Steps
  <1>6. writing' = [writing EXCEPT ![p] = [step |-> "move", size |-> n]]
    BY DEF WriteRotates
  <1>. QED
    BY <1>1, <1>3, <1>4, <1>5, <1>6, OneLogChanges

LEMMA MoveSucceedsStep ==
    ASSUME LogInv, NEW p \in Processes, MoveSucceeds(p)
    PROVE  LogInv' /\ ~Outgrown
  <1>. DEFINE w == [writing[p] EXCEPT !.step = "reopen"]
  <1>1. w \in Writings
    BY SameLog DEF Writings, Steps
  <1>2. writing' = [writing EXCEPT ![p] = w] /\ log' = [log EXCEPT ![p] = log[p]]
    BY SameLog DEF MoveSucceeds
  <1>3. ~log[p].open /\ ~HeldByOthers(p)
    BY DEF MoveSucceeds, LogInv, ClosedToRotate
  <1>4. file' \in DiskFiles /\ file'.size = 0
    BY DEF MoveSucceeds, DiskFiles
  <1>5. LogInv'
    <2>. HIDE DEF w
    <2>. QED
      BY <1>1, <1>2, <1>3, <1>4, SameLog, OneLogChanges
  <1>6. ~Outgrown
    BY <1>4, SizesAssumption DEF Outgrown
  <1>. QED
    BY <1>5, <1>6

LEMMA MoveFailsStep ==
    ASSUME LogInv, NEW p \in Processes, MoveFails(p)
    PROVE  LogInv' /\ file'.size = file.size
  <1>. DEFINE w == [writing[p] EXCEPT !.step = "reopen"]
              l == [log[p] EXCEPT !.rotationDisabled = TRUE]
  <1>1. w \in Writings /\ l \in Logs
    BY SameLog DEF Writings, Steps, Logs
  <1>2. writing' = [writing EXCEPT ![p] = w] /\ log' = [log EXCEPT ![p] = l] /\ file' = file
    BY DEF MoveFails
  <1>3. ~l.open
    BY SameLog DEF MoveFails, LogInv, ClosedToRotate, Logs
  <1>4. LogInv'
    <2>. HIDE DEF w, l
    <2>. QED
      BY <1>1, <1>2, <1>3, SameLog, OneLogChanges
  <1>. QED
    BY <1>2, <1>4

LEMMA ReopensStep ==
    ASSUME LogInv, NEW p \in Processes, Reopens(p)
    PROVE  LogInv' /\ (Outgrown => Excused(p))
  <1>1. PICK l \in OpenLocked(p, log[p]) :
            IF l.open THEN WriteFile(p, l, writing[p].size)
                      ELSE log' = [log EXCEPT ![p] = l] /\ UNCHANGED file
    BY DEF Reopens
  <1>2. /\ l \in Logs /\ (l.open => ~HeldByOthers(p))
        /\ l.open /\ ~l.blind => l.bytes = file.size
    BY SameLog, WhatOpenLockedGives
  <1>3. writing' = [writing EXCEPT ![p] = Idle] /\ writing[p].step = "reopen"
    BY DEF Reopens
  <1>4. CASE ~l.open
    <2>1. log' = [log EXCEPT ![p] = l] /\ file' = file
      BY <1>1, <1>4
    <2>2. LogInv'
      BY <1>2, <1>3, <1>4, <2>1, SameLog, OneLogChanges
    <2>. QED
      BY <2>1, <2>2, SameLog DEF Outgrown, DiskFiles
  <1>5. CASE l.open
    <2>1. writing[p].size \in Nat
      BY SameLog DEF Writings
    <2>2. /\ file' \in DiskFiles
          /\ \E m \in Logs : /\ log' = [log EXCEPT ![p] = m]
                             /\ m.open /\ ~m.blind => m.bytes = file'.size
                             /\ m.blind = l.blind
      BY <1>1, <1>2, <1>5, <2>1, WhatWriteFileDoes
    <2>3. PICK m \in Logs : log' = [log EXCEPT ![p] = m] /\ (m.open /\ ~m.blind => m.bytes = file'.size)
      BY <2>2
    <2>. QED
      BY <1>2, <1>3, <1>5, <2>2, <2>3, SameLog, OneLogChanges DEF Excused
  <1>. QED
    BY <1>4, <1>5

LEMMA ShutdownStep ==
    ASSUME LogInv, NEW p \in Processes, Shutdown(p)
    PROVE  LogInv' /\ file'.size = file.size
  <1>1. log' = [log EXCEPT ![p] = CloseLocked(log[p])] /\ file' = file
    BY DEF Shutdown
  <1>2. writing' = [writing EXCEPT ![p] = Idle]
    BY SameLog DEF Shutdown
  <1>3. CloseLocked(log[p]) \in Logs /\ ~CloseLocked(log[p]).open
    BY SameLog DEF CloseLocked, Logs
  <1>. QED
    BY <1>1, <1>2, <1>3, SameLog, OneLogChanges

LEMMA LogEndsStep ==
    ASSUME LogInv, NEW p \in Processes, LogEnds(p)
    PROVE  LogInv' /\ file'.size = file.size
  <1>1. NoLog \in Logs /\ ~NoLog.open
    BY DEF NoLog, Logs
  <1>. QED
    BY <1>1, SameLog, OneLogChanges DEF LogEnds

LEMMA WriteStep ==
    ASSUME LogInv, NEW p \in Processes, Write(p)
    PROVE  LogInv' /\ (Outgrown => Excused(p))
  <1>1. CASE WriteFails(p)
    BY <1>1, WriteFailsStep, SameLog DEF Outgrown, LogInv, LogTypeOK
  <1>2. ASSUME NEW n \in 1..MaxLine, WriteAppends(p, n) PROVE LogInv' /\ (Outgrown => Excused(p))
    BY <1>2, WriteAppendsStep
  <1>3. ASSUME NEW n \in 1..MaxLine, WriteRotates(p, n) PROVE LogInv' /\ ~Outgrown
    BY <1>3, WriteRotatesStep, SameLog DEF Outgrown, LogInv, LogTypeOK
  <1>. QED
    BY <1>1, <1>2, <1>3 DEF Write

LEMMA RotatesStep ==
    ASSUME LogInv, NEW p \in Processes, Rotates(p)
    PROVE  LogInv' /\ (Outgrown => Excused(p))
  <1>1. CASE MoveFails(p)
    BY <1>1, MoveFailsStep, SameLog DEF Outgrown, LogInv, LogTypeOK
  <1>2. CASE MoveSucceeds(p)
    BY <1>2, MoveSucceedsStep
  <1>3. CASE Reopens(p)
    BY <1>3, ReopensStep
  <1>. QED
    BY <1>1, <1>2, <1>3 DEF Rotates

(* A step of a process that leaves its log alone, or does one thing to it. *)
LogStep ==
    \/ UNCHANGED logVars
    \/ \E p \in Processes : SetLogFile(p) \/ Write(p) \/ Rotates(p) \/ Shutdown(p) \/ LogEnds(p)

LEMMA NextIsLogStep == [Next]_vars => LogStep
  <1>1. ASSUME NEW p \in Processes,
               \/ TryAcquire(p) \/ TryAcquireFails(p) \/ Notify(p) \/ Unsupported(p)
               \/ CreatesWindow(p) \/ AddIcon(p) \/ SetVersion(p) \/ Register(p)
               \/ AddAgain(p) \/ ThemeChanges(p) \/ Close(p) \/ LosesWindow(p)
               \/ Returns(p)
        PROVE  UNCHANGED logVars
    BY <1>1 DEF TryAcquire, TryAcquireFails, Notify, Unsupported, CreatesWindow, AddIcon,
         SetVersion, Register, AddAgain, ThemeChanges, Close, LosesWindow, Returns
  <1>2. ASSUME NEW p \in Processes,
               \/ Launch(p) \/ StartLine(p) \/ StopLine(p) \/ WriteLine(p)
               \/ GoesOnRotating(p) \/ ShutsDown(p) \/ Ends(p) \/ Killed(p)
               \/ FailsFast(p)
        PROVE  SetLogFile(p) \/ Write(p) \/ Rotates(p) \/ Shutdown(p) \/ LogEnds(p)
    BY <1>2 DEF Launch, StartLine, StopLine, WriteLine, GoesOnRotating, ShutsDown, Ends, Killed,
         FailsFast, Gone
  <1>3. CASE TaskbarCrashes \/ TaskbarCreated
    BY <1>3 DEF TaskbarCrashes, TaskbarCreated, LogStep
  <1>4. CASE UNCHANGED vars
    BY <1>4 DEF vars, LogStep
  <1>5. CASE \E p \in Processes :
                SetLogFile(p) \/ Write(p) \/ Rotates(p) \/ Shutdown(p) \/ LogEnds(p)
    BY <1>5 DEF LogStep
  <1>6. CASE UNCHANGED logVars
    BY <1>6 DEF LogStep
  <1>7. Next => LogStep
    BY <1>1, <1>2, <1>3, <1>5, <1>6 DEF Next
  <1>. QED
    BY <1>4, <1>7

LEMMA LogInvariance ==
    ASSUME LogInv, [Next]_vars
    PROVE  LogInv' /\ (Outgrown => \E p \in Processes : Excused(p))
  <1>1. CASE UNCHANGED logVars
    <2>1. LogInv'
      BY <1>1 DEF logVars, LogInv, LogTypeOK, OneWriter, ClosedToRotate, CountIsSize
    <2>2. ~Outgrown
      BY <1>1 DEF logVars, Outgrown, LogInv, LogTypeOK
    <2>. QED
      BY <2>1, <2>2
  <1>2. ASSUME NEW p \in Processes,
               SetLogFile(p) \/ Shutdown(p) \/ LogEnds(p)
        PROVE  LogInv' /\ ~Outgrown
    <2>1. LogInv' /\ file'.size = file.size
      BY <1>2, SetLogFileStep, ShutdownStep, LogEndsStep
    <2>. QED
      BY <2>1 DEF Outgrown, LogInv, LogTypeOK
  <1>3. ASSUME NEW p \in Processes, Write(p) \/ Rotates(p)
        PROVE  LogInv' /\ (Outgrown => Excused(p))
    BY <1>3, WriteStep, RotatesStep
  <1>. QED
    BY <1>1, <1>2, <1>3, NextIsLogStep DEF LogStep

-----------------------------------------------------------------------------
(* The inductive invariant of the session. *)
SessionTypeOK ==
    /\ at \in [Processes -> Places]
    /\ mutex \in SUBSET Processes /\ windows \in SUBSET Processes
    /\ told \in SUBSET windows /\ icons \in SUBSET windows
    /\ taskbar \in BOOLEAN
    /\ g_wmTaskbarCreated \in [Processes -> BOOLEAN]
    /\ unguarded \in SUBSET Processes
    /\ refused \in SUBSET (windows \ icons)

(* Between CreatesWindow and LosesWindow there is a window. *)
HasWindow ==
    \A p \in Processes :
        at[p] \in {"icon", "version", "register", "loop", "reversion", "exiting"} => p \in windows

(* Who passed the guard still holds the mutex. *)
Guarded == Serving \ unguarded \subseteq mutex

(* From the first Refresh on the icon is there, or was asked for of this
   taskbar in vain, or will be asked for; only an instance that does not
   know TaskbarCreated loses the message.                                  *)
IconKept ==
    \A p \in Processes :
        /\ taskbar
        /\ \/ at[p] \in {"version", "register"}
           \/ at[p] \in {"loop", "reversion"} /\ g_wmTaskbarCreated[p]
        => p \in icons \/ p \in told \/ p \in refused

SessionInv == SessionTypeOK /\ HasWindow /\ Guarded /\ AtMostOneInstance /\ IconKept

(* Types and windows. *)
LEMMA SessionTypeStep == ASSUME SessionTypeOK, HasWindow, [Next]_vars PROVE SessionTypeOK' /\ HasWindow'
  <1>. USE DEF SessionTypeOK, HasWindow, Places
  <1>1. ASSUME NEW p \in Processes, Launch(p) PROVE SessionTypeOK' /\ HasWindow'
    BY <1>1 DEF Launch, Goes, session
  <1>2. ASSUME NEW p \in Processes, StartLine(p) PROVE SessionTypeOK' /\ HasWindow'
    BY <1>2 DEF StartLine, Goes, session
  <1>3. ASSUME NEW p \in Processes, TryAcquire(p) PROVE SessionTypeOK' /\ HasWindow'
    BY <1>3 DEF TryAcquire, Goes
  <1>4. ASSUME NEW p \in Processes, TryAcquireFails(p) PROVE SessionTypeOK' /\ HasWindow'
    BY <1>4 DEF TryAcquireFails, Goes
  <1>5. ASSUME NEW p \in Processes, Notify(p) PROVE SessionTypeOK' /\ HasWindow'
    BY <1>5 DEF Notify, Goes, session
  <1>6. ASSUME NEW p \in Processes, Unsupported(p) PROVE SessionTypeOK' /\ HasWindow'
    BY <1>6 DEF Unsupported, Goes, session
  <1>7. ASSUME NEW p \in Processes, CreatesWindow(p) PROVE SessionTypeOK' /\ HasWindow'
    BY <1>7 DEF CreatesWindow, Goes
  <1>8. ASSUME NEW p \in Processes, AddIcon(p) PROVE SessionTypeOK' /\ HasWindow'
    BY <1>8 DEF AddIcon, Refreshed, Adds, AddsNothing
  <1>9. ASSUME NEW p \in Processes, SetVersion(p) PROVE SessionTypeOK' /\ HasWindow'
    BY <1>9 DEF SetVersion, Goes, session
  <1>10. ASSUME NEW p \in Processes, Register(p) PROVE SessionTypeOK' /\ HasWindow'
    BY <1>10 DEF Register, Goes
  <1>11. ASSUME NEW p \in Processes, AddAgain(p) PROVE SessionTypeOK' /\ HasWindow'
    BY <1>11 DEF AddAgain, InLoop, Refreshed, Adds, AddsNothing
  <1>12. ASSUME NEW p \in Processes, ThemeChanges(p) PROVE SessionTypeOK' /\ HasWindow'
    BY <1>12 DEF ThemeChanges, InLoop, Refreshed, Adds, AddsNothing
  <1>13. ASSUME NEW p \in Processes, Close(p) PROVE SessionTypeOK' /\ HasWindow'
    BY <1>13 DEF Close, Goes, session
  <1>14. ASSUME NEW p \in Processes, LosesWindow(p) PROVE SessionTypeOK' /\ HasWindow'
    BY <1>14 DEF LosesWindow, Goes
  <1>15. ASSUME NEW p \in Processes, StopLine(p) PROVE SessionTypeOK' /\ HasWindow'
    BY <1>15 DEF StopLine, Goes, session
  <1>16. ASSUME NEW p \in Processes, ShutsDown(p) PROVE SessionTypeOK' /\ HasWindow'
    BY <1>16 DEF ShutsDown, Goes, session
  <1>17. ASSUME NEW p \in Processes, Returns(p) PROVE SessionTypeOK' /\ HasWindow'
    BY <1>17 DEF Returns, Goes
  <1>18. ASSUME NEW p \in Processes, Ends(p) PROVE SessionTypeOK' /\ HasWindow'
    BY <1>18 DEF Ends, Gone
  <1>19. ASSUME NEW p \in Processes, Killed(p) PROVE SessionTypeOK' /\ HasWindow'
    BY <1>19 DEF Killed, Gone
  <1>20. ASSUME NEW p \in Processes, FailsFast(p) PROVE SessionTypeOK' /\ HasWindow'
    BY <1>20 DEF FailsFast, Gone
  <1>21. ASSUME NEW p \in Processes, WriteLine(p) PROVE SessionTypeOK' /\ HasWindow'
    BY <1>21 DEF WriteLine, session
  <1>22. ASSUME NEW p \in Processes, GoesOnRotating(p) PROVE SessionTypeOK' /\ HasWindow'
    BY <1>22 DEF GoesOnRotating, session
  <1>23. CASE TaskbarCrashes
    BY <1>23 DEF TaskbarCrashes
  <1>24. CASE TaskbarCreated
    BY <1>24 DEF TaskbarCreated
  <1>25. CASE UNCHANGED vars
    BY <1>25 DEF vars, session
  <1>. QED
    BY <1>1, <1>2, <1>3, <1>4, <1>5, <1>6, <1>7, <1>8, <1>9, <1>10, <1>11, <1>12, <1>13, <1>14, <1>15, <1>16, <1>17, <1>18, <1>19, <1>20, <1>21, <1>22, <1>23, <1>24, <1>25 DEF Next

(* The guard: TryAcquire lets in who finds no handle at all, hence no other
   instance that holds one.                                                *)
LEMMA GuardStep == ASSUME SessionTypeOK, Guarded, AtMostOneInstance, [Next]_vars PROVE Guarded' /\ AtMostOneInstance'
  <1>. USE DEF SessionTypeOK, Guarded, AtMostOneInstance, Serving, Places
  <1>1. ASSUME NEW p \in Processes, Launch(p) PROVE Guarded' /\ AtMostOneInstance'
    BY <1>1 DEF Launch, Goes, session
  <1>2. ASSUME NEW p \in Processes, StartLine(p) PROVE Guarded' /\ AtMostOneInstance'
    BY <1>2 DEF StartLine, Goes, session
  <1>3. ASSUME NEW p \in Processes, TryAcquire(p) PROVE Guarded' /\ AtMostOneInstance'
    BY <1>3 DEF TryAcquire, Goes
  <1>4. ASSUME NEW p \in Processes, TryAcquireFails(p) PROVE Guarded' /\ AtMostOneInstance'
    BY <1>4 DEF TryAcquireFails, Goes
  <1>5. ASSUME NEW p \in Processes, Notify(p) PROVE Guarded' /\ AtMostOneInstance'
    BY <1>5 DEF Notify, Goes, session
  <1>6. ASSUME NEW p \in Processes, Unsupported(p) PROVE Guarded' /\ AtMostOneInstance'
    BY <1>6 DEF Unsupported, Goes, session
  <1>7. ASSUME NEW p \in Processes, CreatesWindow(p) PROVE Guarded' /\ AtMostOneInstance'
    BY <1>7 DEF CreatesWindow, Goes
  <1>8. ASSUME NEW p \in Processes, AddIcon(p) PROVE Guarded' /\ AtMostOneInstance'
    BY <1>8 DEF AddIcon, Refreshed, Adds, AddsNothing
  <1>9. ASSUME NEW p \in Processes, SetVersion(p) PROVE Guarded' /\ AtMostOneInstance'
    BY <1>9 DEF SetVersion, Goes, session
  <1>10. ASSUME NEW p \in Processes, Register(p) PROVE Guarded' /\ AtMostOneInstance'
    BY <1>10 DEF Register, Goes
  <1>11. ASSUME NEW p \in Processes, AddAgain(p) PROVE Guarded' /\ AtMostOneInstance'
    BY <1>11 DEF AddAgain, InLoop, Refreshed, Adds, AddsNothing
  <1>12. ASSUME NEW p \in Processes, ThemeChanges(p) PROVE Guarded' /\ AtMostOneInstance'
    BY <1>12 DEF ThemeChanges, InLoop, Refreshed, Adds, AddsNothing
  <1>13. ASSUME NEW p \in Processes, Close(p) PROVE Guarded' /\ AtMostOneInstance'
    BY <1>13 DEF Close, Goes, session
  <1>14. ASSUME NEW p \in Processes, LosesWindow(p) PROVE Guarded' /\ AtMostOneInstance'
    BY <1>14 DEF LosesWindow, Goes
  <1>15. ASSUME NEW p \in Processes, StopLine(p) PROVE Guarded' /\ AtMostOneInstance'
    BY <1>15 DEF StopLine, Goes, session
  <1>16. ASSUME NEW p \in Processes, ShutsDown(p) PROVE Guarded' /\ AtMostOneInstance'
    BY <1>16 DEF ShutsDown, Goes, session
  <1>17. ASSUME NEW p \in Processes, Returns(p) PROVE Guarded' /\ AtMostOneInstance'
    BY <1>17 DEF Returns, Goes
  <1>18. ASSUME NEW p \in Processes, Ends(p) PROVE Guarded' /\ AtMostOneInstance'
    BY <1>18 DEF Ends, Gone
  <1>19. ASSUME NEW p \in Processes, Killed(p) PROVE Guarded' /\ AtMostOneInstance'
    BY <1>19 DEF Killed, Gone
  <1>20. ASSUME NEW p \in Processes, FailsFast(p) PROVE Guarded' /\ AtMostOneInstance'
    BY <1>20 DEF FailsFast, Gone
  <1>21. ASSUME NEW p \in Processes, WriteLine(p) PROVE Guarded' /\ AtMostOneInstance'
    BY <1>21 DEF WriteLine, session
  <1>22. ASSUME NEW p \in Processes, GoesOnRotating(p) PROVE Guarded' /\ AtMostOneInstance'
    BY <1>22 DEF GoesOnRotating, session
  <1>23. CASE TaskbarCrashes
    BY <1>23 DEF TaskbarCrashes
  <1>24. CASE TaskbarCreated
    BY <1>24 DEF TaskbarCreated
  <1>25. CASE UNCHANGED vars
    BY <1>25 DEF vars, session
  <1>. QED
    BY <1>1, <1>2, <1>3, <1>4, <1>5, <1>6, <1>7, <1>8, <1>9, <1>10, <1>11, <1>12, <1>13, <1>14, <1>15, <1>16, <1>17, <1>18, <1>19, <1>20, <1>21, <1>22, <1>23, <1>24, <1>25 DEF Next

(* The icon. *)
LEMMA IconStep == ASSUME SessionTypeOK, HasWindow, IconKept, [Next]_vars PROVE IconKept'
  <1>. USE DEF SessionTypeOK, HasWindow, IconKept, Places
  <1>1. ASSUME NEW p \in Processes, Launch(p) PROVE IconKept'
    BY <1>1 DEF Launch, Goes, session
  <1>2. ASSUME NEW p \in Processes, StartLine(p) PROVE IconKept'
    BY <1>2 DEF StartLine, Goes, session
  <1>3. ASSUME NEW p \in Processes, TryAcquire(p) PROVE IconKept'
    BY <1>3 DEF TryAcquire, Goes
  <1>4. ASSUME NEW p \in Processes, TryAcquireFails(p) PROVE IconKept'
    BY <1>4 DEF TryAcquireFails, Goes
  <1>5. ASSUME NEW p \in Processes, Notify(p) PROVE IconKept'
    BY <1>5 DEF Notify, Goes, session
  <1>6. ASSUME NEW p \in Processes, Unsupported(p) PROVE IconKept'
    BY <1>6 DEF Unsupported, Goes, session
  <1>7. ASSUME NEW p \in Processes, CreatesWindow(p) PROVE IconKept'
    BY <1>7 DEF CreatesWindow, Goes
  <1>8. ASSUME NEW p \in Processes, AddIcon(p) PROVE IconKept'
    BY <1>8 DEF AddIcon, Refreshed, Adds, AddsNothing
  <1>9. ASSUME NEW p \in Processes, SetVersion(p) PROVE IconKept'
    BY <1>9 DEF SetVersion, Goes, session
  <1>10. ASSUME NEW p \in Processes, Register(p) PROVE IconKept'
    BY <1>10 DEF Register, Goes
  <1>11. ASSUME NEW p \in Processes, AddAgain(p) PROVE IconKept'
    BY <1>11 DEF AddAgain, InLoop, Refreshed, Adds, AddsNothing
  <1>12. ASSUME NEW p \in Processes, ThemeChanges(p) PROVE IconKept'
    BY <1>12 DEF ThemeChanges, InLoop, Refreshed, Adds, AddsNothing
  <1>13. ASSUME NEW p \in Processes, Close(p) PROVE IconKept'
    BY <1>13 DEF Close, Goes, session
  <1>14. ASSUME NEW p \in Processes, LosesWindow(p) PROVE IconKept'
    BY <1>14 DEF LosesWindow, Goes
  <1>15. ASSUME NEW p \in Processes, StopLine(p) PROVE IconKept'
    BY <1>15 DEF StopLine, Goes, session
  <1>16. ASSUME NEW p \in Processes, ShutsDown(p) PROVE IconKept'
    BY <1>16 DEF ShutsDown, Goes, session
  <1>17. ASSUME NEW p \in Processes, Returns(p) PROVE IconKept'
    BY <1>17 DEF Returns, Goes
  <1>18. ASSUME NEW p \in Processes, Ends(p) PROVE IconKept'
    BY <1>18 DEF Ends, Gone
  <1>19. ASSUME NEW p \in Processes, Killed(p) PROVE IconKept'
    BY <1>19 DEF Killed, Gone
  <1>20. ASSUME NEW p \in Processes, FailsFast(p) PROVE IconKept'
    BY <1>20 DEF FailsFast, Gone
  <1>21. ASSUME NEW p \in Processes, WriteLine(p) PROVE IconKept'
    BY <1>21 DEF WriteLine, session
  <1>22. ASSUME NEW p \in Processes, GoesOnRotating(p) PROVE IconKept'
    BY <1>22 DEF GoesOnRotating, session
  <1>23. CASE TaskbarCrashes
    BY <1>23 DEF TaskbarCrashes
  <1>24. CASE TaskbarCreated
    BY <1>24 DEF TaskbarCreated
  <1>25. CASE UNCHANGED vars
    BY <1>25 DEF vars, session
  <1>. QED
    BY <1>1, <1>2, <1>3, <1>4, <1>5, <1>6, <1>7, <1>8, <1>9, <1>10, <1>11, <1>12, <1>13, <1>14, <1>15, <1>16, <1>17, <1>18, <1>19, <1>20, <1>21, <1>22, <1>23, <1>24, <1>25 DEF Next

-----------------------------------------------------------------------------
(* The inductive invariant of the whole. *)
IInv == LogInv /\ SessionInv

THEOREM Invariance == Spec => []IInv
  <1>1. Init => IInv
    <2>. SUFFICES ASSUME Init PROVE IInv
      OBVIOUS
    <2>1. LogInv
      BY DEF Init, LogInit, LogInv, LogTypeOK, Logs, Steps, NoLog, Idle, OneWriter, ClosedToRotate,
             CountIsSize
    <2>2. SessionInv
      BY DEF Init, SessionInv, SessionTypeOK, Places, HasWindow, Guarded, Serving, AtMostOneInstance,
             IconKept
    <2>. QED
      BY <2>1, <2>2 DEF IInv
  <1>2. IInv /\ [Next]_vars => IInv'
    BY LogInvariance, SessionTypeStep, GuardStep, IconStep DEF IInv, SessionInv
  <1>. QED
    BY <1>1, <1>2, PTL DEF Spec

(* TypeOK: every variable of the log and of the session keeps its type. *)
THEOREM TypeCorrect == Spec => []TypeOK
  <1>1. IInv => TypeOK
    BY DEF IInv, LogInv, SessionInv, SessionTypeOK, TypeOK
  <1>. QED
    BY <1>1, Invariance, PTL

(* AtMostOneInstance: of any number of processes started at any moment, one
   at most is between its TryAcquire and the end of its wWinMain, unless
   CreateMutexW failed for it.                                             *)
THEOREM OneInstance == Spec => []AtMostOneInstance
  <1>1. IInv => AtMostOneInstance
    BY DEF IInv, SessionInv
  <1>. QED
    BY <1>1, Invariance, PTL

(* CountIsSize: g_bytesWritten is the size of the file on the disk whoever
   else writes to it, however writes fail or are cut short.                *)
THEOREM Counted == Spec => []CountIsSize
  <1>1. IInv => CountIsSize
    BY DEF IInv, LogInv
  <1>. QED
    BY <1>1, Invariance, PTL

(* IconNeverLost: whenever the taskbar restarts, before, between or after
   the calls of Refresh, the icon of a running instance is there or asked
   for again, unless the taskbar that is there has refused the last NIM_ADD
   itself: no restart is ever missed.                                      *)
THEOREM IconKeeps == Spec => []IconNeverLost
  <1>1. IInv => IconNeverLost
    BY DEF IInv, SessionInv, IconKept, IconNeverLost, InLoop
  <1>. QED
    BY <1>1, Invariance, PTL

(* LimitKept: for every limit and length of a line, the three excuses are
   the only ones.                                                          *)
THEOREM Limited == Spec => LimitKept
  <1>1. IInv /\ [Next]_vars
        => [Outgrown => \E p \in Processes : Excused(p)]_logVars
    BY LogInvariance DEF IInv
  <1>2. [Outgrown => \E p \in Processes : Excused(p)]_logVars
        => [(file'.size > file.size /\ file'.size > kMaxFileBytes) =>
              \E p \in Processes :
                 /\ ~HeldByOthers(p)
                 /\ log[p].rotationDisabled \/ log'[p].blind \/ writing[p].step = "reopen"]_logVars
    BY DEF Outgrown, Excused
  <1>. QED
    BY <1>1, <1>2, Invariance, PTL DEF Spec, LimitKept
=============================================================================
