-------------------------------- MODULE Log --------------------------------
(***************************************************************************)
(* src/Log.cpp: each process appends its lines to one file next to the     *)
(* executable and renames the file when it is full.  The functions of one  *)
(* process exclude each other by g_mutex; processes do not, and a second   *)
(* one may be started at any time: it writes a line before it finds out.   *)
(* A handle for appending shares the file with readers only, so that one   *)
(* process at most has it open.  Instances says who calls these actions.   *)
(***************************************************************************)
EXTENDS Naturals

CONSTANTS
    Processes,
    kMaxFileBytes,  \* 1 MB in the code
    MaxLine,        \* bytes of the longest line
    MaxSize         \* bound: where a file that is not rotated stops to grow

ASSUME SizesAssumption ==
    /\ kMaxFileBytes \in Nat /\ MaxLine \in Nat /\ MaxSize \in Nat
    /\ MaxLine >= 1 /\ MaxLine <= kMaxFileBytes

VARIABLES
    log,      \* process -> its g_file, g_bytesWritten, g_rotationDisabled
    writing,  \* process -> where its Write is in RotateLocked
    file      \* the file on the disk

logVars == <<log, writing, file>>

(* blind: GetFileSizeEx failed when the file was opened. *)
Logs == [open: BOOLEAN, bytes: Nat, rotationDisabled: BOOLEAN, blind: BOOLEAN]
Steps == {"idle", "move", "reopen"}

LogTypeOK ==
    /\ log \in [Processes -> Logs]
    /\ writing \in [Processes -> [step: Steps, size: Nat]]
    /\ file \in [exists: BOOLEAN, size: Nat]

NoLog == [open |-> FALSE, bytes |-> 0, rotationDisabled |-> FALSE, blind |-> FALSE]
Idle == [step |-> "idle", size |-> 0]

LogInit ==
    /\ log = [p \in Processes |-> NoLog]
    /\ writing = [p \in Processes |-> Idle]
    /\ file = [exists |-> FALSE, size |-> 0]

CloseLocked(l) == [l EXCEPT !.open = FALSE, !.bytes = 0, !.blind = FALSE]

HeldByOthers(p) == \E q \in Processes \ {p} : log[q].open

(* Faulty variants of definitions below, one slip each.  No specification
   uses them: each is what one of the properties is there to exclude.      *)

(* The handle shares the file with writers. *)
OpenLockedShared(p, l) ==
    {[l EXCEPT !.open = FALSE], [l EXCEPT !.open = TRUE, !.bytes = file.size, !.blind = FALSE]}

(* The line to come is not counted. *)
IsFullBefore(l, n) == ~l.rotationDisabled /\ l.bytes > 0 /\ l.bytes > kMaxFileBytes

(* What OpenLocked may make of l: it fails when another process has the
   file, or for another reason; the size may be unknown.                   *)
OpenLocked(p, l) ==
    {[l EXCEPT !.open = FALSE, !.blind = FALSE]} \cup
    IF HeldByOthers(p) THEN {} ELSE
        {[l EXCEPT !.open = TRUE, !.bytes = file.size, !.blind = FALSE],
         [l EXCEPT !.open = TRUE, !.bytes = 0, !.blind = TRUE]}

(* The file is created when it is opened; nothing else happens to it. *)
Touched(l) == [file EXCEPT !.exists = @ \/ l.open]

SetLogFile(p) ==
    /\ writing[p] = Idle
    /\ \E l \in OpenLocked(p, [CloseLocked(log[p]) EXCEPT !.rotationDisabled = FALSE]) :
          /\ log' = [log EXCEPT ![p] = l]
          /\ file' = Touched(l)
    /\ UNCHANGED writing

-----------------------------------------------------------------------------
IsFull(l, n) == ~l.rotationDisabled /\ l.bytes > 0 /\ l.bytes + n > kMaxFileBytes

(* With l the open log: all of the line, or a part of it and the handle is
   given up (but not yet the history whether it was blind).                *)
WriteFile(p, l, n) ==
    /\ file.size + n <= MaxSize
    /\ \/ /\ file' = [exists |-> TRUE, size |-> file.size + n]
          /\ log' = [log EXCEPT ![p] = [l EXCEPT !.bytes = @ + n]]
       \/ \E k \in 0..(n - 1) :
             /\ file' = [exists |-> TRUE, size |-> file.size + k]
             /\ log' = [log EXCEPT ![p] = [CloseLocked(l) EXCEPT !.blind = l.blind]]

Opened(p) == IF log[p].open THEN {log[p]} ELSE OpenLocked(p, log[p])

(* Write, from the lock to RotateLocked's CloseLocked or to its end.  Nothing
   is written if there is no file, or the line cannot be converted.        *)
WriteFails(p) ==
    /\ writing[p] = Idle
    /\ \E l \in Opened(p) : log' = [log EXCEPT ![p] = l] /\ file' = Touched(l)
    /\ UNCHANGED writing

WriteAppends(p, n) ==
    /\ writing[p] = Idle
    /\ \E l \in Opened(p) : l.open /\ ~IsFull(l, n) /\ WriteFile(p, l, n)
    /\ UNCHANGED writing

WriteRotates(p, n) ==
    /\ writing[p] = Idle
    /\ \E l \in Opened(p) :
          /\ l.open /\ IsFull(l, n)
          /\ log' = [log EXCEPT ![p] = CloseLocked(l)]
          /\ file' = Touched(l)
    /\ writing' = [writing EXCEPT ![p] = [step |-> "move", size |-> n]]

Write(p) == WriteFails(p) \/ \E n \in 1..MaxLine : WriteAppends(p, n) \/ WriteRotates(p, n)

(* MoveFileExW: in the meantime another process may have opened the file,
   or renamed it.                                                          *)
MoveSucceeds(p) ==
    /\ writing[p].step = "move"
    /\ file.exists /\ ~HeldByOthers(p)
    /\ file' = [exists |-> FALSE, size |-> 0]
    /\ writing' = [writing EXCEPT ![p].step = "reopen"]
    /\ UNCHANGED log

MoveFails(p) ==
    /\ writing[p].step = "move"
    /\ log' = [log EXCEPT ![p].rotationDisabled = TRUE]
    /\ writing' = [writing EXCEPT ![p].step = "reopen"]
    /\ UNCHANGED file

Reopens(p) ==
    /\ writing[p].step = "reopen"
    /\ \E l \in OpenLocked(p, log[p]) :
          IF l.open THEN WriteFile(p, l, writing[p].size)
                    ELSE log' = [log EXCEPT ![p] = l] /\ UNCHANGED file
    /\ writing' = [writing EXCEPT ![p] = Idle]

Rotates(p) == MoveSucceeds(p) \/ MoveFails(p) \/ Reopens(p)

Shutdown(p) ==
    /\ writing[p] = Idle
    /\ log' = [log EXCEPT ![p] = CloseLocked(@)]
    /\ UNCHANGED <<writing, file>>

(* A process that ends, wherever it is: the system closes its handle. *)
LogEnds(p) ==
    /\ log' = [log EXCEPT ![p] = NoLog]
    /\ writing' = [writing EXCEPT ![p] = Idle]
    /\ UNCHANGED file

-----------------------------------------------------------------------------
(* g_bytesWritten, by which Write decides, is the size of the file, though
   other processes write to it between two openings.                       *)
CountIsSize ==
    \A p \in Processes : (log[p].open /\ ~log[p].blind) => (log[p].bytes = file.size)

(* The file outgrows its limit only by a process that has given up to
   rotate, that could not learn the size, or that finds the file it has
   just renamed filled anew by another process; never by a restart.        *)
LimitKept ==
    [][(file'.size > file.size /\ file'.size > kMaxFileBytes) =>
          \E p \in Processes :
             /\ ~HeldByOthers(p)
             /\ log[p].rotationDisabled \/ log'[p].blind \/ writing[p].step = "reopen"]_logVars
=============================================================================
