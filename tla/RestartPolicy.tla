--------------------------- MODULE RestartPolicy ---------------------------
(***************************************************************************)
(* The chain of processes one launch of the application becomes: base.New *)
(* (the single-instance lock), Base.run (the crash recovery action and the *)
(* requested restart) and restartApp (internal/app/base/base.go and        *)
(* restart.go).                                                            *)
(*                                                                         *)
(* cur is the newest process of the chain.  A requested restart starts the *)
(* new process before the old one has closed its lock file, so the old one *)
(* lives on as prev for one more step; a crashed process has closed its    *)
(* lock before it restarts and is gone.                                    *)
(***************************************************************************)
EXTENDS Naturals, Sequences, SequencesExt

CONSTANTS
  MaxAllowedRestarts,  \* maxAllowedRestarts
  MaxRequests,         \* bound on the restarts the application asks for
  MaxValue,            \* largest number on the command line of the launch
  MaxArgs,             \* bound on the arguments of the launch
  PositionalArgs       \* whether the launch may carry positional arguments

ASSUME MaxAllowedRestarts \in Nat /\ MaxRequests \in Nat /\ PositionalArgs \in BOOLEAN

VARIABLES
  cur,       \* [pc, args, by]: pc is "starting", "running", "exited" or
             \* "refused"; by is who started it: "launch", "crash" or "request"
  prev,      \* "closing" while the process that started cur still runs
  lock,      \* holder of the lock file: "free", "cur" or "prev"
  requests,  \* number of restarts asked for with SetToRestart so far
  crashes    \* number of times the recovery action called restartApp(true)

vars == <<cur, prev, lock, requests, crashes>>

Flag == INSTANCE RestartFlag WITH args <- cur.args

(***************************************************************************)
(* Translation of the code                                                 *)
(***************************************************************************)
\* restartApp: the arguments of the new process.
RestartApp(crash, args) ==
  IF crash THEN Flag!IncrementRestartFlag(args) ELSE args

\* exec.Command(...).Start() for the next process, or its failure.
Spawn(args, by) == {[pc |-> "starting", args |-> args, by |-> by],
                     [cur EXCEPT !.pc = "exited"]}

\* base.New of the newest process: an error before or after the lock is
\* taken ends the process (main exits through logrus.Fatal, the OS drops
\* the lock); a lock held by another process makes New return nil.
NewBase ==
  /\ cur.pc = "starting"
  /\ \/ cur' = [cur EXCEPT !.pc = "exited"] /\ UNCHANGED lock
     \/ lock # "free" /\ cur' = [cur EXCEPT !.pc = "refused"] /\ UNCHANGED lock
     \/ lock = "free" /\ cur' = [cur EXCEPT !.pc = "running"] /\ lock' = "cur"
  /\ UNCHANGED <<prev, requests, crashes>>

\* Mutant: the recovery action runs while the lock file is still open.
MainLoopPanicsBeforeUnlock ==
  /\ cur.pc = "running"
  /\ IF Flag!RestartCount(cur.args) > MaxAllowedRestarts
     THEN cur' = [cur EXCEPT !.pc = "exited"] /\ lock' = "free" /\ UNCHANGED prev
     ELSE \E c \in Spawn(RestartApp(TRUE, cur.args), "crash") :
            cur' = c /\ lock' = "prev" /\ prev' = "closing"
  /\ crashes' = IF Flag!RestartCount(cur.args) > MaxAllowedRestarts
                THEN crashes ELSE crashes + 1
  /\ UNCHANGED requests

\* A panic in appMainLoop: the deferred Lock.Close runs, then the deferred
\* HandlePanic calls the recovery action, which restarts with an
\* incremented --restart unless c.Int("restart") > maxAllowedRestarts.
MainLoopPanics ==
  /\ cur.pc = "running"
  /\ lock' = "free"
  /\ IF Flag!RestartCount(cur.args) > MaxAllowedRestarts
     THEN cur' = [cur EXCEPT !.pc = "exited"] /\ UNCHANGED crashes
     ELSE /\ \E c \in Spawn(RestartApp(TRUE, cur.args), "crash") : cur' = c
          /\ crashes' = crashes + 1
  /\ UNCHANGED <<prev, requests>>

\* appMainLoop returns with no restart asked for, or appMainLoop or
\* doTeardown returns an error: run returns and the lock is closed.
MainLoopExits ==
  /\ cur.pc = "running"
  /\ cur' = [cur EXCEPT !.pc = "exited"]
  /\ lock' = "free"
  /\ UNCHANGED <<prev, requests, crashes>>

\* SetToRestart was called and teardown succeeded: restartApp(false)
\* starts the next process, and only then does run return and the
\* deferred Lock.Close run.
RequestedRestart ==
  /\ cur.pc = "running"
  /\ requests < MaxRequests
  /\ requests' = requests + 1
  /\ \E c \in Spawn(RestartApp(FALSE, cur.args), "request") :
       \/ c.pc = "starting" /\ cur' = c /\ prev' = "closing" /\ lock' = "prev"
       \/ c.pc = "exited" /\ cur' = c /\ lock' = "free" /\ UNCHANGED prev
  /\ UNCHANGED crashes

\* The deferred Lock.Close of the process that asked for the restart.
ParentCloses ==
  /\ prev = "closing"
  /\ prev' = "none"
  /\ lock' = IF lock = "prev" THEN "free" ELSE lock
  /\ UNCHANGED <<cur, requests, crashes>>

\* A command line the application can be launched with: app.Run accepts
\* it (one it rejects ends before base.New), the value of --launcher and
\* --log-level is a path or a level, and positional arguments appear only
\* when PositionalArgs allows them.
Launch(a) ==
  /\ Flag!Accepted(a)
  /\ \A i \in 1..Len(a) - 1 : a[i] = Flag!StrFlag => a[i + 1] = Flag!Word
  /\ PositionalArgs \/ ~Flag!HasPositional(a)

\* main: the user, the launcher or autostart starts the application.
Init ==
  /\ cur \in {[pc |-> "starting", args |-> <<Flag!Exe>> \o a, by |-> "launch"] :
                a \in {a \in BoundedSeq(Flag!Args, MaxArgs) : Launch(<<Flag!Exe>> \o a)}}
  /\ prev = "none"
  /\ lock = "free"
  /\ requests = 0
  /\ crashes = 0

Next ==
  \/ NewBase
  \/ MainLoopPanics
  \/ MainLoopExits
  \/ RequestedRestart
  \/ ParentCloses

Spec == Init /\ [][Next]_vars

(***************************************************************************)
(* Properties                                                              *)
(***************************************************************************)
(* Types of the chain's state.                                             *)
TypeOK ==
  /\ cur.pc \in {"starting", "running", "exited", "refused"}
  /\ cur.by \in {"launch", "crash", "request"}
  /\ Flag!RestartCount(cur.args) \in Nat
  /\ crashes \in Nat
  /\ prev \in {"none", "closing"}
  /\ lock \in {"free", "cur", "prev"}
  /\ requests \in 0..MaxRequests

(* A process the chain starts after a crash is never turned away         *)
(* by base.New as "already running": the deferred Lock.Close has run     *)
(* before HandlePanic calls the recovery action.                         *)
NoCrashRestartRefused == cur.pc = "refused" => cur.by = "request"

(* Every command line a process of the chain runs with, the one the user *)
(* launched included, is rewritten by a crash restart into one the next  *)
(* process accepts and reads back with a restart count one higher.       *)
RestartCountAdvances == Flag!RestartCountAdvances

(* A process the chain starts itself is never turned away by base.New as  *)
(* "already running": the process that started it has released the lock   *)
(* file by the time the new one asks for it.                              *)
NoRestartRefused == cur.pc # "refused"

(* The comment on maxAllowedRestarts (restart.go line 28): the            *)
(* application gives up restarting after maxAllowedRestarts crashes, so a  *)
(* chain restarts itself after a crash at most maxAllowedRestarts times.   *)
CrashRestartsWithinBudget == crashes <= MaxAllowedRestarts

(* However it was launched, crash restarts end: the recovery action's test *)
(* c.Int("restart") > maxAllowedRestarts, with the count read back from    *)
(* the arguments incrementRestartFlag rewrote, stops them after at most    *)
(* maxAllowedRestarts + 1 restarts (the + 1 is the off-by-one that         *)
(* CrashRestartsWithinBudget shows).                                      *)
CrashRestartsBounded == crashes <= MaxAllowedRestarts + 1
=============================================================================
