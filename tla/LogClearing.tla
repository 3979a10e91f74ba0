---------------------------- MODULE LogClearing ----------------------------
(***************************************************************************)
(* clearLogs, removeOldLogs and removeLog (internal/logging/clear.go) over *)
(* a logs directory that may still hold the per-version subdirectories of  *)
(* older releases.                                                         *)
(*                                                                         *)
(* An entry is a record: the path of its directory (a sequence of names,   *)
(* <<>> for the logs directory), its name, and its kind: "log" or "crash"  *)
(* (matchLogName, with matchStackTraceName for "crash"), "other" (a file   *)
(* matchLogName rejects) or "dir" (a directory it rejects).  Names are     *)
(* numbers: their order is the order sort.Strings and ioutil.ReadDir give. *)
(* Reading a directory and removing a file may fail.                       *)
(***************************************************************************)
EXTENDS Naturals, FiniteSets, Sequences, SequencesExt, FiniteSetsExt

CONSTANTS
  MaxLogs,     \* maxLogs
  RootNames,   \* names of the entries of the logs directory
  SubNames     \* names of the entries of a legacy subdirectory

VARIABLES
  entries,     \* the entries on disk
  before,      \* the entries when clearLogs was called
  unreadable,  \* directories whose ReadDir fails
  failing,     \* entries whose RemoveAll fails
  status       \* "idle", then "ok" or "error" as clearLogs returns

vars == <<entries, before, unreadable, failing, status>>

LogKinds == {"log", "crash"}

Path(e) == e.dir \o <<e.name>>

InDir(E, d, kinds) == {e \in E : e.dir = d /\ e.kind \in kinds}

(***************************************************************************)
(* Translation of the code                                                 *)
(***************************************************************************)
\* Mutant: one log too many is removed.
RemoveOldLogsOneMore(d, kind, E, F) ==
  LET names == InDir(E, d, {kind})
      old   == {e \in names : Quantify(names, LAMBDA o : o.name < e.name)
                                < Cardinality(names) - MaxLogs + 1}
  IN IF Cardinality(names) <= MaxLogs THEN E ELSE E \ (old \ F)

\* Mutant: one log too few is removed.
RemoveOldLogsOneFewer(d, kind, E, F) ==
  LET names == InDir(E, d, {kind})
      old   == {e \in names : Quantify(names, LAMBDA o : o.name < e.name)
                                < Cardinality(names) - MaxLogs - 1}
  IN IF Cardinality(names) <= MaxLogs THEN E ELSE E \ (old \ F)

\* removeOldLogs: when there are more than maxLogs names, the
\* count - maxLogs first in sorted order go through removeLog, whose
\* RemoveAll may fail (the error is only logged); F are the entries
\* whose removal fails.
RemoveOldLogs(d, kind, E, F) ==
  LET names == InDir(E, d, {kind})
      old   == {e \in names : Quantify(names, LAMBDA o : o.name < e.name)
                                < Cardinality(names) - MaxLogs}
  IN IF Cardinality(names) <= MaxLogs THEN E ELSE E \ (old \ F)

\* clearLogs on directory d: ReadDir, then the loop, in name order, which
\* recurses into directories and returns at the first error (line 49);
\* removeLog on a file matchLogName rejects returns at once (line 79).
\* Only then are the old logs and crash dumps of d removed.  U are the
\* directories ReadDir fails on.
RECURSIVE ClearLogs(_, _, _, _)
ClearLogs(d, E, U, F) ==
  IF d \in U THEN [err |-> TRUE, entries |-> E]
  ELSE
    LET subs == SetToSortSeq(InDir(E, d, {"dir"}), LAMBDA a, b : a.name < b.name)
        RECURSIVE Loop(_, _)
        Loop(i, acc) ==
          IF i > Len(subs) THEN [err |-> FALSE, entries |-> acc]
          ELSE LET r == ClearLogs(Path(subs[i]), acc, U, F)
               IN IF r.err THEN r ELSE Loop(i + 1, r.entries)
        w == Loop(1, E)
    IN IF w.err THEN w
       ELSE [err |-> FALSE,
             entries |-> RemoveOldLogs(d, "crash", RemoveOldLogs(d, "log", w.entries, F), F)]

\* The logs directory with its files and legacy subdirectories.
Trees ==
  LET root(k) == {[dir |-> <<>>, name |-> n, kind |-> k[n]] : n \in DOMAIN k}
      sub(p, k) == {[dir |-> <<p>>, name |-> n, kind |-> k[n]] : n \in DOMAIN k}
      SubKinds == UNION {[S -> LogKinds \cup {"other"}] : S \in SUBSET SubNames}
  IN UNION {
       {root(k) \cup UNION {sub(p, s[p]) : p \in {n \in DOMAIN k : k[n] = "dir"}} :
          s \in [{n \in DOMAIN k : k[n] = "dir"} -> SubKinds]} :
       k \in UNION {[S -> LogKinds \cup {"other", "dir"}] : S \in SUBSET RootNames}}

Init ==
  /\ entries \in Trees
  /\ before = entries
  /\ unreadable = {}
  /\ failing = {}
  /\ status = "idle"

\* The call of clearLogs on the logs directory, with the directories that
\* cannot be read and the one removal that fails.
Clear ==
  /\ status = "idle"
  /\ \E u \in SUBSET ({<<>>} \cup {Path(e) : e \in InDir(entries, <<>>, {"dir"})}),
        f \in {{}} \cup {{e} : e \in {x \in entries : x.kind \in LogKinds}} :
       /\ unreadable' = u
       /\ failing' = f
       /\ LET r == ClearLogs(<<>>, entries, u, f) IN
            /\ entries' = r.entries
            /\ status' = IF r.err THEN "error" ELSE "ok"
  /\ before' = entries

Next == Clear

Spec == Init /\ [][Next]_vars

(***************************************************************************)
(* Properties                                                              *)
(***************************************************************************)
TypeOK ==
  /\ \A e \in entries : e.kind \in LogKinds \cup {"other", "dir"} /\ e.name \in Nat
  /\ status \in {"idle", "ok", "error"}

\* Logs of kind k in directory d on disk, leaving out those that could not
\* be removed.
Kept(d, k) == InDir(entries, d, {k}) \ failing

(* clearLogs never removes a file or directory that is not a log, nor one  *)
(* of the maxLogs newest logs or crash dumps of its directory.            *)
KeepsNewestAndForeign ==
  \A e \in before :
    \/ e \in entries
    \/ /\ e.kind \in LogKinds
       /\ Quantify(InDir(before, e.dir, {e.kind}), LAMBDA o : o.name > e.name) >= MaxLogs

(* When clearLogs returns nil, every directory it read holds at most       *)
(* maxLogs logs and maxLogs crash dumps, apart from those RemoveAll failed *)
(* to remove.                                                              *)
PrunedWhenOK ==
  status = "ok" =>
    \A d \in {<<>>} \cup {Path(e) : e \in InDir(before, <<>>, {"dir"})},
       k \in LogKinds :
      Cardinality(Kept(d, k)) <= MaxLogs

(* Whatever happens in the legacy subdirectories, a clearLogs that can     *)
(* read the logs directory leaves at most maxLogs logs in it.             *)
RootPrunedDespiteLegacyDirs ==
  status # "idle" /\ <<>> \notin unreadable =>
    \A k \in LogKinds : Cardinality(Kept(<<>>, k)) <= MaxLogs
=============================================================================
