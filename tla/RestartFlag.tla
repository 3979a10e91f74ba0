---------------------------- MODULE RestartFlag ----------------------------
(***************************************************************************)
(* incrementRestartFlag (internal/app/base/restart.go), the rewrite of the *)
(* command line a crashed process restarts itself with, against the way   *)
(* the next process reads the flag back: c.Int("restart") of urfave/cli    *)
(* over the StringFlag "restart" of Base.NewApp (base.go), parsed by Go's  *)
(* flag package.                                                           *)
(*                                                                         *)
(* An argument is a record: the executable, "--restart", a boolean flag    *)
(* such as "--cli", another string flag ("--launcher", "--log-level"), a   *)
(* decimal number, or a word that is not a number.                         *)
(* strconv.Atoi and strconv.Itoa become the field n.  The "--restart=<n>"  *)
(* form, which nothing in the application writes, is left out.            *)
(***************************************************************************)
EXTENDS Naturals, Sequences, SequencesExt

CONSTANTS
  MaxValue,      \* largest number written on a command line
  MaxArgs        \* bound on the number of arguments after the executable

Exe          == [kind |-> "exe", n |-> 0]
RestartToken == [kind |-> "restart", n |-> 0]
BoolFlag     == [kind |-> "flag", n |-> 0]
StrFlag      == [kind |-> "string", n |-> 0]
Word         == [kind |-> "word", n |-> 0]
Num(k)       == [kind |-> "num", n |-> k]

Args == {RestartToken, BoolFlag, StrFlag, Word} \cup {Num(k) : k \in 0..MaxValue}

VARIABLE args    \* os.Args of a process

(***************************************************************************)
(* Translation of the code                                                 *)
(***************************************************************************)
\* The new value of the argument after a "--restart": Atoi, then n + 1 or
\* "1" when the argument is not a number.
Bump(v) == IF v.kind = "num" THEN Num(v.n + 1) ELSE Num(1)

\* Mutant: the loop stops after the first "--restart".
IncrementRestartFlagFirstOnly(a) ==
  LET ks == {k \in DOMAIN a : a[k] = RestartToken /\ k + 1 <= Len(a)}
      k0 == CHOOSE k \in ks : \A j \in ks : k <= j
  IN IF \E k \in DOMAIN a : a[k] = RestartToken
     THEN IF ks = {} THEN a ELSE [a EXCEPT ![k0 + 1] = Bump(a[k0 + 1])]
     ELSE a \o <<RestartToken, Num(1)>>

\* incrementRestartFlag.  The range loop reads res[k] after the earlier
\* iterations rewrote it, so a "--restart" that is the value of the one
\* before it has become a number when its turn comes.
IncrementRestartFlag(a) ==
  LET RECURSIVE Loop(_, _)
      Loop(res, k) ==
        IF k > Len(res) THEN res
        ELSE IF res[k] # RestartToken \/ k + 1 > Len(res)
             THEN Loop(res, k + 1)
             ELSE Loop([res EXCEPT ![k + 1] = Bump(res[k + 1])], k + 1)
  IN IF \E k \in DOMAIN a : a[k] = RestartToken
     THEN Loop(a, 1)
     ELSE a \o <<RestartToken, Num(1)>>

(***************************************************************************)
(* How the next process reads the flag.  Base.NewApp declares the flags:   *)
(* "cpu-prof", "mem-prof" and "cli" are BoolFlags; "log-level", "restart"  *)
(* and "launcher" are StringFlags, which take the next argument as their   *)
(* value whatever it is.  The rest is Go's flag package under urfave/cli   *)
(* (not part of this repository): flags are parsed left to right, the last *)
(* occurrence wins, a string flag with no argument left is an error, and   *)
(* parsing stops at the first argument that is not a flag: it and all that *)
(* follow are positional arguments, which the app's Action ignores.  c.Int *)
(* parses the value and gives 0 when it is not a number.                   *)
(***************************************************************************)
TakesValue(t) == t.kind \in {"restart", "string"}

IntValue(v) == IF v.kind = "num" THEN v.n ELSE 0

ParseFlags(a) ==
  LET RECURSIVE P(_, _)
      P(i, v) ==
        IF i > Len(a) THEN [status |-> "ok", restart |-> v, positional |-> FALSE]
        ELSE CASE TakesValue(a[i]) /\ i + 1 > Len(a) ->
                    [status |-> "error", restart |-> v, positional |-> FALSE]
               [] a[i].kind = "restart" -> P(i + 2, IntValue(a[i + 1]))
               [] a[i].kind = "string"  -> P(i + 2, v)
               [] a[i].kind = "flag"    -> P(i + 1, v)
               [] OTHER -> [status |-> "ok", restart |-> v, positional |-> TRUE]
  IN P(2, 0)

\* A command line the application runs with: app.Run does not fail.
Accepted(a) == ParseFlags(a).status = "ok"

\* Flag parsing stopped before the end of the command line.
HasPositional(a) == ParseFlags(a).positional

RestartCount(a) == ParseFlags(a).restart

(***************************************************************************)
(* Specification: one command line, chosen among all bounded ones.         *)
(***************************************************************************)
Init == args \in {<<Exe>> \o s : s \in BoundedSeq(Args, MaxArgs)}

Next == UNCHANGED args

Spec == Init /\ [][Next]_args

(***************************************************************************)
(* Properties                                                              *)
(***************************************************************************)
(* For every command line the application accepts whose arguments are    *)
(* all flags and flag values, the command line a crash restart passes on  *)
(* is of the same kind and reads back a restart count one higher: the     *)
(* counter Base.run compares with maxAllowedRestarts advances by exactly  *)
(* one per crash.                                                         *)
RestartCountAdvances ==
  Accepted(args) /\ ~HasPositional(args) =>
    /\ Accepted(IncrementRestartFlag(args))
    /\ ~HasPositional(IncrementRestartFlag(args))
    /\ RestartCount(IncrementRestartFlag(args)) = RestartCount(args) + 1
=============================================================================
