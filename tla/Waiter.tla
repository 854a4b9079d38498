------------------------------- MODULE Waiter -------------------------------
(***************************************************************************)
(* Running functors in goroutines and waiting for them:                    *)
(* src/pkg/util/logutils/logutils.go.  Almost every long operation of ocne *)
(* goes through WaitFor, which runs all of its functors at once and polls  *)
(* them, or WaitForSerial, which runs them one after another.  A goroutine *)
(* publishes the end of its functor in two fields of its Waiter, under the *)
(* Waiter's mutex.                                                         *)
(*                                                                         *)
(* A Waiter is its index in the slice the caller gave, and a slice is the  *)
(* set of its indices: loops take the least one first.  Messages and the   *)
(* half second between two polls are left out.                             *)
(***************************************************************************)
EXTENDS Naturals

CONSTANT N   \* the longest slice of waiters

ASSUME WaiterAssumption == N \in Nat

Waiters == 1 .. N

VARIABLES
    mode,        \* which function was called
    asked,       \* the slice the caller gave
    at,          \* how far the function is
    left,        \* its variable waiters: those not known to be done
    scan,        \* WaitFor: those this round has still to look at
    notDone,     \* WaitFor: those this round found running
    haveError,   \* its result
    run,         \* the goroutine of each waiter
    err,         \* the functor's result, local to the goroutine
    done, Error  \* the fields of each waiter: TRUE in Error is an error

callerVars == <<mode, asked, at, left, scan, notDone, haveError>>
waiterVars == <<mode, asked, at, left, scan, notDone, haveError, run, err, done, Error>>

No == [w \in Waiters |-> FALSE]

WaiterTypeOK ==
    /\ mode \in {"WaitFor", "WaitForSerial"}
    /\ asked \in SUBSET Waiters
    /\ at \in {"call", "next", "poll", "round", "look", "returned"}
    /\ left \in SUBSET Waiters
    /\ scan \in SUBSET Waiters
    /\ notDone \in SUBSET Waiters
    /\ haveError \in BOOLEAN
    /\ run \in [Waiters -> {"new", "running", "ended", "published"}]
    /\ err \in [Waiters -> BOOLEAN]
    /\ done \in [Waiters -> BOOLEAN]
    /\ Error \in [Waiters -> BOOLEAN]

WaiterInit ==
    /\ mode \in {"WaitFor", "WaitForSerial"}
    /\ asked \in SUBSET Waiters
    /\ at = "call"
    /\ left = asked
    /\ scan = {}
    /\ notDone = {}
    /\ haveError = FALSE
    /\ run = [w \in Waiters |-> "new"]
    /\ err = No
    /\ done = No
    /\ Error = No

-----------------------------------------------------------------------------
(***************************************************************************)
(* The goroutine of a waiter: waitWithStatus.                              *)
(***************************************************************************)

FunctorReturns(w, e) ==
    /\ run[w] = "running"
    /\ run' = [run EXCEPT ![w] = "ended"]
    /\ err' = [err EXCEPT ![w] = e]
    /\ UNCHANGED <<callerVars, done, Error>>

\* Both fields are written while the mutex is held.
MutantPublish(w) ==
    /\ run[w] = "ended"
    /\ run' = [run EXCEPT ![w] = "published"]
    /\ done' = [done EXCEPT ![w] = TRUE]
    /\ UNCHANGED <<callerVars, err, Error>>

Publish(w) ==
    /\ run[w] = "ended"
    /\ run' = [run EXCEPT ![w] = "published"]
    /\ done' = [done EXCEPT ![w] = TRUE]
    /\ Error' = [Error EXCEPT ![w] = err[w]]
    /\ UNCHANGED <<callerVars, err>>

-----------------------------------------------------------------------------
(***************************************************************************)
(* The caller.  Both functions first ask whether stdout is a terminal, and *)
(* when that fails return true without running anything.                   *)
(***************************************************************************)

NoTerminal ==
    /\ at = "call"
    /\ at' = "returned"
    /\ haveError' = TRUE
    /\ UNCHANGED <<mode, asked, left, scan, notDone, run, err, done, Error>>

Begin ==
    /\ at = "call"
    /\ IF mode = "WaitFor"
         THEN /\ at' = "round"
              /\ run' = [w \in Waiters |-> IF w \in left THEN "running" ELSE run[w]]
         ELSE /\ at' = "next"
              /\ UNCHANGED run
    /\ UNCHANGED <<mode, asked, left, scan, notDone, haveError, err, done, Error>>

Return ==
    /\ at \in {"round", "next"}
    /\ left = {}
    /\ at' = "returned"
    /\ UNCHANGED <<mode, asked, left, scan, notDone, haveError, run, err, done, Error>>

\* WaitFor: one round looks at every waiter in turn, each under its mutex.
Round ==
    /\ at = "round"
    /\ left # {}
    /\ at' = "look"
    /\ scan' = left
    /\ notDone' = {}
    /\ UNCHANGED <<mode, asked, left, haveError, run, err, done, Error>>

Look ==
    /\ at = "look"
    /\ \E w \in scan :
         /\ \A v \in scan : w <= v
         /\ scan' = scan \ {w}
         /\ notDone' = IF done[w] THEN notDone ELSE notDone \cup {w}
         /\ haveError' = (haveError \/ Error[w])
    /\ UNCHANGED <<mode, asked, at, left, run, err, done, Error>>

MutantRoundEnds ==
    /\ at = "look"
    /\ scan = {}
    /\ at' = "round"
    /\ UNCHANGED <<mode, asked, left, scan, notDone, haveError, run, err, done, Error>>

RoundEnds ==
    /\ at = "look"
    /\ scan = {}
    /\ at' = "round"
    /\ left' = notDone
    /\ UNCHANGED <<mode, asked, scan, notDone, haveError, run, err, done, Error>>

\* WaitForSerial: start the first functor that is left.
StartFirst ==
    /\ at = "next"
    /\ \E w \in left :
         /\ \A v \in left : w <= v
         /\ run' = [run EXCEPT ![w] = "running"]
    /\ at' = "poll"
    /\ UNCHANGED <<mode, asked, left, scan, notDone, haveError, err, done, Error>>

\* It goes on past a functor that failed.
MutantPoll ==
    /\ at = "poll"
    /\ \E w \in left :
         /\ \A v \in left : w <= v
         /\ run[w] # "new"
         /\ haveError' = (haveError \/ Error[w])
         /\ left' = left \ {w}
    /\ at' = "next"
    /\ UNCHANGED <<mode, asked, scan, notDone, run, err, done, Error>>

Poll ==
    /\ at = "poll"
    /\ \E w \in left :
         /\ \A v \in left : w <= v
         /\ done[w]
         /\ haveError' = (haveError \/ Error[w])
         /\ left' = left \ {w}
    /\ at' = "next"
    /\ UNCHANGED <<mode, asked, scan, notDone, run, err, done, Error>>

Caller == Begin \/ Return \/ Round \/ Look \/ RoundEnds \/ StartFirst \/ Poll

WaiterNext ==
    \/ NoTerminal
    \/ Caller
    \/ \E w \in Waiters : Publish(w) \/ \E e \in BOOLEAN : FunctorReturns(w, e)

\* The Go scheduler runs every goroutine that can run.  Nothing is assumed
\* of the functors: one may never return.
WaiterFairness == WF_waiterVars(Caller) /\ \A w \in Waiters : WF_waiterVars(Publish(w))

WaiterSpec == WaiterInit /\ [][WaiterNext]_waiterVars /\ WaiterFairness

-----------------------------------------------------------------------------
\* Stdout could not be examined: nothing was run.
notRun == haveError /\ \A w \in Waiters : run[w] = "new"

(***************************************************************************)
(* WaitFor and WaitForSerial return when, and only when, every functor has *)
(* returned, and return true exactly if one of them failed: no error is    *)
(* lost between a goroutine's two assignments and the caller's reads.      *)
(***************************************************************************)
ReportsFailures ==
    at = "returned" =>
        \/ notRun
        \/ /\ \A w \in asked : run[w] = "published"
           /\ haveError <=> \E w \in asked : err[w]

(***************************************************************************)
(* WaitForSerial runs one functor at a time, in the order of the slice: a  *)
(* functor that has begun finds every earlier one returned.  Applications  *)
(* are installed in dependency order this way.                             *)
(***************************************************************************)
SerialInOrder ==
    mode = "WaitForSerial" =>
        \A v, w \in asked : v < w /\ run[w] # "new" => run[v] = "published"

(***************************************************************************)
(* If no functor runs forever, the call returns.                           *)
(***************************************************************************)
ReturnsAtTheEnd ==
    (\A w \in Waiters : []<>(run[w] # "running")) => <>(at = "returned")

(***************************************************************************)
(* What each place of the caller knows of the goroutines: a waiter that    *)
(* was taken out of the slice has published its end, and haveError is the  *)
(* disjunction of their errors; in a round of WaitFor, the same of those   *)
(* it found done, and a waiter's error may only be seen after its end.     *)
(***************************************************************************)
waitedFor == IF at = "look" THEN asked \ (scan \cup notDone) ELSE asked \ left

GoroutineInv ==
    \A w \in Waiters :
        /\ done[w] <=> run[w] = "published"
        /\ Error[w] = (done[w] /\ err[w])
        /\ run[w] \in {"new", "running"} => ~err[w]
        /\ run[w] # "new" => w \in asked

SliceInv ==
    /\ left \subseteq asked
    /\ at = "look" => scan \subseteq left /\ notDone \subseteq left /\ scan \cap notDone = {}
    /\ at \in {"round", "look"} => mode = "WaitFor"
    /\ at \in {"next", "poll"} => mode = "WaitForSerial"
    /\ at = "call" => left = asked /\ ~haveError
    /\ at = "returned" => left = {} \/ notRun

ProgressInv ==
    /\ at = "call" => \A w \in Waiters : run[w] = "new"
    /\ at \in {"round", "look"} => \A w \in left : run[w] # "new"
    /\ at \in {"next", "poll", "returned"} /\ mode = "WaitForSerial" =>
          \A v, w \in left : v < w => run[w] = "new"
    /\ at = "next" => \A w \in left : run[w] = "new"
    /\ at = "poll" => \E w \in left : run[w] # "new"
    /\ at \notin {"call", "returned"} =>
          /\ \A w \in waitedFor : run[w] = "published"
          /\ haveError => \E w \in asked : err[w]
          /\ (\E w \in waitedFor : err[w]) => haveError
    /\ mode = "WaitForSerial" => \A w \in asked \ left, v \in left : w < v

WaiterInv == WaiterTypeOK /\ GoroutineInv /\ SliceInv /\ ProgressInv /\ ReportsFailures
=============================================================================
