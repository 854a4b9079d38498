------------------------ MODULE AppsAndNodes_proofs -------------------------
(***************************************************************************)
(* Theorems about what runs inside a cluster: Waiter for slices of any     *)
(* length, AppInstall for any number of applications, catalogs and commands, *)
(* and NodeUpgrade for any number of nodes, processes and versions.        *)
(***************************************************************************)
EXTENDS AppInstall, NodeUpgrade, TLAPS

-----------------------------------------------------------------------------
(***************************************************************************)
(* Waiter, and AppInstall whose functors it runs, with every fault and kill, *)
(* as long as no other namespace has a release of the same name.           *)
(***************************************************************************)

-----------------------------------------------------------------------------
(* WaitFor and WaitForSerial.                                                *)

\* The initial states satisfy the invariant.
LEMMA InitInv == WaiterInit => WaiterInv
  BY DEF WaiterInit, WaiterInv, WaiterTypeOK, GoroutineInv, SliceInv, ProgressInv,
         ReportsFailures, notRun, waitedFor, No, Waiters

\* A step of a goroutine keeps the invariant.
LEMMA GoroutineKeeps ==
    ASSUME WaiterInv, NEW w \in Waiters,
           Publish(w) \/ \E e \in BOOLEAN : FunctorReturns(w, e)
    PROVE  WaiterInv'
<1> USE WaiterAssumption DEF WaiterInv, callerVars
<1>1. CASE Publish(w)
  <2> USE <1>1 DEF Publish
  <2>1. WaiterTypeOK'
    BY DEF WaiterTypeOK
  <2>2. GoroutineInv'
    BY DEF GoroutineInv, WaiterTypeOK
  <2>3. SliceInv'
    BY DEF SliceInv, WaiterTypeOK, notRun
  <2>4. ProgressInv'
    BY DEF ProgressInv, WaiterTypeOK, waitedFor, GoroutineInv, SliceInv
  <2>5. ReportsFailures'
    BY DEF ReportsFailures, WaiterTypeOK, notRun
  <2> QED BY <2>1, <2>2, <2>3, <2>4, <2>5
<1>2. CASE \E e \in BOOLEAN : FunctorReturns(w, e)
  <2>0. PICK e \in BOOLEAN : FunctorReturns(w, e)
    BY <1>2
  <2> USE <2>0 DEF FunctorReturns
  <2>1. WaiterTypeOK'
    BY DEF WaiterTypeOK
  <2>2. GoroutineInv'
    BY DEF GoroutineInv, WaiterTypeOK
  <2>3. SliceInv'
    BY DEF SliceInv, WaiterTypeOK, notRun
  <2>4. ProgressInv'
    BY DEF ProgressInv, WaiterTypeOK, waitedFor, GoroutineInv, SliceInv
  <2>5. ReportsFailures'
    BY DEF ReportsFailures, WaiterTypeOK, notRun, SliceInv, GoroutineInv
  <2> QED BY <2>1, <2>2, <2>3, <2>4, <2>5
<1> QED BY <1>1, <1>2


\* A call that cannot examine stdout keeps the invariant.
LEMMA NoTerminalKeeps == WaiterInv /\ NoTerminal => WaiterInv'
<1> SUFFICES ASSUME WaiterInv, NoTerminal PROVE WaiterInv'
  OBVIOUS
<1> USE WaiterAssumption DEF WaiterInv, NoTerminal
<1>1. WaiterTypeOK'
  BY DEF WaiterTypeOK, Waiters
<1>2. GoroutineInv'
  BY DEF GoroutineInv, WaiterTypeOK, ProgressInv, SliceInv
<1>3. SliceInv'
  BY DEF SliceInv, WaiterTypeOK, notRun, ProgressInv
<1>4. ProgressInv'
  BY DEF ProgressInv, WaiterTypeOK, waitedFor, GoroutineInv, SliceInv, Waiters
<1>5. ReportsFailures'
  BY DEF ReportsFailures, WaiterTypeOK, notRun, ProgressInv, waitedFor, GoroutineInv, SliceInv
<1> QED BY <1>1, <1>2, <1>3, <1>4, <1>5

\* The first step of a call keeps the invariant.
LEMMA BeginKeeps == WaiterInv /\ Begin => WaiterInv'
<1> SUFFICES ASSUME WaiterInv, Begin PROVE WaiterInv'
  OBVIOUS
<1> USE WaiterAssumption DEF WaiterInv, Begin
<1>1. WaiterTypeOK'
  BY DEF WaiterTypeOK, Waiters
<1>2. GoroutineInv'
  BY DEF GoroutineInv, WaiterTypeOK, ProgressInv, SliceInv
<1>3. SliceInv'
  BY DEF SliceInv, WaiterTypeOK, notRun, ProgressInv
<1>4. ProgressInv'
  BY DEF ProgressInv, WaiterTypeOK, waitedFor, GoroutineInv, SliceInv, Waiters
<1>5. ReportsFailures'
  BY DEF ReportsFailures, WaiterTypeOK, notRun, ProgressInv, waitedFor, GoroutineInv, SliceInv
<1> QED BY <1>1, <1>2, <1>3, <1>4, <1>5

\* Returning keeps the invariant: the slice is empty, so every functor was waited for.
LEMMA ReturnKeeps == WaiterInv /\ Return => WaiterInv'
<1> SUFFICES ASSUME WaiterInv, Return PROVE WaiterInv'
  OBVIOUS
<1> USE WaiterAssumption DEF WaiterInv, Return
<1>1. WaiterTypeOK'
  BY DEF WaiterTypeOK, Waiters
<1>2. GoroutineInv'
  BY DEF GoroutineInv, WaiterTypeOK, ProgressInv, SliceInv
<1>3. SliceInv'
  BY DEF SliceInv, WaiterTypeOK, notRun, ProgressInv
<1>4. ProgressInv'
  BY DEF ProgressInv, WaiterTypeOK, waitedFor, GoroutineInv, SliceInv, Waiters
<1>5. ReportsFailures'
  BY DEF ReportsFailures, WaiterTypeOK, notRun, ProgressInv, waitedFor, GoroutineInv, SliceInv
<1> QED BY <1>1, <1>2, <1>3, <1>4, <1>5

\* A new round of WaitFor keeps the invariant.
LEMMA RoundKeeps == WaiterInv /\ Round => WaiterInv'
<1> SUFFICES ASSUME WaiterInv, Round PROVE WaiterInv'
  OBVIOUS
<1> USE WaiterAssumption DEF WaiterInv, Round
<1>1. WaiterTypeOK'
  BY DEF WaiterTypeOK, Waiters
<1>2. GoroutineInv'
  BY DEF GoroutineInv, WaiterTypeOK, ProgressInv, SliceInv
<1>3. SliceInv'
  BY DEF SliceInv, WaiterTypeOK, notRun, ProgressInv
<1>4. ProgressInv'
  BY DEF ProgressInv, WaiterTypeOK, waitedFor, GoroutineInv, SliceInv, Waiters
<1>5. ReportsFailures'
  BY DEF ReportsFailures, WaiterTypeOK, notRun, ProgressInv, waitedFor, GoroutineInv, SliceInv
<1> QED BY <1>1, <1>2, <1>3, <1>4, <1>5

\* Looking at one waiter keeps the invariant.
LEMMA LookKeeps == WaiterInv /\ Look => WaiterInv'
<1> SUFFICES ASSUME WaiterInv, Look PROVE WaiterInv'
  OBVIOUS
<1> USE WaiterAssumption DEF WaiterInv, Look
<1>1. WaiterTypeOK'
  BY DEF WaiterTypeOK, Waiters
<1>2. GoroutineInv'
  BY DEF GoroutineInv, WaiterTypeOK, ProgressInv, SliceInv
<1>3. SliceInv'
  BY DEF SliceInv, WaiterTypeOK, notRun, ProgressInv
<1>4. ProgressInv'
  BY DEF ProgressInv, WaiterTypeOK, waitedFor, GoroutineInv, SliceInv, Waiters
<1>5. ReportsFailures'
  BY DEF ReportsFailures, WaiterTypeOK, notRun, ProgressInv, waitedFor, GoroutineInv, SliceInv
<1> QED BY <1>1, <1>2, <1>3, <1>4, <1>5

\* The end of a round keeps the invariant.
LEMMA RoundEndsKeeps == WaiterInv /\ RoundEnds => WaiterInv'
<1> SUFFICES ASSUME WaiterInv, RoundEnds PROVE WaiterInv'
  OBVIOUS
<1> USE WaiterAssumption DEF WaiterInv, RoundEnds
<1>1. WaiterTypeOK'
  BY DEF WaiterTypeOK, Waiters
<1>2. GoroutineInv'
  BY DEF GoroutineInv, WaiterTypeOK, ProgressInv, SliceInv
<1>3. SliceInv'
  BY DEF SliceInv, WaiterTypeOK, notRun, ProgressInv
<1>4. ProgressInv'
  BY DEF ProgressInv, WaiterTypeOK, waitedFor, GoroutineInv, SliceInv, Waiters
<1>5. ReportsFailures'
  BY DEF ReportsFailures, WaiterTypeOK, notRun, ProgressInv, waitedFor, GoroutineInv, SliceInv
<1> QED BY <1>1, <1>2, <1>3, <1>4, <1>5

\* Starting the next functor of WaitForSerial keeps the invariant.
LEMMA StartFirstKeeps == WaiterInv /\ StartFirst => WaiterInv'
<1> SUFFICES ASSUME WaiterInv, StartFirst PROVE WaiterInv'
  OBVIOUS
<1> USE WaiterAssumption DEF WaiterInv, StartFirst
<1>1. WaiterTypeOK'
  BY DEF WaiterTypeOK, Waiters
<1>2. GoroutineInv'
  BY DEF GoroutineInv, WaiterTypeOK, ProgressInv, SliceInv
<1>3. SliceInv'
  BY DEF SliceInv, WaiterTypeOK, notRun, ProgressInv
<1>4. ProgressInv'
  BY DEF ProgressInv, WaiterTypeOK, waitedFor, GoroutineInv, SliceInv, Waiters
<1>5. ReportsFailures'
  BY DEF ReportsFailures, WaiterTypeOK, notRun, ProgressInv, waitedFor, GoroutineInv, SliceInv
<1> QED BY <1>1, <1>2, <1>3, <1>4, <1>5

\* Taking a finished functor off the slice of WaitForSerial keeps the invariant.
LEMMA PollKeeps == WaiterInv /\ Poll => WaiterInv'
<1> SUFFICES ASSUME WaiterInv, Poll PROVE WaiterInv'
  OBVIOUS
<1> USE WaiterAssumption DEF WaiterInv, Poll
<1>1. WaiterTypeOK'
  BY DEF WaiterTypeOK, Waiters
<1>2. GoroutineInv'
  BY DEF GoroutineInv, WaiterTypeOK, ProgressInv, SliceInv
<1>3. SliceInv'
  BY DEF SliceInv, WaiterTypeOK, notRun, ProgressInv
<1>4. ProgressInv'
  BY DEF ProgressInv, WaiterTypeOK, waitedFor, GoroutineInv, SliceInv, Waiters
<1>5. ReportsFailures'
  BY DEF ReportsFailures, WaiterTypeOK, notRun, ProgressInv, waitedFor, GoroutineInv, SliceInv
<1> QED BY <1>1, <1>2, <1>3, <1>4, <1>5

\* Every step keeps the invariant.
LEMMA NextKeeps == WaiterInv /\ [WaiterNext]_waiterVars => WaiterInv'
<1> SUFFICES ASSUME WaiterInv, [WaiterNext]_waiterVars PROVE WaiterInv'
  OBVIOUS
<1>1. CASE UNCHANGED waiterVars
  BY <1>1 DEF waiterVars, WaiterInv, WaiterTypeOK, GoroutineInv, SliceInv, ProgressInv,
              ReportsFailures, notRun, waitedFor
<1>2. CASE NoTerminal
  BY <1>2, NoTerminalKeeps
<1>3. CASE Caller
  BY <1>3, BeginKeeps, ReturnKeeps, RoundKeeps, LookKeeps, RoundEndsKeeps, StartFirstKeeps,
     PollKeeps DEF Caller
<1>4. CASE \E w \in Waiters : Publish(w) \/ \E e \in BOOLEAN : FunctorReturns(w, e)
  BY <1>4, GoroutineKeeps
<1> QED BY <1>1, <1>2, <1>3, <1>4 DEF WaiterNext

(***************************************************************************)
(* For slices of every length, what the caller knows of the goroutines     *)
(* (waitWithStatus) stays true at each of its places.                      *)
(***************************************************************************)
THEOREM WaiterInvHolds == WaiterSpec => []WaiterInv
<1>1. WaiterInit => WaiterInv
  BY InitInv
<1>2. WaiterInv /\ [WaiterNext]_waiterVars => WaiterInv'
  BY NextKeeps
<1> QED BY <1>1, <1>2, PTL DEF WaiterSpec

(***************************************************************************)
(* WaitFor and WaitForSerial return true exactly if a functor failed, and  *)
(* not before all of them returned.                                        *)
(***************************************************************************)
THEOREM FailuresAreReported == WaiterSpec => []ReportsFailures
<1>1. WaiterInv => ReportsFailures
  BY DEF WaiterInv
<1> QED BY <1>1, WaiterInvHolds, PTL

(***************************************************************************)
(* WaitForSerial runs its functors one at a time and in order.             *)
(***************************************************************************)
THEOREM SerialKeepsOrder == WaiterSpec => []SerialInOrder
<1>1. WaiterInv => SerialInOrder
  <2> SUFFICES ASSUME WaiterInv, mode = "WaitForSerial",
                      NEW v \in asked, NEW w \in asked, v < w, run[w] # "new"
               PROVE  run[v] = "published"
    BY DEF SerialInOrder
  <2>1. v \in Nat /\ w \in Nat
    BY WaiterAssumption DEF WaiterInv, WaiterTypeOK, Waiters
  <2>2. at \in {"next", "poll", "returned"}
    BY DEF WaiterInv, WaiterTypeOK, ProgressInv, SliceInv
  <2>3. v \notin left
    BY <2>1, <2>2 DEF WaiterInv, ProgressInv
  <2>4. CASE at = "returned"
    BY <2>4 DEF WaiterInv, ReportsFailures, notRun, WaiterTypeOK
  <2>5. CASE at # "returned"
    BY <2>2, <2>3, <2>5 DEF WaiterInv, ProgressInv, waitedFor
  <2> QED BY <2>4, <2>5
<1> QED BY <1>1, WaiterInvHolds, PTL

-----------------------------------------------------------------------------
(* The applications of a start or an update.                                 *)

\* A new call of WaitForSerial satisfies the invariant of Waiter.
LEMMA FreshCall ==
    ASSUME NEW S, S \subseteq Apps, waitForSerial(S)
    PROVE  WaiterInv' /\ mode' = "WaitForSerial" /\ asked' = S /\ (\A a \in Apps : run'[a] = "new")
  BY DEF waitForSerial, WaiterInv, WaiterTypeOK, GoroutineInv, SliceInv, ProgressInv,
         ReportsFailures, notRun, waitedFor, No, Apps, Waiters

\* The initial states satisfy the invariant.
LEMMA AppInitInv == Init => AppInv
<1> SUFFICES ASSUME Init PROVE AppInv
  OBVIOUS
<1> USE AppAssumption, WaiterAssumption DEF Init
<1>1. WaiterInv
  BY InitInv
<1>2. TypeOK
  <2>1. commands \in 0 .. MaxCommands
    BY DEF AppAssumption
  <2> QED BY <1>1, <2>1 DEF TypeOK, WaiterInv, Apps
<1>3. FunctorInv /\ CommandInv /\ StartedHasReleases
  BY DEF FunctorInv, CommandInv, StartedHasReleases, Apps
<1> QED BY <1>1, <1>2, <1>3 DEF AppInv

\* A command that ends without success keeps the invariant.
LEMMA EndKeeps ==
    ASSUME AppInv, NEW r \in {"started", "updated", "error", "killed"}, end(r), UNCHANGED release,
           r = "started" => \A a \in Apps : release[a] # "none"
    PROVE  AppInv'
<1> USE AppAssumption, WaiterAssumption DEF AppInv, end
<1>1. WaiterInv' /\ mode' = "WaitForSerial" /\ asked' = {} /\ (\A a \in Apps : run'[a] = "new")
  BY FreshCall
<1>2. TypeOK'
  BY <1>1 DEF TypeOK, WaiterInv
<1>3. FunctorInv'
  BY <1>1 DEF FunctorInv
<1>4. CommandInv' /\ StartedHasReleases'
  BY DEF CommandInv, StartedHasReleases, TypeOK
<1> QED BY <1>1, <1>2, <1>3, <1>4

\* What InstallApplications tells its caller: when it returns no error, every
\* application that was given to it has a release.
LEMMA InstalledAll ==
    ASSUME AppInv, at = "returned", ~haveError
    PROVE  \A a \in asked : release[a] # "none"
  BY DEF AppInv, FunctorInv, WaiterInv, ReportsFailures, notRun, TypeOK, WaiterTypeOK

\* The steps of a command between its calls of InstallApplications.
LEMMA CommandKeeps ==
    ASSUME AppInv,
           BeginStart \/ ListReleases \/ BuiltInDone \/ CatalogsToAdd \/ AddCatalog
             \/ AddCatalogRefused \/ CatalogsAdded \/ Started \/ Updated \/ NotInstalled
             \/ CommandFails \/ Kill \/ \E a \in BuiltIn : BeginUpdate(a)
    PROVE  AppInv'
<1> USE AppAssumption, WaiterAssumption DEF AppInv
<1> BuiltIn \subseteq Apps /\ Configured \subseteq Apps
  BY DEF BuiltIn, Configured, Apps, Waiters
<1>a. UNCHANGED waiterVars => WaiterInv' /\ WaiterTypeOK'
  BY NextKeeps DEF WaiterInv
<1>1. CASE BeginStart
  <2>0. commands' \in 0 .. MaxCommands
    BY <1>1 DEF BeginStart, TypeOK, AppAssumption
  <2>1. TypeOK'
    BY <1>1, <1>a, <2>0 DEF BeginStart, TypeOK
  <2>2. FunctorInv' /\ CommandInv' /\ StartedHasReleases'
    BY <1>1 DEF BeginStart, FunctorInv, CommandInv, StartedHasReleases, waiterVars, getAppsToInstall, matches
  <2> QED BY <1>1, <1>a, <2>1, <2>2 DEF BeginStart
<1>2. CASE ListReleases
  <2> DEFINE S == {a \in BuiltIn : a \notin releases' \ (Unnamed \cup Unplaced)}
  <2>1. S \subseteq Apps /\ waitForSerial(S)
    BY <1>2 DEF ListReleases, getAppsToInstall, matches
  <2> HIDE DEF S
  <2>2. WaiterInv' /\ mode' = "WaitForSerial" /\ asked' = S /\ (\A a \in Apps : run'[a] = "new")
    BY <2>1, FreshCall
  <2>3. TypeOK'
    BY <1>2, <2>2 DEF ListReleases, TypeOK, WaiterInv
  <2>4. FunctorInv'
    BY <1>2, <2>1, <2>2 DEF ListReleases, FunctorInv
  <2>5. CommandInv' /\ StartedHasReleases'
    BY <1>2, <2>2 DEF ListReleases, CommandInv, StartedHasReleases, getAppsToInstall, matches, S, TypeOK
  <2> QED BY <2>2, <2>3, <2>4, <2>5
<1>3. CASE BuiltInDone
  <2>1. TypeOK'
    BY <1>3, <1>a DEF BuiltInDone, TypeOK
  <2>2. \A a \in BuiltIn : release[a] # "none"
    BY <1>3, InstalledAll DEF BuiltInDone, CommandInv, getAppsToInstall, matches
  <2>3. FunctorInv' /\ CommandInv' /\ StartedHasReleases'
    BY <1>3, <2>2 DEF BuiltInDone, FunctorInv, CommandInv, StartedHasReleases, waiterVars
  <2> QED BY <1>3, <1>a, <2>1, <2>3 DEF BuiltInDone
<1>4. CASE CatalogsToAdd
  <2>1. TypeOK'
    BY <1>4, <1>a DEF CatalogsToAdd, TypeOK, getCatalogsToAdd
  <2>2. FunctorInv' /\ CommandInv' /\ StartedHasReleases'
    BY <1>4 DEF CatalogsToAdd, FunctorInv, CommandInv, StartedHasReleases, waiterVars
  <2> QED BY <1>4, <1>a, <2>1, <2>2 DEF CatalogsToAdd
<1>5. CASE AddCatalog
  <2>1. TypeOK'
    BY <1>5, <1>a DEF AddCatalog, TypeOK
  <2>2. FunctorInv' /\ CommandInv' /\ StartedHasReleases'
    BY <1>5 DEF AddCatalog, FunctorInv, CommandInv, StartedHasReleases, waiterVars
  <2> QED BY <1>5, <1>a, <2>1, <2>2 DEF AddCatalog
<1>6. CASE CatalogsAdded
  <2> DEFINE S == getAppsToInstall(Configured)
  <2>1. S \subseteq Apps /\ waitForSerial(S)
    BY <1>6 DEF CatalogsAdded, getAppsToInstall, matches
  <2> HIDE DEF S
  <2>2. WaiterInv' /\ mode' = "WaitForSerial" /\ asked' = S /\ (\A a \in Apps : run'[a] = "new")
    BY <2>1, FreshCall
  <2>3. TypeOK'
    BY <1>6, <2>2 DEF CatalogsAdded, TypeOK, WaiterInv
  <2>4. FunctorInv'
    BY <1>6, <2>1, <2>2 DEF CatalogsAdded, FunctorInv
  <2>5. CommandInv' /\ StartedHasReleases'
    BY <1>6, <2>2 DEF CatalogsAdded, CommandInv, StartedHasReleases, getAppsToInstall, matches, S
  <2> QED BY <2>2, <2>3, <2>4, <2>5
<1>7. CASE Started
  <2>1. \A a \in Apps : release[a] # "none"
    BY <1>7, InstalledAll DEF Started, CommandInv, getAppsToInstall, matches, Configured
  <2> QED BY <1>7, <2>1, EndKeeps DEF Started
<1>8. CASE AddCatalogRefused \/ Updated \/ NotInstalled \/ CommandFails \/ Kill
  BY <1>8, EndKeeps DEF AddCatalogRefused, Updated, NotInstalled, CommandFails, Kill
<1>9. CASE \E a \in BuiltIn : BeginUpdate(a)
  <2>0. PICK a \in BuiltIn : BeginUpdate(a)
    BY <1>9
  <2>2. WaiterInv' /\ mode' = "WaitForSerial" /\ asked' = {a} /\ (\A b \in Apps : run'[b] = "new")
    BY <2>0, FreshCall DEF BeginUpdate
  <2>3. TypeOK'
    BY <2>0, <2>2 DEF BeginUpdate, TypeOK, WaiterInv
  <2>4. FunctorInv'
    BY <2>0, <2>2 DEF BeginUpdate, FunctorInv
  <2>5. CommandInv' /\ StartedHasReleases'
    BY <2>0 DEF BeginUpdate, CommandInv, StartedHasReleases
  <2> QED BY <2>2, <2>3, <2>4, <2>5
<1> QED BY <1>1, <1>2, <1>3, <1>4, <1>5, <1>6, <1>7, <1>8, <1>9

\* The steps of WaitForSerial and its goroutines.
LEMMA WaitsKeep == AppInv /\ (Waits \/ StartFunctor) => AppInv'
<1> SUFFICES ASSUME AppInv, Waits \/ StartFunctor PROVE AppInv'
  OBVIOUS
<1> USE AppAssumption, WaiterAssumption DEF AppInv
<1>1. CASE Waits
  <2>0. WaiterNext /\ UNCHANGED appVars
    BY <1>1 DEF Waits, WaiterNext, Caller, Apps
  <2>1. WaiterInv'
    BY <2>0, NextKeeps
  <2>2. TypeOK'
    BY <2>0, <2>1 DEF TypeOK, WaiterInv, appVars
  <2>3. FunctorInv'
    BY <1>1 DEF Waits, appVars, FunctorInv, Begin, Return, Poll, NoTerminal, Publish, callerVars,
                TypeOK, WaiterTypeOK, Apps
  <2>4. UNCHANGED asked
    BY <1>1 DEF Waits, Begin, Return, Poll, NoTerminal, Publish, callerVars
  <2>5. CommandInv' /\ StartedHasReleases'
    BY <2>0, <2>4 DEF appVars, CommandInv, StartedHasReleases, getAppsToInstall, matches
  <2> QED BY <2>1, <2>2, <2>3, <2>5
<1>2. CASE StartFunctor
  <2>1. WaiterInv'
    BY <1>2, StartFirstKeeps DEF StartFunctor
  <2>2. TypeOK'
    BY <1>2, <2>1 DEF StartFunctor, TypeOK, WaiterInv
  <2>3. FunctorInv'
    BY <1>2 DEF StartFunctor, FunctorInv, StartFirst, TypeOK, WaiterTypeOK
  <2>5. CommandInv' /\ StartedHasReleases'
    BY <1>2 DEF StartFunctor, StartFirst, CommandInv, StartedHasReleases, getAppsToInstall, matches
  <2> QED BY <2>1, <2>2, <2>3, <2>5
<1> QED BY <1>1, <1>2

\* A functor that returns keeps the invariant, if there is a release whenever
\* it returns no error.
LEMMA ReturnsKeeps ==
    ASSUME AppInv, NEW a \in Apps, NEW e \in BOOLEAN, returns(a, e),
           release' \in [Apps -> {"none", "pending", "failed", "deployed"}],
           \A b \in Apps : release[b] # "none" => release'[b] # "none",
           e \/ release'[a] # "none"
    PROVE  AppInv'
<1> USE AppAssumption, WaiterAssumption DEF AppInv, returns, otherVars
<1>1. WaiterInv'
  BY GoroutineKeeps DEF Apps
<1>2. TypeOK'
  BY <1>1 DEF TypeOK, WaiterInv
<1>3. FunctorInv'
  BY DEF FunctorInv, FunctorReturns, callerVars, TypeOK, WaiterTypeOK, Apps
<1>4. CommandInv' /\ StartedHasReleases'
  <2>1. BuiltIn \subseteq Apps
    BY DEF BuiltIn, Apps, Waiters
  <2> QED
    BY <2>1 DEF CommandInv, StartedHasReleases, FunctorReturns, callerVars, getAppsToInstall, matches, TypeOK
<1> QED BY <1>1, <1>2, <1>3, <1>4

\* The other steps of a functor, which end neither it nor a release.
LEMMA StepKeeps ==
    ASSUME AppInv, NEW s \in {"none", "search", "check", "prepare", "attempt", "helm", "retry"},
           step(s), expired' \in BOOLEAN,
           release' \in [Apps -> {"none", "pending", "failed", "deployed"}],
           \A b \in Apps : release[b] # "none" => release'[b] # "none",
           s = "helm" => \A b \in Apps : run[b] = "running" => release'[b] = "pending"
    PROVE  AppInv'
<1> USE AppAssumption, WaiterAssumption DEF AppInv, step, otherVars
<1>1. WaiterInv'
  BY NextKeeps
<1>2. TypeOK'
  BY <1>1 DEF TypeOK, WaiterInv
<1>3. FunctorInv'
  BY DEF FunctorInv, waiterVars, TypeOK, WaiterTypeOK, Apps
<1>4. CommandInv' /\ StartedHasReleases'
  <2>1. BuiltIn \subseteq Apps
    BY DEF BuiltIn, Apps, Waiters
  <2> QED
    BY <2>1 DEF CommandInv, StartedHasReleases, waiterVars, getAppsToInstall, matches, TypeOK
<1> QED BY <1>1, <1>2, <1>3, <1>4

\* WaitForSerial runs one functor at a time.
LEMMA OneRuns ==
    ASSUME AppInv, NEW a \in Apps, NEW b \in Apps, run[a] = "running", run[b] = "running"
    PROVE  a = b
<1> USE WaiterAssumption DEF AppInv, WaiterInv
<1>1. a \in asked /\ b \in asked /\ a \in Nat /\ b \in Nat
  BY DEF GoroutineInv, Apps, Waiters
<1>2. at \in {"next", "poll"}
  BY <1>1 DEF FunctorInv, WaiterTypeOK, SliceInv, ProgressInv, ReportsFailures, notRun, Apps
<1>3. a \in left /\ b \in left
  BY <1>1, <1>2 DEF ProgressInv, waitedFor
<1>4. \A v, w \in left : v < w => run[w] = "new"
  BY <1>2 DEF FunctorInv, ProgressInv
<1> QED BY <1>1, <1>3, <1>4

\* The steps of a functor keep the invariant.
LEMMA FunctorKeeps ==
    ASSUME Elsewhere = {}, AppInv, NEW a \in Apps, Functor(a)
    PROVE  AppInv'
<1> USE AppAssumption, WaiterAssumption
<1>0. release \in [Apps -> {"none", "pending", "failed", "deployed"}] /\ expired \in BOOLEAN
  BY DEF AppInv, TypeOK
<1>1. CASE Search(a) \/ GoOn(a) \/ Prepare(a) \/ InstallFails(a) \/ Retry(a)
  BY <1>0, <1>1, StepKeeps DEF Search, GoOn, Prepare, InstallFails, Retry
<1>2. CASE FunctorFails(a) \/ GiveUp(a)
  BY <1>0, <1>2, ReturnsKeeps DEF FunctorFails, GiveUp
<1>3. CASE Skip(a)
  <2>1. release[a] # "none"
    BY <1>3 DEF Skip, found, doesReleaseExist
  <2> QED BY <1>0, <1>3, <2>1, ReturnsKeeps DEF Skip
<1>4. CASE HelmSucceeds(a)
  BY <1>0, <1>4, ReturnsKeeps DEF HelmSucceeds
<1>5. CASE Install(a)
  <2>1. release' = [release EXCEPT ![a] = "pending"] /\ step("helm") /\ UNCHANGED expired /\ run[a] = "running"
    BY <1>5 DEF Install
  <2>2. \A b \in Apps : run[b] = "running" => release'[b] = "pending"
    BY <1>0, <2>1, OneRuns
  <2> QED BY <1>0, <2>1, <2>2, StepKeeps
<1>6. CASE HelmFails(a)
  <2>1. PICK s \in {"failed", "pending"} : release' = [release EXCEPT ![a] = s]
    BY <1>6 DEF HelmFails
  <2>2. step("retry") /\ UNCHANGED expired
    BY <1>6 DEF HelmFails
  <2> QED BY <1>0, <2>1, <2>2, StepKeeps
<1> QED BY <1>1, <1>2, <1>3, <1>4, <1>5, <1>6 DEF Functor

\* Every step keeps the invariant.
LEMMA AppNextKeeps == ASSUME Elsewhere = {} PROVE AppInv /\ [Next]_vars => AppInv'
<1> SUFFICES ASSUME AppInv, [Next]_vars PROVE AppInv'
  OBVIOUS
<1>1. CASE UNCHANGED vars
  <2>1. WaiterInv'
    BY <1>1, NextKeeps DEF vars, AppInv
  <2> QED
    BY <1>1, <2>1 DEF vars, waiterVars, appVars, AppInv, TypeOK, WaiterInv, FunctorInv, CommandInv,
                      StartedHasReleases, getAppsToInstall, matches
<1>2. CASE Expire
  <2>1. WaiterInv'
    BY <1>2, NextKeeps DEF Expire, AppInv
  <2> QED
    BY <1>2, <2>1 DEF Expire, waiterVars, otherVars, AppInv, TypeOK, WaiterInv, FunctorInv,
                      CommandInv, StartedHasReleases, getAppsToInstall, matches
<1>3. CASE BeginStart \/ Kill \/ \E a \in BuiltIn : BeginUpdate(a)
  BY <1>3, CommandKeeps
<1>4. CASE Process
  BY <1>4, CommandKeeps, WaitsKeep, FunctorKeeps DEF Process
<1> QED BY <1>1, <1>2, <1>3, <1>4 DEF Next

(***************************************************************************)
(* The invariant behind "cluster start"'s application phase, for any       *)
(* number of applications, catalogs and commands, with faults and kills.   *)
(***************************************************************************)
THEOREM AppInvHolds == ASSUME Elsewhere = {} PROVE Spec => []AppInv
<1>1. Init => AppInv
  BY AppInitInv
<1>2. AppInv /\ [Next]_vars => AppInv'
  BY AppNextKeeps
<1> QED BY <1>1, <1>2, PTL DEF Spec

(***************************************************************************)
(* A start that returns no error leaves a release of every application.    *)
(***************************************************************************)
THEOREM StartLeavesReleases == ASSUME Elsewhere = {} PROVE Spec => []StartedHasReleases
<1>1. AppInv => StartedHasReleases
  BY DEF AppInv
<1> QED BY <1>1, AppInvHolds, PTL

(***************************************************************************)
(* A start touches a configured application only when every built-in one   *)
(* has a release.                                                          *)
(***************************************************************************)
THEOREM ConfiguredComeLater == ASSUME Elsewhere = {} PROVE Spec => [][ConfiguredAfterBuiltIn]_vars
<1>1. AppInv /\ [Next]_vars =>
        [ConfiguredAfterBuiltIn]_vars
  BY DEF AppInv, CommandInv, ConfiguredAfterBuiltIn
<1> QED BY <1>1, AppInvHolds, PTL DEF Spec

-----------------------------------------------------------------------------
(* Starts ask for what is missing, and updates deploy.                       *)

\* A functor runs only inside a call, for an application the call was given.
LEMMA RunsInCall ==
    ASSUME AppInv, SeenInv, NEW a \in Apps, run[a] = "running"
    PROVE  a \in asked /\ cmd \in {"builtIn", "configured", "update"} /\ commands # 0
<1> USE DEF AppInv, WaiterInv
<1>1. a \in asked
  BY DEF GoroutineInv, Apps
<1>2. at \in {"next", "poll"}
  BY <1>1 DEF FunctorInv, WaiterTypeOK, SliceInv, ProgressInv, ReportsFailures, notRun, Apps
<1> QED BY <1>1, <1>2 DEF SeenInv

\* The initial states satisfy the strengthened invariant.
LEMMA StartInitInv == Init => StartInv
<1> SUFFICES ASSUME Init PROVE StartInv
  OBVIOUS
<1>1. SeenInv
  BY DEF Init, WaiterInit, SeenInv, fresh
<1>2. DeployInv /\ FirstStartDeploys /\ OnlyMissingCatalogs
  BY DEF Init, DeployInv, FirstStartDeploys, OnlyMissingCatalogs
<1> QED BY <1>1, <1>2, AppInitInv DEF StartInv

\* When InstallApplications returns no error to an update or to the first
\* command, helm has deployed every application that was given to it.
LEMMA DeployedAll ==
    ASSUME AppInv, DeployInv, at = "returned", ~haveError, cmd = "update" \/ commands = 1
    PROVE  \A a \in asked : release[a] = "deployed"
  BY DEF AppInv, DeployInv, WaiterInv, ReportsFailures, notRun, TypeOK, WaiterTypeOK

\* A command that ends keeps the strengthening, if a first start that succeeds
\* has deployed everything.
LEMMA EndSees ==
    ASSUME StartInv, NEW r \in {"started", "updated", "error", "killed"}, end(r), UNCHANGED release,
           cmd # "idle",
           r = "started" /\ commands = 1 => \A a \in Apps : release[a] = "deployed"
    PROVE  SeenInv' /\ DeployInv' /\ FirstStartDeploys' /\ OnlyMissingCatalogs'
<1> USE DEF StartInv, end
<1>1. at' = "call" /\ asked' = {}
  BY DEF waitForSerial
<1>2. SeenInv'
  BY <1>1 DEF SeenInv, fresh, settings
<1>3. DeployInv'
  BY <1>1 DEF DeployInv
<1>4. FirstStartDeploys' /\ OnlyMissingCatalogs'
  BY DEF FirstStartDeploys, OnlyMissingCatalogs, settings
<1> QED BY <1>2, <1>3, <1>4

\* The steps of a command between its calls of InstallApplications.
LEMMA CommandSees ==
    ASSUME StartInv,
           BeginStart \/ ListReleases \/ BuiltInDone \/ CatalogsToAdd \/ AddCatalog
             \/ AddCatalogRefused \/ CatalogsAdded \/ Started \/ Updated \/ NotInstalled
             \/ CommandFails \/ Kill \/ \E a \in BuiltIn : BeginUpdate(a)
    PROVE  SeenInv' /\ DeployInv' /\ FirstStartDeploys' /\ OnlyMissingCatalogs'
<1> USE AppAssumption, WaiterAssumption DEF StartInv
<1> BuiltIn \subseteq Apps /\ Configured \subseteq Apps /\ Apps = BuiltIn \cup Configured
  BY DEF BuiltIn, Configured, Apps, Waiters, AppAssumption
<1>0. commands \in Nat
  BY DEF AppInv, TypeOK, AppAssumption
<1>1. CASE BeginStart
  <2> USE <1>0, <1>1 DEF BeginStart
  <2>0. commands' = 1 => commands = 0
    OBVIOUS
  <2>a. commands' # 0 /\ (commands = 0 => releases = {})
    BY DEF SeenInv, AppInv, CommandInv, TypeOK
  <2>1. SeenInv'
    BY <2>0, <2>a DEF SeenInv, fresh, waiterVars, settings
  <2>3. DeployInv'
    <3>1. commands' = 1 => \A a \in asked : ~(run[a] \in {"ended", "published"} /\ ~err[a])
      BY <2>0 DEF SeenInv, AppInv, FunctorInv, TypeOK, WaiterTypeOK, Apps
    <3>2. \A a \in Apps : run[a] # "running"
      BY RunsInCall
    <3> QED BY <3>1, <3>2 DEF DeployInv, waiterVars
  <2>4. FirstStartDeploys' /\ OnlyMissingCatalogs'
    BY DEF FirstStartDeploys, OnlyMissingCatalogs
  <2> QED BY <2>1, <2>3, <2>4
<1>2. CASE ListReleases
  <2> USE <1>2 DEF ListReleases
  <2>0. at' = "call" /\ \A a \in Apps : run'[a] = "new"
    BY DEF waitForSerial
  <2>1. SeenInv'
    BY <2>0 DEF SeenInv, fresh, settings, Listed
  <2>3. DeployInv'
    BY <2>0 DEF DeployInv, SeenInv, AppInv, CommandInv, getAppsToInstall, matches, waitForSerial
  <2>4. FirstStartDeploys' /\ OnlyMissingCatalogs'
    BY DEF FirstStartDeploys, OnlyMissingCatalogs
  <2> QED BY <2>1, <2>3, <2>4
<1>3. CASE BuiltInDone
  <2> USE <1>3 DEF BuiltInDone
  <2>0. \A a \in Configured : run[a] = "new"
    BY DEF AppInv, WaiterInv, GoroutineInv, CommandInv, getAppsToInstall, matches, Apps, Configured
  <2>1. SeenInv'
    BY <2>0 DEF SeenInv, fresh, settings, waiterVars
  <2>2. commands = 1 => \A a \in BuiltIn : release[a] = "deployed"
    BY DeployedAll DEF AppInv, CommandInv, getAppsToInstall, matches, SeenInv
  <2>3. DeployInv'
    BY <2>2 DEF DeployInv, waiterVars, settings
  <2>4. FirstStartDeploys' /\ OnlyMissingCatalogs'
    BY DEF FirstStartDeploys, OnlyMissingCatalogs
  <2> QED BY <2>1, <2>3, <2>4
<1>4. CASE CatalogsToAdd
  <2> USE <1>4 DEF CatalogsToAdd
  <2>1. SeenInv'
    BY DEF SeenInv, fresh, settings, waiterVars
  <2>3. DeployInv'
    BY DEF DeployInv, waiterVars, settings
  <2>4. FirstStartDeploys' /\ OnlyMissingCatalogs'
    BY DEF FirstStartDeploys, OnlyMissingCatalogs, getCatalogsToAdd, settings
  <2> QED BY <2>1, <2>3, <2>4
<1>5. CASE AddCatalog
  <2> USE <1>5 DEF AddCatalog
  <2>1. SeenInv'
    BY DEF SeenInv, fresh, settings, waiterVars
  <2>3. DeployInv'
    BY DEF DeployInv, waiterVars, settings
  <2>4. FirstStartDeploys' /\ OnlyMissingCatalogs'
    BY DEF FirstStartDeploys, OnlyMissingCatalogs, settings
  <2> QED BY <2>1, <2>3, <2>4
<1>6. CASE CatalogsAdded
  <2> USE <1>6 DEF CatalogsAdded
  <2>0. at' = "call" /\ \A a \in Apps : run'[a] = "new"
    BY DEF waitForSerial
  <2>1. SeenInv'
    BY <2>0 DEF SeenInv, fresh, settings
  <2>3. DeployInv'
    BY <2>0 DEF DeployInv, settings, getAppsToInstall, matches, waitForSerial
  <2>4. FirstStartDeploys' /\ OnlyMissingCatalogs'
    BY DEF FirstStartDeploys, OnlyMissingCatalogs
  <2> QED BY <2>1, <2>3, <2>4
<1>7. CASE Started
  <2>1. commands = 1 => \A a \in Apps : release[a] = "deployed"
    BY <1>7, DeployedAll DEF Started, AppInv, CommandInv, getAppsToInstall, matches, SeenInv, DeployInv
  <2> QED BY <1>7, <2>1, EndSees DEF Started
<1>8. CASE AddCatalogRefused \/ Updated \/ NotInstalled \/ CommandFails \/ Kill
  BY <1>8, EndSees DEF AddCatalogRefused, Updated, NotInstalled, CommandFails, Kill
<1>9. CASE \E a \in BuiltIn : BeginUpdate(a)
  <2>0. PICK a \in BuiltIn : BeginUpdate(a)
    BY <1>9
  <2> USE <2>0 DEF BeginUpdate
  <2>1. commands' # 1 /\ commands' # 0
    BY <1>0 DEF SeenInv
  <2>2. at' = "call" /\ asked' = {a} /\ \A b \in Apps : run'[b] = "new"
    BY DEF waitForSerial
  <2>3. SeenInv'
    BY <2>1, <2>2 DEF SeenInv, fresh, settings
  <2>4. DeployInv'
    BY <2>1, <2>2 DEF DeployInv
  <2>5. FirstStartDeploys' /\ OnlyMissingCatalogs'
    BY DEF FirstStartDeploys, OnlyMissingCatalogs
  <2> QED BY <2>3, <2>4, <2>5
<1> QED BY <1>1, <1>2, <1>3, <1>4, <1>5, <1>6, <1>7, <1>8, <1>9

\* The steps of WaitForSerial and its goroutines.  A functor begins for an
\* application that is fresh.
LEMMA WaitsSee ==
    ASSUME StartInv, Waits \/ StartFunctor
    PROVE  SeenInv' /\ DeployInv' /\ FirstStartDeploys' /\ OnlyMissingCatalogs'
<1> USE AppAssumption, WaiterAssumption DEF StartInv
<1>0. run \in [Apps -> {"new", "running", "ended", "published"}] /\ left \subseteq asked
      /\ asked \subseteq Apps
  BY DEF AppInv, WaiterInv, WaiterTypeOK, TypeOK, SliceInv, Apps
<1>1. CASE Waits
  <2>0. /\ UNCHANGED <<asked, appVars, err>>
        /\ \A a \in Apps : run'[a] = run[a] \/ (run[a] = "ended" /\ run'[a] = "published")
    <3>1. CASE \E a \in Apps : Publish(a)
      BY <1>0, <1>1, <3>1 DEF Waits, Publish, callerVars
    <3>2. CASE ~\E a \in Apps : Publish(a)
      BY <1>1, <3>2 DEF Waits, Begin, Return, Poll, NoTerminal, AppInv, FunctorInv
    <3> QED BY <3>1, <3>2
  <2> USE <2>0
  <2>a. cmd \in {"builtIn", "configured", "update"}
    BY <1>1 DEF Waits
  <2>1. SeenInv'
    BY <2>a DEF SeenInv, fresh, appVars, settings
  <2>3. DeployInv'
    BY <1>0 DEF DeployInv, appVars, settings
  <2>4. FirstStartDeploys' /\ OnlyMissingCatalogs'
    BY DEF FirstStartDeploys, OnlyMissingCatalogs, appVars, settings
  <2> QED BY <2>1, <2>3, <2>4
<1>2. CASE StartFunctor
  <2> USE <1>2 DEF StartFunctor
  <2>0. PICK w \in left : /\ run' = [run EXCEPT ![w] = "running"]
                          /\ at = "next" /\ at' = "poll" /\ UNCHANGED <<asked, err>>
    BY DEF StartFirst
  <2>1. w \in Apps /\ w \in asked /\ run[w] = "new" /\ cmd \in {"builtIn", "configured", "update"}
    BY <1>0, <2>0 DEF AppInv, WaiterInv, ProgressInv, SeenInv
  <2>2. SeenInv'
    BY <1>0, <2>0, <2>1 DEF SeenInv, fresh, settings
  <2>3. commands = 1 => release[w] = "none"
    BY <2>1 DEF SeenInv, fresh, AppInv, CommandInv, getAppsToInstall, matches
  <2>4. DeployInv'
    <3>1. \A a \in Apps : run[a] # "running"
      BY <2>0 DEF AppInv, WaiterInv, ProgressInv, GoroutineInv, FunctorInv, waitedFor, Apps
    <3> QED BY <1>0, <2>0, <2>1, <2>3, <3>1 DEF DeployInv, settings
  <2>5. FirstStartDeploys' /\ OnlyMissingCatalogs'
    BY DEF FirstStartDeploys, OnlyMissingCatalogs, settings
  <2> QED BY <2>2, <2>4, <2>5
<1> QED BY <1>1, <1>2

\* A step of a functor changes the release of its own application only, so
\* what was seen of the others stays true.
LEMMA FunctorSees ==
    ASSUME StartInv, NEW a \in Apps, run[a] = "running", UNCHANGED <<callerVars, otherVars>>,
           \/ UNCHANGED <<run, err>>
           \/ run' = [run EXCEPT ![a] = "ended"],
           \A b \in Apps : b # a => release'[b] = release[b]
    PROVE  SeenInv' /\ FirstStartDeploys' /\ OnlyMissingCatalogs'
<1> USE DEF StartInv
<1>0. run \in [Apps -> {"new", "running", "ended", "published"}]
  BY DEF AppInv, TypeOK, WaiterTypeOK, Apps
<1>1. cmd \in {"builtIn", "configured", "update"} /\ commands # 0
  BY RunsInCall
<1>2. \A b \in Apps : run'[b] = "new" => run[b] = "new" /\ b # a
  BY <1>0
<1>3. SeenInv'
  BY <1>1, <1>2 DEF SeenInv, fresh, callerVars, otherVars, settings
<1>4. FirstStartDeploys' /\ OnlyMissingCatalogs'
  BY <1>1 DEF FirstStartDeploys, OnlyMissingCatalogs, SeenInv, otherVars, settings
<1> QED BY <1>3, <1>4

\* A functor that returns keeps the strengthening, if helm has deployed its
\* application whenever an update or the first command gets no error.
LEMMA ReturnsSees ==
    ASSUME StartInv, NEW a \in Apps, NEW e \in BOOLEAN, returns(a, e),
           \A b \in Apps : b # a => release'[b] = release[b],
           ~e /\ (cmd = "update" \/ commands = 1) => release'[a] = "deployed"
    PROVE  SeenInv' /\ DeployInv' /\ FirstStartDeploys' /\ OnlyMissingCatalogs'
<1> USE DEF StartInv
<1>0. /\ run \in [Apps -> {"new", "running", "ended", "published"}] /\ err \in [Apps -> BOOLEAN]
      /\ BuiltIn \subseteq Apps /\ asked \subseteq Apps
  BY AppAssumption, WaiterAssumption DEF AppInv, TypeOK, WaiterTypeOK, Apps, BuiltIn, Waiters, AppAssumption
<1>1. /\ run[a] = "running" /\ run' = [run EXCEPT ![a] = "ended"] /\ err' = [err EXCEPT ![a] = e]
      /\ UNCHANGED <<callerVars, otherVars>> /\ functor' = "none"
  BY DEF returns, FunctorReturns
<1>2. SeenInv' /\ FirstStartDeploys' /\ OnlyMissingCatalogs'
  BY <1>1, FunctorSees
<1>3. a \in asked /\ cmd \in {"builtIn", "configured", "update"}
  BY <1>1, RunsInCall
<1>4. cmd = "configured" => a \notin BuiltIn
  BY <1>3 DEF AppInv, CommandInv, getAppsToInstall, matches, Configured
<1>5. DeployInv'
  BY <1>0, <1>1, <1>3, <1>4 DEF DeployInv, callerVars, otherVars, settings
<1> QED BY <1>2, <1>5

\* The other steps of a functor.
LEMMA StepSees ==
    ASSUME StartInv, NEW a \in Apps, run[a] = "running", NEW s, step(s),
           \A b \in Apps : b # a => release'[b] = release[b],
           commands = 1 /\ s \in {"search", "check"} => release'[a] = "none",
           ~update /\ ~flaky /\ s \in {"prepare", "attempt", "helm", "retry"} /\ a \notin Unnamed
             => release'[a] # "deployed"
    PROVE  SeenInv' /\ DeployInv' /\ FirstStartDeploys' /\ OnlyMissingCatalogs'
<1> USE DEF StartInv
<1>0. /\ run \in [Apps -> {"new", "running", "ended", "published"}] /\ err \in [Apps -> BOOLEAN]
      /\ BuiltIn \subseteq Apps /\ asked \subseteq Apps
  BY AppAssumption, WaiterAssumption DEF AppInv, TypeOK, WaiterTypeOK, Apps, BuiltIn, Waiters, AppAssumption
<1>1. UNCHANGED <<run, err, callerVars, otherVars>> /\ functor' = s
  BY DEF step, waiterVars, callerVars
<1>2. SeenInv' /\ FirstStartDeploys' /\ OnlyMissingCatalogs'
  BY <1>1, FunctorSees
<1>3. a \in asked /\ cmd \in {"builtIn", "configured", "update"}
  BY RunsInCall
<1>4. cmd = "configured" => a \notin BuiltIn
  BY <1>3 DEF AppInv, CommandInv, getAppsToInstall, matches, Configured
<1>6. \A b \in Apps : run[b] = "running" => b = a
  BY OneRuns
<1>5. DeployInv'
  BY <1>0, <1>1, <1>3, <1>4, <1>6 DEF DeployInv, callerVars, otherVars, settings
<1> QED BY <1>2, <1>5

\* The steps of a functor.
LEMMA FunctorsSee ==
    ASSUME Elsewhere = {}, StartInv, NEW a \in Apps, Functor(a)
    PROVE  SeenInv' /\ DeployInv' /\ FirstStartDeploys' /\ OnlyMissingCatalogs'
<1> USE DEF StartInv
<1>0. release \in [Apps -> {"none", "pending", "failed", "deployed"}]
  BY DEF AppInv, TypeOK
<1>a. run[a] = "running"
  BY DEF Functor, Search, Skip, GoOn, Prepare, FunctorFails, Install, InstallFails, HelmSucceeds,
         HelmFails, Retry, GiveUp, returns, FunctorReturns
<1>1. CASE Search(a) \/ Prepare(a) \/ InstallFails(a) \/ Retry(a)
  BY <1>1, <1>a, StepSees DEF Search, Prepare, InstallFails, Retry, DeployInv
<1>2. CASE GoOn(a)
  <2>1. ~update /\ ~flaky /\ a \notin Unnamed => release[a] = "none"
    BY <1>2 DEF GoOn, Listed, found, doesReleaseExist
  <2> QED BY <1>2, <1>a, <2>1, StepSees DEF GoOn
<1>3. CASE Skip(a)
  <2>1. release[a] # "none" /\ ~update /\ functor = "check"
    BY <1>3 DEF Skip, found, doesReleaseExist
  <2>2. cmd # "update" /\ commands # 1
    BY <1>a, <2>1 DEF DeployInv, SeenInv
  <2> QED BY <1>3, <2>2, ReturnsSees DEF Skip
<1>4. CASE FunctorFails(a) \/ GiveUp(a)
  BY <1>4, ReturnsSees DEF FunctorFails, GiveUp
<1>5. CASE HelmSucceeds(a)
  BY <1>0, <1>5, ReturnsSees DEF HelmSucceeds
<1>6. CASE Install(a)
  BY <1>0, <1>6, StepSees DEF Install
<1>7. CASE HelmFails(a)
  <2>1. PICK s \in {"failed", "pending"} : release' = [release EXCEPT ![a] = s]
    BY <1>7 DEF HelmFails
  <2> QED BY <1>0, <1>a, <1>7, <2>1, StepSees DEF HelmFails
<1> QED BY <1>1, <1>2, <1>3, <1>4, <1>5, <1>6, <1>7 DEF Functor

\* Every step keeps the strengthened invariant.
LEMMA StartNextKeeps == ASSUME Elsewhere = {} PROVE StartInv /\ [Next]_vars => StartInv'
<1> SUFFICES ASSUME StartInv, [Next]_vars
             PROVE  SeenInv' /\ DeployInv' /\ FirstStartDeploys' /\ OnlyMissingCatalogs'
  BY AppNextKeeps DEF StartInv
<1>1. CASE UNCHANGED vars
  BY <1>1 DEF vars, waiterVars, appVars, settings, StartInv, SeenInv, DeployInv, FirstStartDeploys,
              OnlyMissingCatalogs, fresh
<1>2. CASE Expire
  BY <1>2 DEF Expire, waiterVars, otherVars, settings, StartInv, SeenInv, DeployInv,
              FirstStartDeploys, OnlyMissingCatalogs, fresh
<1>3. CASE BeginStart \/ Kill \/ \E a \in BuiltIn : BeginUpdate(a)
  BY <1>3, CommandSees
<1>4. CASE Process
  BY <1>4, CommandSees, WaitsSee, FunctorsSee DEF Process
<1> QED BY <1>1, <1>2, <1>3, <1>4 DEF Next

(***************************************************************************)
(* What a start has seen of the releases stays true while it runs, for any *)
(* number of applications, catalogs and commands, with faults and kills.   *)
(***************************************************************************)
THEOREM StartInvHolds == ASSUME Elsewhere = {} PROVE Spec => []StartInv
<1>1. Init => StartInv
  BY StartInitInv
<1>2. StartInv /\ [Next]_vars => StartInv'
  BY StartNextKeeps
<1> QED BY <1>1, <1>2, PTL DEF Spec

(***************************************************************************)
(* getAppsToInstall and getCatalogsToAdd name what is missing and only     *)
(* that, and the first start that returns no error has deployed all of it. *)
(***************************************************************************)
THEOREM StartsTheMissing == ASSUME Elsewhere = {} PROVE Spec => []StartsWhatIsMissing
<1>1. StartInv => OnlyMissingApps
  <2>0. ASSUME StartInv PROVE ~flaky /\ cmd \in {"builtIn", "configured"} =>
            (functor \in {"prepare", "attempt", "helm", "retry"} =>
               \A a \in Apps \ Unnamed : run[a] = "running" => release[a] # "deployed")
    BY <2>0 DEF StartInv, SeenInv, DeployInv
  <2> SUFFICES ASSUME StartInv, ~flaky, cmd \in {"builtIn", "configured"}, at = "call",
                      NEW a \in asked \ (Unnamed \cup Unplaced)
               PROVE  release[a] # "deployed"
    BY <2>0 DEF OnlyMissingApps
  <2>1. a \in Apps /\ run[a] = "new"
    BY DEF StartInv, AppInv, WaiterInv, WaiterTypeOK, ProgressInv, Apps
  <2>2. a \notin releases /\ (cmd = "configured" => a \in Configured)
    BY DEF StartInv, AppInv, CommandInv, getAppsToInstall, matches
  <2> QED BY <2>1, <2>2 DEF StartInv, SeenInv, fresh
<1>2. StartInv => StartsWhatIsMissing
  BY <1>1 DEF StartInv, StartsWhatIsMissing
<1> QED BY <1>2, StartInvHolds, PTL

\* A start leaves a deployed application alone.
LEMMA DeployedIsKept ==
    ASSUME Elsewhere = {}, StartInv, [Next]_vars, ~update, ~flaky, NEW b \in Apps,
           release[b] = "deployed"
    PROVE  release'[b] = "deployed"
<1> USE DEF StartInv
<1>0. release \in [Apps -> {"none", "pending", "failed", "deployed"}]
  BY DEF AppInv, TypeOK
<1>1. CASE \E a \in Apps : Install(a)
  <2>1. PICK a \in Apps : Install(a)
    BY <1>1
  <2>2. a = b => a \in Unnamed
    BY <2>1 DEF Install, DeployInv
  <2>3. a # b
    BY <2>1, <2>2 DEF Install, Listed, nameTaken, doesReleaseExist
  <2> QED BY <1>0, <2>1, <2>3 DEF Install
<1>2. CASE \E a \in Apps : HelmSucceeds(a) \/ HelmFails(a)
  <2>1. PICK a \in Apps : HelmSucceeds(a) \/ HelmFails(a)
    BY <1>2
  <2>2. release[a] = "pending"
    BY <2>1 DEF HelmSucceeds, HelmFails, returns, FunctorReturns, AppInv, FunctorInv
  <2> QED BY <1>0, <2>1, <2>2 DEF HelmSucceeds, HelmFails
<1>3. CASE UNCHANGED release
  BY <1>3
<1> QED
  BY <1>1, <1>2, <1>3 DEF Next, Process, Functor, vars, appVars, BeginStart, BeginUpdate, Expire,
     Kill, ListReleases, BuiltInDone, CatalogsToAdd, AddCatalog, AddCatalogRefused, CatalogsAdded,
     Started, Updated, NotInstalled, CommandFails, Waits, StartFunctor, Search, Skip, GoOn, Prepare,
     FunctorFails, InstallFails, Retry, GiveUp

\* Only Updated reports a successful update, and helm has deployed by then.
LEMMA UpdateHasDeployed ==
    ASSUME StartInv, [Next]_vars PROVE UpdateDeploys
<1> SUFFICES ASSUME result' = "updated", result = "none"
             PROVE  \A a \in asked : release'[a] = "deployed"
  BY DEF UpdateDeploys
<1>1. Updated
  BY DEF Next, Process, Functor, vars, appVars, BeginStart, BeginUpdate, Expire,
     Kill, ListReleases, BuiltInDone, CatalogsToAdd, AddCatalog, AddCatalogRefused, CatalogsAdded,
     Started, NotInstalled, CommandFails, Waits, StartFunctor, Search, Skip, GoOn, Prepare,
     FunctorFails, Install, InstallFails, HelmSucceeds, HelmFails, Retry, GiveUp, step, returns,
     otherVars, end
<1> QED BY <1>1, DeployedAll DEF Updated, StartInv

(***************************************************************************)
(* UpdateApplications returns no error only when its application is        *)
(* deployed, configured applications wait for the built-in ones, and a     *)
(* start leaves deployed applications alone.                               *)
(***************************************************************************)
THEOREM ReleaseStepsHold == ASSUME Elsewhere = {} PROVE Spec => ReleaseSteps
<1>1. StartInv /\ [Next]_vars => [UpdateDeploys /\ ConfiguredAfterBuiltIn /\ StartKeepsDeployed]_vars
  <2> SUFFICES ASSUME StartInv, [Next]_vars
               PROVE  UpdateDeploys /\ ConfiguredAfterBuiltIn /\ StartKeepsDeployed
    OBVIOUS
  <2>1. ConfiguredAfterBuiltIn
    BY DEF StartInv, AppInv, CommandInv, ConfiguredAfterBuiltIn
  <2> QED BY <2>1, UpdateHasDeployed, DeployedIsKept DEF StartKeepsDeployed
<1> QED BY <1>1, StartInvHolds, PTL DEF Spec, ReleaseSteps

-----------------------------------------------------------------------------
(***************************************************************************)
(* Node updates under careful use: UpgradeInv, and what follows from it.   *)
(***************************************************************************)

\* What the command line of a job holds, by kind.
LEMMA JobFields ==
    ASSUME Careful, NEW j \in Jobs
    PROVE  /\ j.kind = "stage" => j.version \in Int
           /\ j.kind = "update" => j.node \in Nodes /\ j.force = FALSE
           /\ j.kind \in {"stage", "update"}
<1>1. CASE j \in [kind : {"stage"}, version : Versions]
    BY <1>1, UpgradeAssumption DEF Versions
<1>2. CASE j \in [kind : {"update"}, node : Nodes, force : {FALSE, Forced}]
    BY <1>2, UpgradeAssumption DEF Careful
<1> QED BY <1>1, <1>2 DEF Jobs

\* The facts of UpgradeInv that say what kind of value each variable holds.
LEMMA StateTypes ==
    ASSUME UpgradeInv, NEW n \in Nodes
    PROVE  kubelet[n] \in Int /\ deployed[n] \in Int /\ pulled[n] \in Int /\ tag[n] \in Int
BY DEF UpgradeInv, UpgradeTypeOK

\* The cluster as it was installed satisfies the invariant.
LEMMA UpgradeInvInit == UpgradeInit => UpgradeInv
<1> SUFFICES ASSUME UpgradeInit PROVE UpgradeInv
    OBVIOUS
<1>1. UpgradeTypeOK
    BY UpgradeAssumption DEF UpgradeInit, UpgradeTypeOK, Phases, NothingToDo
<1>2. \A n \in Nodes : NodeInv(n)
    BY UpgradeAssumption DEF UpgradeInit, NodeInv
<1>3. \A n, m \in Nodes : PairInv(n, m)
    BY UpgradeAssumption DEF UpgradeInit, PairInv
<1>4. \A p \in Procs : ProcInv(p)
    BY DEF UpgradeInit, ProcInv, updating
<1>5. \A p, q \in Procs : phase[p] # "idle" /\ phase[q] # "idle" => p = q
    BY DEF UpgradeInit
<1> QED BY <1>1, <1>2, <1>3, <1>4, <1>5 DEF UpgradeInv

\* What the nodes do by themselves.
LEMMA ServicePullsStep ==
    ASSUME Careful, UpgradeInv, NEW n \in Nodes, ServicePulls(n)
    PROVE  UpgradeInv'
<1> USE StateTypes
<1>1. UpgradeTypeOK'
    BY DEF podVars, UpgradeInv, UpgradeTypeOK, ServicePulls, procVars
<1>2. \A m \in Nodes : NodeInv(m)'
    BY DEF podVars, UpgradeInv, UpgradeTypeOK, NodeInv, ServicePulls
<1>3. \A m, k \in Nodes : PairInv(m, k)'
    BY DEF podVars, UpgradeInv, UpgradeTypeOK, PairInv, ServicePulls
<1>4. \A p \in Procs : ProcInv(p)'
    BY JobFields DEF podVars, UpgradeInv, UpgradeTypeOK, ProcInv, ServicePulls, procVars, target, settled, updating
<1>5. (\A p, q \in Procs : phase[p] # "idle" /\ phase[q] # "idle" => p = q)'
    BY DEF podVars, UpgradeInv, ServicePulls, procVars
<1> QED BY <1>1, <1>2, <1>3, <1>4, <1>5 DEF UpgradeInv

\* GoesDown keeps the invariant.
LEMMA GoesDownStep ==
    ASSUME Careful, UpgradeInv, NEW n \in Nodes, GoesDown(n)
    PROVE  UpgradeInv'
<1>1. UpgradeTypeOK'
    BY DEF UpgradeInv, UpgradeTypeOK, GoesDown, procVars
<1>2. \A m \in Nodes : NodeInv(m)'
    BY DEF UpgradeInv, NodeInv, GoesDown
<1>3. \A m, k \in Nodes : PairInv(m, k)'
    BY DEF UpgradeInv, PairInv, GoesDown
<1>4. \A p \in Procs : ProcInv(p)'
    BY DEF UpgradeInv, ProcInv, GoesDown, procVars, target, settled, updating
<1>5. (\A p, q \in Procs : phase[p] # "idle" /\ phase[q] # "idle" => p = q)'
    BY DEF UpgradeInv, GoesDown, procVars
<1> QED BY <1>1, <1>2, <1>3, <1>4, <1>5 DEF UpgradeInv

\* LeaseExpires keeps the invariant.
LEMMA LeaseExpiresStep ==
    ASSUME Careful, UpgradeInv, NEW n \in Nodes, LeaseExpires(n)
    PROVE  UpgradeInv'
<1>1. UpgradeTypeOK'
    BY DEF podVars, UpgradeInv, UpgradeTypeOK, LeaseExpires, procVars
<1>2. \A m \in Nodes : NodeInv(m)'
    BY DEF podVars, UpgradeInv, NodeInv, LeaseExpires
<1>3. \A m, k \in Nodes : PairInv(m, k)'
    BY DEF podVars, UpgradeInv, PairInv, LeaseExpires
<1>4. \A p \in Procs : ProcInv(p)'
    BY DEF podVars, UpgradeInv, ProcInv, LeaseExpires, procVars, target, settled, updating
<1>5. (\A p, q \in Procs : phase[p] # "idle" /\ phase[q] # "idle" => p = q)'
    BY DEF podVars, UpgradeInv, LeaseExpires, procVars
<1> QED BY <1>1, <1>2, <1>3, <1>4, <1>5 DEF UpgradeInv

\* Schedules keeps the invariant.
LEMMA SchedulesStep ==
    ASSUME Careful, UpgradeInv, NEW n \in Nodes, Schedules(n)
    PROVE  UpgradeInv'
<1>1. UpgradeTypeOK'
    BY DEF UpgradeInv, UpgradeTypeOK, Schedules, procVars
<1>2. \A m \in Nodes : NodeInv(m)'
    BY DEF UpgradeInv, NodeInv, Schedules
<1>3. \A m, k \in Nodes : PairInv(m, k)'
    BY DEF UpgradeInv, PairInv, Schedules
<1>4. \A p \in Procs : ProcInv(p)'
    BY DEF UpgradeInv, ProcInv, Schedules, procVars, target, settled, updating
<1>5. (\A p, q \in Procs : phase[p] # "idle" /\ phase[q] # "idle" => p = q)'
    BY DEF UpgradeInv, Schedules, procVars
<1> QED BY <1>1, <1>2, <1>3, <1>4, <1>5 DEF UpgradeInv

\* A boot only raises what the node reports, and changes nothing while a
\* command has yet to look: all nodes have settled then.
LEMMA BootsStep ==
    ASSUME Careful, UpgradeInv, NEW n \in Nodes, Boots(n)
    PROVE  UpgradeInv'
<1> USE StateTypes
<1>1. UpgradeTypeOK'
    BY DEF podVars, UpgradeInv, UpgradeTypeOK, Boots, procVars
<1>2. \A m \in Nodes : NodeInv(m)'
    BY DEF podVars, UpgradeInv, UpgradeTypeOK, NodeInv, Boots
<1>0. \A m \in Nodes : kubelet[m] <= kubelet'[m] /\ kubelet'[m] \in Int
    BY DEF podVars, UpgradeInv, UpgradeTypeOK, NodeInv, Boots
<1>6. settled => \A m \in Nodes : kubelet'[m] = kubelet[m]
    BY DEF podVars, UpgradeInv, UpgradeTypeOK, settled, Boots
<1>7. settled => settled'
    BY <1>6 DEF podVars, settled, Boots
<1>3. ASSUME NEW m \in Nodes, NEW k \in Nodes PROVE PairInv(m, k)'
    BY <1>0 DEF podVars, UpgradeInv, UpgradeTypeOK, PairInv, Boots
<1>4. ASSUME NEW p \in Procs PROVE ProcInv(p)'
    <2>0. ProcInv(p)
        BY DEF UpgradeInv
    <2>1. /\ phase'[p] = phase[p] /\ job'[p] = job[p] /\ list'[p] = list[p]
          /\ tag' = tag /\ pulled' = pulled
        BY DEF podVars, Boots, procVars
    <2>2. phase[p] \in {"list", "check", "staging"} => settled /\ settled'
        BY <2>0, <1>7 DEF ProcInv
    <2>3. phase[p] \in {"prepare", "drain", "evict", "script"} /\ target(p) \in Workers =>
            \A c \in ControlPlane : tag[target(p)] <= kubelet'[c]
        BY <2>0, <1>0, UpgradeAssumption DEF ProcInv, Workers
    <2> QED BY <2>0, <2>1, <2>2, <2>3, <1>6 DEF ProcInv, target, updating
<1>5. (\A p, q \in Procs : phase[p] # "idle" /\ phase[q] # "idle" => p = q)'
    BY DEF podVars, UpgradeInv, Boots, procVars
<1> QED BY <1>1, <1>2, <1>3, <1>4, <1>5 DEF UpgradeInv

-----------------------------------------------------------------------------
\* No other command runs while the command of p does.
LEMMA Alone ==
    ASSUME UpgradeInv, NEW p \in Procs, phase[p] # "idle" \/ idle
    PROVE  \A q \in Procs \ {p} : phase[q] = "idle"
BY DEF UpgradeInv, idle

\* A step of p leaves the parts of the invariant about other processes alone.
LEMMA ProcessStep ==
    ASSUME UpgradeInv, NEW p \in Procs,
           phase[p] # "idle" \/ idle,
           NEW s, phase' = [phase EXCEPT ![p] = s],
           UpgradeTypeOK', \A n \in Nodes : NodeInv(n)', \A n, m \in Nodes : PairInv(n, m)',
           ProcInv(p)'
    PROVE  UpgradeInv'
<1>1. \A q \in Procs \ {p} : phase'[q] = "idle"
    BY Alone DEF UpgradeInv, UpgradeTypeOK
<1>2. \A q \in Procs \ {p} : ProcInv(q)'
    BY <1>1 DEF ProcInv, updating
<1>3. (\A q, r \in Procs : phase[q] # "idle" /\ phase[r] # "idle" => q = r)'
    BY <1>1
<1> QED BY <1>2, <1>3 DEF UpgradeInv

\* Steps that change no node keep what is said of the nodes.
LEMMA NodesUnchanged ==
    ASSUME UpgradeInv, UNCHANGED nodeVars
    PROVE  /\ \A n \in Nodes : NodeInv(n)'
           /\ \A n, m \in Nodes : PairInv(n, m)'
           /\ settled' = settled
BY DEF podVars, UpgradeInv, nodeVars, NodeInv, PairInv, settled

\* Steps that return from the command.
LEMMA EndStep ==
    ASSUME UpgradeInv, NEW p \in Procs, finish(p)
    PROVE  /\ phase' = [phase EXCEPT ![p] = "idle"]
           /\ ProcInv(p)'
           /\ job' \in [Procs -> Jobs \cup {NoJob}]
           /\ phase' \in [Procs -> Phases]
           /\ list' \in [Procs -> Lists \cup {NoList}]
           /\ todo' \in [Procs -> [left : SUBSET Nodes, staged : BOOLEAN]]
<1>1. phase' = [phase EXCEPT ![p] = "idle"]
    BY DEF finish, advance
<1>2. phase'[p] = "idle"
    BY <1>1 DEF UpgradeInv, UpgradeTypeOK
<1>3. ProcInv(p)'
    BY <1>2 DEF ProcInv, updating
<1> QED BY <1>1, <1>3 DEF UpgradeInv, UpgradeTypeOK, finish, advance, Phases, NothingToDo

\* Fails keeps the invariant.
LEMMA FailsStep ==
    ASSUME UpgradeInv, NEW p \in Procs, Fails(p)
    PROVE  UpgradeInv'
<1>1. UpgradeTypeOK'
    BY EndStep DEF podVars, Fails, UpgradeInv, UpgradeTypeOK, nodeVars
<1> QED BY <1>1, EndStep, NodesUnchanged, ProcessStep DEF Fails

\* Begin keeps the invariant.
LEMMA BeginStep ==
    ASSUME Careful, UpgradeInv, NEW p \in Procs, NEW j \in Jobs, Issue(p, j)
    PROVE  UpgradeInv'
<1>1. UpgradeTypeOK'
    BY DEF podVars, Issue, advance, UpgradeInv, UpgradeTypeOK, nodeVars, Phases
<1>2. phase'[p] = "list" /\ job'[p] = j
    BY DEF Issue, advance, UpgradeInv, UpgradeTypeOK
<1>3. ProcInv(p)'
    BY <1>2, NodesUnchanged DEF ProcInv, updating, Issue, Careful
<1> QED BY <1>1, <1>3, NodesUnchanged, ProcessStep DEF Issue, advance, Careful

\* GetNodeList keeps the invariant.
LEMMA GetNodeListStep ==
    ASSUME Careful, UpgradeInv, NEW p \in Procs, GetNodeList(p)
    PROVE  UpgradeInv'
<1>0. [kubelet |-> kubelet, annotated |-> annotated, ready |-> ready] \in Lists
    BY DEF UpgradeInv, UpgradeTypeOK, Lists
<1>1. UpgradeTypeOK'
    BY <1>0 DEF podVars, GetNodeList, advance, UpgradeInv, UpgradeTypeOK, nodeVars, Phases
<1>2. /\ phase'[p] = "check" /\ job'[p] = job[p] /\ kubelet' = kubelet
      /\ list'[p] = [kubelet |-> kubelet, annotated |-> annotated, ready |-> ready]
    BY DEF podVars, GetNodeList, advance, UpgradeInv, UpgradeTypeOK, nodeVars
<1>3. phase[p] = "list" /\ ProcInv(p)
    BY DEF GetNodeList, UpgradeInv
<1>4. ProcInv(p)'
    BY <1>0, <1>2, <1>3, NodesUnchanged DEF ProcInv, updating, GetNodeList
<1> QED BY <1>1, <1>3, <1>4, NodesUnchanged, ProcessStep DEF GetNodeList, advance

-----------------------------------------------------------------------------
\* stageNodeVersionCheck accepts only a version that every node runs or that is
\* the next one for it.
LEMMA MayStageMeans ==
    ASSUME UpgradeInv, NEW p \in Procs, phase[p] = "check",
           NEW v \in Int, MayStage(listed(p), v)
    PROVE  \A n \in Nodes : kubelet[n] <= v /\ v <= kubelet[n] + 1
<1> SUFFICES ASSUME NEW n \in Nodes PROVE kubelet[n] <= v /\ v <= kubelet[n] + 1
    OBVIOUS
<1>1. kubelet[n] \in listed(p)
    BY DEF UpgradeInv, ProcInv, listed
<1>2. kubelet[n] = v \/ kubelet[n] = v - 1
    BY <1>1 DEF MayStage
<1> QED BY <1>2, StateTypes

\* StageCheck keeps the invariant.
LEMMA StageCheckStep ==
    ASSUME Careful, UpgradeInv, NEW p \in Procs, StageCheck(p)
    PROVE  UpgradeInv'
<1>0. phase[p] = "check" /\ ProcInv(p) /\ job[p] \in Jobs /\ job[p].kind = "stage"
    BY DEF StageCheck, UpgradeInv, ProcInv
<1>1. CASE finish(p)
    <2>1. UpgradeTypeOK'
        BY <1>1, EndStep DEF podVars, StageCheck, UpgradeInv, UpgradeTypeOK, nodeVars
    <2> QED BY <1>0, <1>1, <2>1, EndStep, NodesUnchanged, ProcessStep DEF StageCheck
<1>2. CASE ~finish(p)
    <2>0. /\ MayStage(listed(p), job[p].version)
          /\ phase' = [phase EXCEPT ![p] = "staging"]
          /\ todo' = [todo EXCEPT ![p] = [left |-> list[p].ready, staged |-> FALSE]]
          /\ list' = [list EXCEPT ![p] = NoList]
          /\ job' = job /\ UNCHANGED nodeVars
        BY <1>2 DEF StageCheck, advance
    <2>1. list[p].ready \in SUBSET Nodes
        BY <1>0 DEF ProcInv, Lists
    <2>2. UpgradeTypeOK'
        BY <2>0, <2>1 DEF podVars, UpgradeInv, UpgradeTypeOK, nodeVars, Phases
    <2>3. phase'[p] = "staging" /\ job'[p] = job[p]
        BY <2>0 DEF UpgradeInv, UpgradeTypeOK
    <2>4. \A n \in Nodes : kubelet'[n] <= job'[p].version /\ job'[p].version <= kubelet'[n] + 1
        BY <1>0, <2>0, <2>3, MayStageMeans, JobFields DEF podVars, nodeVars
    <2>5. settled'
        BY <1>0, <2>0, NodesUnchanged DEF ProcInv
    <2>6. ProcInv(p)'
        BY <1>0, <2>3, <2>4, <2>5 DEF ProcInv, updating
    <2> QED BY <1>0, <2>0, <2>2, <2>6, NodesUnchanged, ProcessStep
<1> QED BY <1>1, <1>2

\* StageNode keeps the invariant.
LEMMA StageNodeStep ==
    ASSUME Careful, UpgradeInv, NEW p \in Procs, NEW n \in Nodes, StageNode(p, n)
    PROVE  UpgradeInv'
<1> USE StateTypes
<1>0. phase[p] = "staging" /\ ProcInv(p) /\ job[p] \in Jobs /\ job[p].version \in Int /\ settled
    BY JobFields DEF podVars, StageNode, UpgradeInv, ProcInv
<1>v. \A m \in Nodes : kubelet[m] <= job[p].version /\ job[p].version <= kubelet[m] + 1
    BY <1>0 DEF ProcInv
<1>1. UpgradeTypeOK'
    BY <1>0 DEF podVars, StageNode, UpgradeInv, UpgradeTypeOK
<1>2. \A m \in Nodes : NodeInv(m)'
    BY <1>0, <1>v DEF podVars, StageNode, UpgradeInv, UpgradeTypeOK, NodeInv, settled
<1>3. \A m, k \in Nodes : PairInv(m, k)'
    BY <1>0, <1>v DEF podVars, StageNode, UpgradeInv, UpgradeTypeOK, PairInv
<1>4. ProcInv(p)'
    BY <1>0 DEF podVars, StageNode, ProcInv, updating, settled
<1>5. phase' = [phase EXCEPT ![p] = "staging"]
    BY <1>0 DEF StageNode, UpgradeInv, UpgradeTypeOK
<1>6. phase[p] # "idle"
    BY <1>0
<1> HIDE StateTypes
<1> QED BY <1>1, <1>2, <1>3, <1>4, <1>5, <1>6, ProcessStep

\* StageNodeFails keeps the invariant.
LEMMA StageNodeFailsStep ==
    ASSUME Careful, UpgradeInv, NEW p \in Procs, NEW n \in Nodes, StageNodeFails(p, n)
    PROVE  UpgradeInv'
<1>0. phase[p] = "staging" /\ ProcInv(p)
    BY DEF podVars, StageNodeFails, UpgradeInv
<1>1. tag' = tag
    BY DEF podVars, StageNodeFails, tagsLeft, Careful, UpgradeInv, UpgradeTypeOK
<1>2. UNCHANGED nodeVars
    BY <1>1 DEF podVars, StageNodeFails, nodeVars
<1>3. UpgradeTypeOK'
    BY <1>2 DEF podVars, StageNodeFails, UpgradeInv, UpgradeTypeOK, nodeVars
<1>4. ProcInv(p)'
    BY <1>0, <1>2, NodesUnchanged DEF podVars, StageNodeFails, ProcInv, updating, nodeVars
<1>5. phase' = [phase EXCEPT ![p] = "staging"]
    BY <1>0 DEF StageNodeFails, UpgradeInv, UpgradeTypeOK
<1>6. phase[p] # "idle"
    BY <1>0
<1> QED BY <1>2, <1>3, <1>4, <1>5, <1>6, NodesUnchanged, ProcessStep

\* StageConfig keeps the invariant.
LEMMA StageConfigStep ==
    ASSUME Careful, UpgradeInv, NEW p \in Procs, StageConfig(p)
    PROVE  UpgradeInv'
<1>0. phase[p] = "staging" /\ ProcInv(p) /\ job[p] \in Jobs /\ job[p].version \in Int
    BY JobFields DEF podVars, StageConfig, UpgradeInv, ProcInv
<1>1. UpgradeTypeOK'
    BY <1>0, EndStep DEF podVars, StageConfig, UpgradeInv, UpgradeTypeOK
<1>2. \A m \in Nodes : NodeInv(m)'
    BY DEF podVars, StageConfig, UpgradeInv, NodeInv
<1>3. \A m, k \in Nodes : PairInv(m, k)'
    BY DEF podVars, StageConfig, UpgradeInv, PairInv
<1> QED BY <1>0, <1>1, <1>2, <1>3, EndStep, ProcessStep DEF podVars, StageConfig

-----------------------------------------------------------------------------
\* UpdateCheck keeps the invariant.
LEMMA UpdateCheckStep ==
    ASSUME Careful, UpgradeInv, NEW p \in Procs, UpdateCheck(p)
    PROVE  UpgradeInv'
<1>0. phase[p] = "check" /\ ProcInv(p) /\ job[p] \in Jobs /\ job[p].kind = "update"
    BY DEF UpdateCheck, UpgradeInv, ProcInv
<1>1. CASE finish(p)
    <2>1. UpgradeTypeOK'
        BY <1>1, EndStep DEF podVars, UpdateCheck, UpgradeInv, UpgradeTypeOK, nodeVars
    <2> QED BY <1>0, <1>1, <2>1, EndStep, NodesUnchanged, ProcessStep DEF UpdateCheck
<1>2. CASE ~finish(p)
    <2>0. /\ Acceptable(p)
          /\ phase' = [phase EXCEPT ![p] = "prepare"]
          /\ list' = [list EXCEPT ![p] = NoList]
          /\ UNCHANGED <<job, todo>> /\ UNCHANGED nodeVars
        BY <1>2 DEF UpdateCheck, advance
    <2>1. UpgradeTypeOK'
        BY <2>0 DEF podVars, UpgradeInv, UpgradeTypeOK, nodeVars, Phases
    <2>2. phase'[p] = "prepare" /\ job'[p] = job[p] /\ UNCHANGED <<tag, kubelet>>
        BY <2>0 DEF podVars, UpgradeInv, UpgradeTypeOK, nodeVars
    <2>3. target(p) \in Workers => \A c \in ControlPlane : tag[target(p)] <= kubelet[c]
        BY <1>0, <2>0, UpgradeAssumption DEF Acceptable, ProcInv, Workers
    <2>4. ProcInv(p)'
        BY <1>0, <2>2, <2>3 DEF ProcInv, updating, target
    <2> QED BY <1>0, <2>0, <2>1, <2>4, NodesUnchanged, ProcessStep
<1> QED BY <1>1, <1>2

\* The node is annotated, so what the script deploys later is its tag.
LEMMA PrepareStep ==
    ASSUME Careful, UpgradeInv, NEW p \in Procs, PrepareUpdate(p)
    PROVE  UpgradeInv'
<1>0. phase[p] = "prepare" /\ ProcInv(p) /\ job[p] \in Jobs /\ job[p].kind = "update"
    BY DEF PrepareUpdate, UpgradeInv, ProcInv, updating
<1>j. target(p) \in Nodes /\ job[p].force = FALSE
    BY <1>0, JobFields DEF target
<1>1. CASE finish(p)
    <2>1. UpgradeTypeOK'
        BY <1>1, EndStep DEF podVars, PrepareUpdate, UpgradeInv, UpgradeTypeOK, nodeVars
    <2> QED BY <1>0, <1>1, <2>1, EndStep, NodesUnchanged, ProcessStep DEF PrepareUpdate
<1>2. CASE ~finish(p)
    <2> DEFINE s == IF Nodes = {target(p)} THEN "script" ELSE "drain"
    <2>0. /\ target(p) \in annotated
          /\ phase' = [phase EXCEPT ![p] = s]
          /\ UNCHANGED <<job, list, todo>> /\ UNCHANGED nodeVars
        BY <1>2, <1>j DEF PrepareUpdate, advance
    <2>s. s \in {"script", "drain"}
        OBVIOUS
    <2> HIDE DEF s
    <2>1. UpgradeTypeOK'
        BY <2>0, <2>s DEF podVars, UpgradeInv, UpgradeTypeOK, nodeVars, Phases
    <2>2. phase'[p] = s /\ job' = job /\ UNCHANGED <<tag, kubelet, pulled>>
        BY <2>0 DEF podVars, UpgradeInv, UpgradeTypeOK, nodeVars
    <2>3. pulled[target(p)] = tag[target(p)]
        BY <2>0, <1>j DEF UpgradeInv, NodeInv
    <2>4. ProcInv(p)'
        BY <1>0, <2>2, <2>3, <2>s DEF ProcInv, updating, target
    <2> QED BY <1>0, <2>0, <2>1, <2>4, NodesUnchanged, ProcessStep
<1> QED BY <1>1, <1>2

\* Cordon keeps the invariant.
LEMMA CordonStep ==
    ASSUME Careful, UpgradeInv, NEW p \in Procs, Cordon(p)
    PROVE  UpgradeInv'
<1>0. phase[p] = "drain" /\ ProcInv(p) /\ job[p] \in Jobs /\ job[p].kind = "update"
    BY DEF Cordon, UpgradeInv, ProcInv, updating
<1>j. target(p) \in Nodes
    BY <1>0, JobFields DEF target
<1>1. UpgradeTypeOK'
    BY <1>j DEF Cordon, advance, UpgradeInv, UpgradeTypeOK, Phases
<1>2. \A m \in Nodes : NodeInv(m)'
    BY DEF Cordon, UpgradeInv, NodeInv
<1>3. \A m, k \in Nodes : PairInv(m, k)'
    BY DEF Cordon, UpgradeInv, PairInv
<1>4. phase'[p] = "evict" /\ job' = job /\ UNCHANGED <<tag, kubelet, pulled>>
    BY DEF Cordon, advance, UpgradeInv, UpgradeTypeOK
<1>5. ProcInv(p)'
    BY <1>0, <1>4 DEF ProcInv, updating, target
<1> QED BY <1>0, <1>1, <1>2, <1>3, <1>5, ProcessStep DEF Cordon, advance

\* Drain keeps the invariant.
LEMMA DrainStep ==
    ASSUME Careful, UpgradeInv, NEW p \in Procs, Drain(p)
    PROVE  UpgradeInv'
<1>0. phase[p] = "evict" /\ ProcInv(p) /\ job[p] \in Jobs /\ job[p].kind = "update"
    BY DEF Drain, UpgradeInv, ProcInv, updating
<1>j. target(p) \in Nodes
    BY <1>0, JobFields DEF target
<1>1. UpgradeTypeOK'
    BY <1>j DEF Drain, advance, UpgradeInv, UpgradeTypeOK, Phases
<1>2. \A m \in Nodes : NodeInv(m)'
    BY DEF Drain, UpgradeInv, NodeInv
<1>3. \A m, k \in Nodes : PairInv(m, k)'
    BY DEF Drain, UpgradeInv, PairInv
<1>4. phase'[p] = "script" /\ job' = job /\ UNCHANGED <<tag, kubelet, pulled>>
    BY DEF Drain, advance, UpgradeInv, UpgradeTypeOK
<1>5. ProcInv(p)'
    BY <1>0, <1>4 DEF ProcInv, updating, target
<1> QED BY <1>0, <1>1, <1>2, <1>3, <1>5, ProcessStep DEF Drain, advance

\* What is deployed is the tag of the node, and for a worker every control plane
\* node has reached it.
LEMMA UpdateScriptStep ==
    ASSUME Careful, UpgradeInv, NEW p \in Procs, UpdateScript(p)
    PROVE  UpgradeInv'
<1> USE StateTypes
<1>0. phase[p] = "script" /\ ProcInv(p) /\ job[p] \in Jobs /\ job[p].kind = "update"
    BY DEF podVars, UpdateScript, UpgradeInv, ProcInv, updating
<1>j. target(p) \in Nodes
    BY <1>0, JobFields DEF target
<1>t. /\ pulled[target(p)] = tag[target(p)]
      /\ target(p) \in Workers => \A c \in ControlPlane : tag[target(p)] <= kubelet[c]
    BY <1>0 DEF ProcInv
<1>d. \/ deployed' = [deployed EXCEPT ![target(p)] = pulled[target(p)]]
      \/ deployed' = deployed
    BY DEF podVars, UpdateScript
<1>1. UpgradeTypeOK'
    <2>1. deployed' \in [Nodes -> Int]
        BY <1>d, <1>j DEF UpgradeInv, UpgradeTypeOK
    <2> QED BY <2>1, <1>j DEF podVars, UpdateScript, advance, UpgradeInv, UpgradeTypeOK, Phases
<1>2. ASSUME NEW m \in Nodes PROVE NodeInv(m)'
    <2>1. deployed'[m] = deployed[m] \/ (m = target(p) /\ deployed'[m] = pulled[m])
        BY <1>d, <1>j DEF UpgradeInv, UpgradeTypeOK
    <2>2. NodeInv(m)
        BY DEF UpgradeInv
    <2>3. m \in annotated' => m \in annotated /\ UNCHANGED <<kubelet, tag, pulled>>
        BY DEF podVars, UpdateScript
    <2>4. UNCHANGED <<kubelet, tag, pulled>>
        BY DEF podVars, UpdateScript
    <2> QED BY <2>1, <2>2, <2>3, <2>4, <1>t DEF NodeInv
<1>3. ASSUME NEW m \in Nodes, NEW k \in Nodes PROVE PairInv(m, k)'
    <2>1. deployed'[m] = deployed[m] \/ (m = target(p) /\ deployed'[m] = tag[m])
        BY <1>d, <1>j, <1>t DEF UpgradeInv, UpgradeTypeOK
    <2>2. PairInv(m, k)
        BY DEF UpgradeInv
    <2>3. UNCHANGED <<kubelet, tag, pulled>>
        BY DEF podVars, UpdateScript
    <2> QED BY <2>1, <2>2, <2>3, <1>t DEF PairInv
<1>4. phase'[p] = "wait" /\ job' = job
    BY DEF podVars, UpdateScript, advance, UpgradeInv, UpgradeTypeOK
<1>5. ProcInv(p)'
    BY <1>0, <1>4 DEF ProcInv, updating
<1> QED BY <1>0, <1>1, <1>2, <1>3, <1>5, ProcessStep DEF podVars, UpdateScript, advance

\* WaitReady keeps the invariant.
LEMMA WaitReadyStep ==
    ASSUME Careful, UpgradeInv, NEW p \in Procs, WaitReady(p)
    PROVE  UpgradeInv'
<1>0. phase[p] = "wait" /\ ProcInv(p) /\ job[p] \in Jobs /\ job[p].kind = "update"
    BY DEF WaitReady, UpgradeInv, ProcInv, updating
<1>1. UpgradeTypeOK'
    BY DEF podVars, WaitReady, advance, UpgradeInv, UpgradeTypeOK, nodeVars, Phases
<1>2. phase'[p] = "uncordon" /\ job' = job
    BY DEF WaitReady, advance, UpgradeInv, UpgradeTypeOK
<1>3. ProcInv(p)'
    BY <1>0, <1>2 DEF ProcInv, updating
<1> QED BY <1>0, <1>1, <1>3, NodesUnchanged, ProcessStep DEF WaitReady, advance

\* Uncordon keeps the invariant.
LEMMA UncordonStep ==
    ASSUME Careful, UpgradeInv, NEW p \in Procs, Uncordon(p)
    PROVE  UpgradeInv'
<1>1. UpgradeTypeOK'
    BY EndStep DEF Uncordon, UpgradeInv, UpgradeTypeOK
<1>2. \A m \in Nodes : NodeInv(m)'
    BY DEF Uncordon, UpgradeInv, NodeInv
<1>3. \A m, k \in Nodes : PairInv(m, k)'
    BY DEF Uncordon, UpgradeInv, PairInv
<1> QED BY <1>1, <1>2, <1>3, EndStep, ProcessStep DEF Uncordon

-----------------------------------------------------------------------------
\* Every step of a command, of a node or of neither keeps the invariant.
LEMMA UpgradeInvStep ==
    ASSUME Careful
    PROVE  UpgradeInv /\ [UpgradeNext]_upgradeVars => UpgradeInv'
<1> SUFFICES ASSUME UpgradeInv, [UpgradeNext]_upgradeVars PROVE UpgradeInv'
    OBVIOUS
<1>1. ASSUME NEW p \in Procs, Command(p) PROVE UpgradeInv'
    BY <1>1, GetNodeListStep, StageCheckStep, StageNodeStep, StageNodeFailsStep, StageConfigStep,
       UpdateCheckStep, PrepareStep, CordonStep, DrainStep, UpdateScriptStep, WaitReadyStep, UncordonStep
       DEF Command
<1>2. ASSUME NEW p \in Procs, NEW j \in Jobs, Issue(p, j) PROVE UpgradeInv'
    BY <1>2, BeginStep
<1>3. ASSUME NEW p \in Procs, Fails(p) PROVE UpgradeInv'
    BY <1>3, FailsStep
<1>4. ASSUME NEW n \in Nodes, ServicePulls(n) \/ GoesDown(n) \/ LeaseExpires(n) \/ Boots(n)
                              \/ Schedules(n)
      PROVE  UpgradeInv'
    BY <1>4, ServicePullsStep, GoesDownStep, LeaseExpiresStep, BootsStep, SchedulesStep
<1>5. CASE UNCHANGED upgradeVars
    BY <1>5 DEF upgradeVars, UpgradeInv, UpgradeTypeOK, NodeInv, PairInv, ProcInv, target, settled
<1> QED BY <1>1, <1>2, <1>3, <1>4, <1>5 DEF UpgradeNext

\* With careful use the checks of stage and node update never go out of date.
THEOREM UpgradeInvHolds ==
    ASSUME Careful
    PROVE  UpgradeSpec => []UpgradeInv
BY UpgradeInvInit, UpgradeInvStep, PTL DEF UpgradeSpec

\* With careful use no worker runs a newer minor version than a control plane
\* node, for every size of cluster and every order of updates, failures and
\* restarts (areControlPlaneNodesAcceptable).
THEOREM WorkersStayBehind ==
    ASSUME Careful
    PROVE  UpgradeSpec => []WorkerNotAhead
<1>1. UpgradeInv => WorkerNotAhead
    <2> SUFFICES ASSUME UpgradeInv, NEW w \in Workers, NEW c \in ControlPlane
                 PROVE  kubelet[w] <= kubelet[c]
        BY DEF WorkerNotAhead
    <2>1. w \in Nodes /\ c \in Nodes
        BY UpgradeAssumption DEF Workers
    <2>2. kubelet[w] <= deployed[w] /\ deployed[w] <= kubelet[c]
        BY <2>1 DEF UpgradeInv, NodeInv, PairInv
    <2> QED BY <2>1, <2>2, StateTypes
<1> QED BY <1>1, UpgradeInvHolds, PTL

\* With careful use all nodes stay within one minor version of each other
\* (stageNodeClusterCheck).
THEOREM SkewStaysWithinOne ==
    ASSUME Careful
    PROVE  UpgradeSpec => []SkewWithinOne
<1>1. UpgradeInv => SkewWithinOne
    <2> SUFFICES ASSUME UpgradeInv, NEW n \in Nodes, NEW m \in Nodes
                 PROVE  kubelet[n] <= kubelet[m] + 1
        BY DEF SkewWithinOne
    <2>1. kubelet[n] <= deployed[n] /\ deployed[n] <= tag[n] /\ tag[n] <= kubelet[m] + 1
        BY DEF UpgradeInv, NodeInv, PairInv
    <2> QED BY <2>1, StateTypes
<1> QED BY <1>1, UpgradeInvHolds, PTL

\* With careful use no node is ever downgraded, although stage lets a lower
\* version replace one that was pulled and not applied (stageNodeVersionCheck).
THEOREM NodesNeverDowngrade ==
    ASSUME Careful
    PROVE  UpgradeSpec => NoDowngrade
<1>1. UpgradeInv /\ [UpgradeNext]_upgradeVars => [\A n \in Nodes : kubelet'[n] >= kubelet[n]]_upgradeVars
    <2> SUFFICES ASSUME UpgradeInv, UpgradeNext, NEW n \in Nodes PROVE kubelet'[n] >= kubelet[n]
        OBVIOUS
    <2>1. kubelet' = kubelet \/ \E m \in Nodes : Boots(m)
        BY DEF podVars, UpgradeNext, Command, GetNodeList, StageCheck, StageConfig, StageNode, StageNodeFails,
               UpdateCheck, PrepareUpdate, Cordon, Drain, UpdateScript, WaitReady, Uncordon, Fails,
               Issue, ServicePulls, GoesDown, LeaseExpires, Schedules, nodeVars
    <2>2. CASE kubelet' = kubelet
        BY <2>2, StateTypes
    <2>3. ASSUME NEW m \in Nodes, Boots(m) PROVE kubelet'[n] >= kubelet[n]
        BY <2>3, StateTypes DEF podVars, Boots, UpgradeInv, UpgradeTypeOK, NodeInv
    <2> QED BY <2>1, <2>2, <2>3
<1> QED BY <1>1, UpgradeInvHolds, PTL DEF UpgradeSpec, NoDowngrade

\* The steps of a command: a node is emptied before the script, and only the
\* command that works on it takes its cordon away.
LEMMA DrainInvCommand ==
    ASSUME Careful, UpgradeInv, DrainInv, NEW p \in Procs, Command(p)
    PROVE  DrainInv'
<1> USE DEF UpgradeInv, UpgradeTypeOK, DrainInv, podVars
<1>1. CASE GetNodeList(p)
    BY <1>1 DEF podVars, GetNodeList, advance, nodeVars, target
<1>2. CASE StageCheck(p)
    BY <1>2 DEF podVars, StageCheck, advance, finish, nodeVars, target
<1>3. CASE StageConfig(p)
    BY <1>3 DEF podVars, StageConfig, advance, finish, target
<1>4. ASSUME NEW n \in Nodes, StageNode(p, n) \/ StageNodeFails(p, n) PROVE DrainInv'
    BY <1>4 DEF podVars, StageNode, StageNodeFails, target
<1>5. CASE UpdateCheck(p)
    BY <1>5 DEF podVars, UpdateCheck, advance, finish, nodeVars, target
<1>6. CASE PrepareUpdate(p)
    BY <1>6 DEF podVars, PrepareUpdate, advance, finish, nodeVars, target
<1>7. CASE Cordon(p)
    BY <1>7 DEF Cordon, advance, target
<1>8. CASE Drain(p)
    <2>1. target(p) \in cordoned
        BY <1>8 DEF Drain
    <2> QED BY <1>8, <2>1 DEF Drain, advance, target
<1>9. CASE UpdateScript(p)
    <2>1. \A q \in Procs \ {p} : phase[q] = "idle"
        BY <1>9, Alone DEF podVars, UpdateScript
    <2> QED BY <1>9, <2>1 DEF podVars, UpdateScript, advance, target
<1>10. CASE WaitReady(p)
    BY <1>10 DEF podVars, WaitReady, advance, nodeVars, target
<1>11. CASE Uncordon(p)
    <2>1. \A q \in Procs \ {p} : phase[q] = "idle"
        BY <1>11, Alone DEF Uncordon
    <2> QED BY <1>11, <2>1 DEF Uncordon, advance, finish, target
<1> QED BY <1>1, <1>2, <1>3, <1>4, <1>5, <1>6, <1>7, <1>8, <1>9, <1>10, <1>11 DEF Command

\* With careful use the update that reboots a node has emptied it itself
\* (prepareNode, cordonAndDrainNode), for every size of cluster and whatever
\* earlier updates left behind, and the node stays empty until it goes down
\* unless that update uncordons it first (WaitUntilNodeIsReady).
THEOREM NodesRebootDrained ==
    ASSUME Careful
    PROVE  UpgradeSpec => []RebootsDrained
<1>1. UpgradeInit => DrainInv
    BY DEF UpgradeInit, DrainInv
<1>2. UpgradeInv /\ DrainInv /\ [UpgradeNext]_upgradeVars => DrainInv'
    <2> SUFFICES ASSUME UpgradeInv, DrainInv, [UpgradeNext]_upgradeVars PROVE DrainInv'
        OBVIOUS
    <2>1. ASSUME NEW p \in Procs, Command(p) PROVE DrainInv'
        BY <2>1, DrainInvCommand
    <2>2. ASSUME NEW p \in Procs, NEW j \in Jobs, Issue(p, j) PROVE DrainInv'
        BY <2>2 DEF Issue, advance, nodeVars, podVars, UpgradeInv, UpgradeTypeOK, DrainInv, target
    <2>3. ASSUME NEW p \in Procs, Fails(p) PROVE DrainInv'
        BY <2>3 DEF Fails, advance, finish, nodeVars, podVars, UpgradeInv, UpgradeTypeOK, DrainInv, target
    <2>4. ASSUME NEW n \in Nodes, ServicePulls(n) \/ GoesDown(n) \/ LeaseExpires(n) \/ Boots(n)
                                \/ Schedules(n)
          PROVE  DrainInv'
        BY <2>4 DEF ServicePulls, GoesDown, LeaseExpires, Boots, Schedules, procVars, podVars,
                    DrainInv, target
    <2>5. CASE UNCHANGED upgradeVars
        BY <2>5 DEF upgradeVars, DrainInv, target
    <2> QED BY <2>1, <2>2, <2>3, <2>4, <2>5 DEF UpgradeNext
<1>3. DrainInv => RebootsDrained
    BY DEF DrainInv, RebootsDrained
<1> QED BY <1>1, <1>2, <1>3, UpgradeInvHolds, PTL DEF UpgradeSpec

\* With careful use the version skew between the nodes stays within the policy
\* that stage and node update check, at every moment of every update.
THEOREM SkewPolicyKept ==
    ASSUME Careful
    PROVE  UpgradeSpec => []SkewPolicy
BY WorkersStayBehind, SkewStaysWithinOne, PTL DEF SkewPolicy
=============================================================================
