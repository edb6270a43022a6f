------------------------ MODULE ManagedMysqldProofs ------------------------
(***************************************************************************)
(* What is proved of pview with a mysqld of its own, for any number of     *)
(* runs, crashes anywhere, and any failure of the children.                *)
(***************************************************************************)
EXTENDS ManagedMysqld, TLAPS

\* What has not begun: nothing yet of later runs, and of the current one before it
\* starts its children.
NotBegun ==
  /\ \A r \in Runs : r > run => /\ initializer[r] = "none" /\ server[r] = "none"
                                /\ ended[r] = "not_yet"
  /\ main = "start_mysqld" => initializer[run] = "none"
  /\ main # "off" /\ ~running => server[run] = "none"
  /\ main \in {"start_mysqld", "waitpid", "exec_mysqld"} => ~running
  /\ main = "connect" => running

\* An initialization goes on behind nobody's back: check_command waits for it, or its
\* pview crashed.
Watched ==
  \A r \in Runs : initializer[r] \in {"running", "writing", "lost"} =>
    \/ ended[r] = "crashed"
    \/ r = run /\ main = "waitpid"

\* Where incomplete data come from.
Origin ==
  /\ datadir = "partial" => \E r \in Runs : initializer[r] \in {"writing", "failed"}
  /\ \A r \in Runs : initializer[r] = "done" => datadir = "inited"

MysqldInv == /\ TypeOK /\ NotBegun /\ Watched /\ Origin
             /\ NotOutlived /\ StartsOnCompleteData

LEMMA MysqldInvInit == Init => MysqldInv
<1> SUFFICES ASSUME Init PROVE MysqldInv
  OBVIOUS
<1>1. TypeOK
  <2>0. running \in BOOLEAN
    BY Zenon DEF Init
  <2>1. run \in 0 .. NumRuns /\ main = "off"
    BY NumRunsAssumption DEF Init
  <2>2. /\ kill_at_exit \in [Runs -> BOOLEAN] /\ datadir \in {"absent", "empty"}
        /\ initializer \in [Runs -> {"none"}] /\ server \in [Runs -> {"none"}]
        /\ ended \in [Runs -> {"not_yet"}]
    BY DEF Init
  <2>3. QED
    BY <2>0, <2>1, <2>2 DEF TypeOK
<1>2. NotBegun /\ Watched /\ Origin
  BY DEF Init, NotBegun, Watched, Origin
<1>3. NotOutlived /\ StartsOnCompleteData
  BY DEF Init, NotOutlived, StartsOnCompleteData
<1>4. QED
  BY <1>1, <1>2, <1>3 DEF MysqldInv

LEMMA MysqldInvNext == MysqldInv /\ [Next]_vars => MysqldInv'
<1> SUFFICES ASSUME MysqldInv, [Next]_vars PROVE MysqldInv'
  OBVIOUS
<1> USE NumRunsAssumption DEF Runs, MysqldInv, TypeOK, NotBegun, Watched, Origin, NotOutlived,
                              StartsOnCompleteData
<1>1. CASE StartRun
  <2>0. running' \in BOOLEAN /\ ~running'
    BY <1>1, Zenon DEF StartRun
  <2>1. /\ run' \in Runs /\ run' = run + 1 /\ main' \in {"start_mysqld", "failed"}
        /\ UNCHANGED <<kill_at_exit, datadir, initializer, server, ended>>
    BY <1>1 DEF StartRun
  <2>2. TypeOK'
    BY <2>0, <2>1
  <2>3. NotBegun' /\ Watched' /\ Origin' /\ NotOutlived' /\ StartsOnCompleteData'
    BY <1>1, <2>0, <2>1 DEF StartRun
  <2>4. QED
    BY <2>2, <2>3
<1>2. CASE IsEmptyThrows
  BY <1>2 DEF IsEmptyThrows
<1>3. CASE SkipInitialize
  BY <1>3 DEF SkipInitialize
<1>4. CASE Initialize
  BY <1>4 DEF Initialize
<1>5. CASE CheckCommand
  BY <1>5 DEF CheckCommand
<1>6. CASE ExecMysqld
  <2>1. CASE main' = "failed" /\ UNCHANGED <<server, running>>
    BY <1>6, <2>1 DEF ExecMysqld
  <2>2. ASSUME main' = "connect", running' = TRUE, NEW s \in {"starting", "dead"},
               server' = [server EXCEPT ![run] = s]
        PROVE  MysqldInv'
    <3>1. UNCHANGED <<run, kill_at_exit, datadir, initializer, ended>> /\ main = "exec_mysqld"
      BY <1>6 DEF ExecMysqld
    <3>2. TypeOK' /\ NotBegun'
      BY <2>2, <3>1
    <3>3. Watched' /\ Origin'
      BY <2>2, <3>1
    <3>4. NotOutlived' /\ StartsOnCompleteData'
      BY <2>2, <3>1
    <3>5. QED
      BY <3>2, <3>3, <3>4
  <2>3. QED
    BY <1>6, <2>1, <2>2 DEF ExecMysqld
<1>7. CASE Connect
  BY <1>7 DEF Connect
<1>8. CASE Return
  BY <1>8 DEF Return
<1>9. CASE Crash
  BY <1>9 DEF Crash
<1>10. ASSUME NEW r \in Runs, Write(r) PROVE MysqldInv'
  BY <1>10 DEF Write
<1>11. ASSUME NEW r \in Runs, Complete(r) PROVE MysqldInv'
  BY <1>11 DEF Complete
<1>12. ASSUME NEW r \in Runs, FailToInitialize(r) PROVE MysqldInv'
  BY <1>12 DEF FailToInitialize
<1>13. ASSUME NEW r \in Runs, ComeUp(r) PROVE MysqldInv'
  BY <1>13 DEF ComeUp
<1>14. ASSUME NEW r \in Runs, Die(r) PROVE MysqldInv'
  BY <1>14 DEF Die
<1>15. CASE UNCHANGED vars
  BY <1>15 DEF vars
<1>16. QED
  BY <1>1, <1>2, <1>3, <1>4, <1>5, <1>6, <1>7, <1>8, <1>9, <1>10, <1>11, <1>12, <1>13, <1>14,
     <1>15 DEF Next, Pview

\* The invariant holds in every run of pview and its children (MYSQLMgr.cc:22-343).
THEOREM MysqldInvariant == Spec => []MysqldInv
BY MysqldInvInit, MysqldInvNext, PTL DEF Spec

\* The variables keep their types: status_.mysqld_pid is a child's whenever
\* status_.running is set (MYSQLMgr.cc:333-341).
THEOREM MysqldTypes == Spec => []TypeOK
BY MysqldInvariant, PTL DEF MysqldInv

\* A mysqld told to be killed at exit does not outlive a pview that returns, however
\* many runs there were before and whoever else serves (MYSQLMgr.cc:31-47).
THEOREM KilledAtExit == Spec => []NotOutlived
BY MysqldInvariant, PTL DEF MysqldInv

\* mysqld starts on complete data unless an earlier run crashed or an initialization
\* failed (MYSQLMgr.cc:259-291).
THEOREM CompleteUnlessCrashed == Spec => []StartsOnCompleteData
BY MysqldInvariant, PTL DEF MysqldInv
=============================================================================
