-------------------------- MODULE SupervisorProofs --------------------------
(***************************************************************************)
(* Proofs about Supervisor, for every set of services, pids and policies   *)
(* and every interval, retry count and grace period.                       *)
(***************************************************************************)
EXTENDS Supervisor, TLAPS

USE ServicesAssumption, PoliciesAssumption, TimesAssumption, FlagsAssumption
    DEF ServicesAssumption, PoliciesAssumption, TimesAssumption, FlagsAssumption

\* The initial state is well typed.
LEMMA InitType == ASSUME Init PROVE TypeOK
<1> USE DEF Init, TypeOK
<1>1. /\ policy \in [Services -> Policies]
      /\ pc \in [Services -> ScriptPCs]
      /\ pid \in [Services -> Pids \cup {NoPid}]
      /\ pidfile \in Pids \cup {NoPid}
      /\ fate \in [Pids -> Fates]
      /\ owner \in [Pids -> Services]
      /\ status \in [Pids -> {"none", "zero", "nonzero"}]
      /\ wedged \subseteq Pids /\ hcTermed \subseteq Pids /\ sdTermed \subseteq Pids
      /\ killed \in BOOLEAN /\ sd \in ShutPCs
  BY DEF ScriptPCs, Fates, ShutPCs
<1>2. /\ timer \in [Services -> Nat]
      /\ n \in [Services -> 0..BackoffCap]
      /\ ran \in [Services -> 0..(BackoffCap + 1)]
      /\ failcount \in Nat /\ crashes \in 0..MaxCrash
      /\ sdn \in Nat /\ sdTimer \in 0..1 /\ sdClock \in 0..ClockCap
  BY DEF ClockCap
<1> QED
  BY <1>1, <1>2

\* Every step preserves the type invariant.
LEMMA TypeStep == ASSUME TypeOK, [Next]_vars PROVE TypeOK'
<1> USE DEF TypeOK, ScriptPCs, Fates, ShutPCs, ClockCap, scriptVars, healthVars,
            procVars, shutVars
<1>1. ASSUME NEW s \in Services, Start(s) PROVE TypeOK'
  BY <1>1 DEF Start
<1>2. ASSUME NEW s \in Services, Launch(s) PROVE TypeOK'
  BY <1>2 DEF Launch
<1>3. ASSUME NEW s \in Services, RecordPid(s) PROVE TypeOK'
  BY <1>3 DEF RecordPid
<1>4. ASSUME NEW s \in Services, Poll(s) PROVE TypeOK'
  BY <1>4 DEF Poll
<1>5. ASSUME NEW s \in Services, Wake(s) PROVE TypeOK'
  BY <1>5 DEF Wake
<1>6. ASSUME NEW s \in Services, HcPass(s) PROVE TypeOK'
  BY <1>6 DEF HcPass
<1>7. ASSUME NEW s \in Services, HcFail(s) PROVE TypeOK'
  <2> USE <1>7 DEF HcFail
  <2>1. failcount' \in Nat
    BY DEF Counted
  <2>2. killed' \in BOOLEAN
    BY Zenon
  <2>3. fate' \in [Pids -> Fates] /\ status' \in [Pids -> {"none", "zero", "nonzero"}]
    BY DEF Alive
  <2>4. wedged' \subseteq Pids /\ hcTermed' \subseteq Pids /\ sdTermed' \subseteq Pids
    BY DEF Alive
  <2>5. pc' \in [Services -> ScriptPCs]
    OBVIOUS
  <2>6. UNCHANGED <<policy, timer, pid, n, ran, pidfile, owner, crashes, sd, sdn,
                    sdTimer, sdClock>>
    OBVIOUS
  <2> QED
    BY <2>1, <2>2, <2>3, <2>4, <2>5, <2>6
<1>8. ASSUME NEW s \in Services, Reap(s) PROVE TypeOK'
  BY <1>8 DEF Reap, NextBackoff, Minimum
<1>9. ASSUME NEW s \in Services, BackoffOver(s) PROVE TypeOK'
  BY <1>9 DEF BackoffOver
<1>10. ASSUME NEW s \in Services, Respawn(s) PROVE TypeOK'
  BY <1>10 DEF Respawn
<1>11. ASSUME NEW s \in Services, HcHang(s) PROVE TypeOK'
  BY <1>11 DEF HcHang
<1>12. ASSUME NEW s \in Services, SupervisorKilled(s) PROVE TypeOK'
  BY <1>12 DEF SupervisorKilled
<1>13. ASSUME NEW p \in Pids, Wedge(p) PROVE TypeOK'
  BY <1>13 DEF Wedge
<1>14. ASSUME NEW p \in Pids, NEW c \in {"zero", "nonzero"}, Exit(p, c) PROVE TypeOK'
  BY <1>14 DEF Exit
<1>15. CASE Poweroff
  BY <1>15 DEF Poweroff
<1>16. CASE SdTerm
  BY <1>16 DEF SdTerm, Alive
<1>17. CASE SdLoop
  BY <1>17 DEF SdLoop, GraceLeft
<1>18. CASE SdSlept
  BY <1>18 DEF SdSlept
<1>19. CASE SdKill0
  BY <1>19 DEF SdKill0
<1>20. CASE SdKill9
  BY <1>20 DEF SdKill9
<1>21. CASE InitTerm
  BY <1>21 DEF InitTerm
<1>22. CASE InitKill
  BY <1>22 DEF InitKill
<1>23. CASE Tick
  BY <1>23 DEF Tick, Minimum
<1>24. CASE Halted
  BY <1>24 DEF Halted, vars
<1>25. CASE UNCHANGED vars
  BY <1>25 DEF vars
<1> QED
  BY <1>1, <1>2, <1>3, <1>4, <1>5, <1>6, <1>7, <1>8, <1>9, <1>10, <1>11, <1>12,
     <1>13, <1>14, <1>15, <1>16, <1>17, <1>18, <1>19, <1>20, <1>21, <1>22, <1>23,
     <1>24, <1>25
  DEF Next, Script, Shutdown

\* Type correctness of the supervisors and the shutdown script.
THEOREM TypeCorrect == Spec => []TypeOK
<1>1. Init => TypeOK
  BY InitType
<1>2. TypeOK /\ [Next]_vars => TypeOK'
  BY TypeStep
<1> QED
  BY <1>1, <1>2, PTL DEF Spec

-----------------------------------------------------------------------------

\* A script holds a $pid exactly while it waits for that process.
LEMMA ScriptStep ==
  ASSUME TypeOK, ScriptInv, [Next]_vars
  PROVE  ScriptInv'
<1> USE DEF TypeOK, ScriptInv, Holding, Watching, Tracked, Alive, scriptVars,
            healthVars, procVars, shutVars
<1>1. ASSUME NEW s \in Services, Launch(s) PROVE ScriptInv'
  BY <1>1 DEF Launch
<1>2. ASSUME NEW s \in Services, Poll(s) PROVE ScriptInv'
  BY <1>2 DEF Poll
<1>3. ASSUME NEW s \in Services, HcFail(s) PROVE ScriptInv'
  BY <1>3 DEF HcFail, Signal
<1>4. ASSUME NEW s \in Services, Reap(s) PROVE ScriptInv'
  BY <1>4 DEF Reap
<1>5. ASSUME NEW s \in Services, SupervisorKilled(s) PROVE ScriptInv'
  BY <1>5 DEF SupervisorKilled
<1>6. ASSUME NEW p \in Pids, NEW c \in {"zero", "nonzero"}, Exit(p, c) PROVE ScriptInv'
  BY <1>6 DEF Exit
<1>7. CASE SdKill9
  BY <1>7 DEF SdKill9
<1>8. CASE InitTerm
  BY <1>8 DEF InitTerm
<1>9. CASE InitKill
  BY <1>9 DEF InitKill
<1>10. ASSUME NEW s \in Services,
             Start(s) \/ RecordPid(s) \/ Wake(s) \/ HcPass(s) \/
             BackoffOver(s) \/ Respawn(s) \/ HcHang(s)
      PROVE  ScriptInv'
  BY <1>10 DEF Start, RecordPid, Wake, HcPass, BackoffOver, Respawn, HcHang
<1>11. ASSUME NEW p \in Pids, Wedge(p) PROVE ScriptInv'
  BY <1>11 DEF Wedge
<1>12. CASE Poweroff \/ SdTerm \/ SdLoop \/ SdSlept \/ SdKill0 \/ Tick \/
           Halted \/ UNCHANGED vars
  BY <1>12 DEF Poweroff, SdTerm, SdLoop, GraceLeft, SdSlept, SdKill0, Tick,
         Halted, vars
<1> QED
  BY <1>1, <1>2, <1>3, <1>4, <1>5, <1>6, <1>7, <1>8, <1>9, <1>10, <1>11, <1>12
     DEF Next, Script, Shutdown

\* $killed is reset before the script looks at a new process.
LEMMA KilledStep ==
  ASSUME TypeOK, ScriptInv, KilledInv, [Next]_vars
  PROVE  KilledInv'
<1> USE DEF TypeOK, ScriptInv, KilledInv, Holding, Watching, Tracked, Alive,
            scriptVars, healthVars, procVars, shutVars
<1>1. ASSUME NEW s \in Services, Start(s) PROVE KilledInv'
  BY <1>1 DEF Start
<1>2. ASSUME NEW s \in Services, Launch(s) PROVE KilledInv'
  BY <1>2 DEF Launch
<1>3. ASSUME NEW s \in Services, RecordPid(s) PROVE KilledInv'
  BY <1>3 DEF RecordPid
<1>4. ASSUME NEW s \in Services, Poll(s) PROVE KilledInv'
  BY <1>4 DEF Poll
<1>5. ASSUME NEW s \in Services, Wake(s) PROVE KilledInv'
  BY <1>5 DEF Wake
<1>6. ASSUME NEW s \in Services, HcPass(s) PROVE KilledInv'
  BY <1>6 DEF HcPass
<1>7. ASSUME NEW s \in Services, HcFail(s) PROVE KilledInv'
  BY <1>7 DEF HcFail, Signal
<1>8. ASSUME NEW s \in Services, Reap(s) PROVE KilledInv'
  BY <1>8 DEF Reap
<1>9. ASSUME NEW s \in Services, BackoffOver(s) PROVE KilledInv'
  BY <1>9 DEF BackoffOver
<1>10. ASSUME NEW s \in Services, Respawn(s) PROVE KilledInv'
  BY <1>10 DEF Respawn
<1>11. ASSUME NEW s \in Services, HcHang(s) PROVE KilledInv'
  BY <1>11 DEF HcHang
<1>12. ASSUME NEW s \in Services, SupervisorKilled(s) PROVE KilledInv'
  BY <1>12 DEF SupervisorKilled
<1>13. ASSUME NEW p \in Pids, Wedge(p) PROVE KilledInv'
  BY <1>13 DEF Wedge
<1>14. ASSUME NEW p \in Pids, NEW c \in {"zero", "nonzero"}, Exit(p, c) PROVE KilledInv'
  BY <1>14 DEF Exit
<1>15. CASE Poweroff
  BY <1>15 DEF Poweroff
<1>16. CASE SdTerm
  BY <1>16 DEF SdTerm
<1>17. CASE SdLoop
  BY <1>17 DEF SdLoop, GraceLeft
<1>18. CASE SdSlept
  BY <1>18 DEF SdSlept
<1>19. CASE SdKill0
  BY <1>19 DEF SdKill0
<1>20. CASE SdKill9
  BY <1>20 DEF SdKill9
<1>21. CASE InitTerm
  BY <1>21 DEF InitTerm
<1>22. CASE InitKill
  BY <1>22 DEF InitKill
<1>23. CASE Tick
  BY <1>23 DEF Tick
<1>24. CASE Halted
  BY <1>24 DEF Halted, vars
<1>25. CASE UNCHANGED vars
  BY <1>25 DEF vars
<1> QED
  BY <1>1, <1>2, <1>3, <1>4, <1>5, <1>6, <1>7, <1>8, <1>9, <1>10, <1>11,
     <1>12, <1>13, <1>14, <1>15, <1>16, <1>17, <1>18, <1>19, <1>20, <1>21,
     <1>22, <1>23, <1>24, <1>25 DEF Next, Script, Shutdown

\* SIGKILL from the health check comes second.
LEMMA TermStep ==
  ASSUME TypeOK, ScriptInv, KilledInv, TermBeforeKill, [Next]_vars
  PROVE  TermBeforeKill'
<1> USE DEF TypeOK, ScriptInv, KilledInv, TermBeforeKill, Holding, Watching,
            Tracked, Alive, scriptVars, healthVars, procVars, shutVars
<1>1. ASSUME NEW s \in Services, Launch(s) PROVE TermBeforeKill'
  BY <1>1 DEF Launch
<1>2. ASSUME NEW s \in Services, HcFail(s) PROVE TermBeforeKill'
  BY <1>2 DEF HcFail, Signal
<1>3. ASSUME NEW p \in Pids, NEW c \in {"zero", "nonzero"}, Exit(p, c) PROVE TermBeforeKill'
  BY <1>3 DEF Exit
<1>4. CASE SdKill9
  BY <1>4 DEF SdKill9
<1>5. CASE InitKill
  BY <1>5 DEF InitKill
<1>6. ASSUME NEW s \in Services,
             Start(s) \/ RecordPid(s) \/ Poll(s) \/ Wake(s) \/ HcPass(s) \/
             Reap(s) \/ BackoffOver(s) \/ Respawn(s) \/ HcHang(s) \/
             SupervisorKilled(s)
      PROVE  TermBeforeKill'
  BY <1>6 DEF Start, RecordPid, Poll, Wake, HcPass, Reap, BackoffOver,
         Respawn, HcHang, SupervisorKilled
<1>7. ASSUME NEW p \in Pids, Wedge(p) PROVE TermBeforeKill'
  BY <1>7 DEF Wedge
<1>8. CASE Poweroff \/ SdTerm \/ SdLoop \/ SdSlept \/ SdKill0 \/ InitTerm \/
           Tick \/ Halted \/ UNCHANGED vars
  BY <1>8 DEF Poweroff, SdTerm, SdLoop, GraceLeft, SdSlept, SdKill0, InitTerm,
         Tick, Halted, vars
<1> QED
  BY <1>1, <1>2, <1>3, <1>4, <1>5, <1>6, <1>7, <1>8 DEF Next, Script, Shutdown

\* No script comes back once init has signalled everybody.
LEMMA OverStep ==
  ASSUME TypeOK, OverInv, [Next]_vars
  PROVE  OverInv'
<1> USE DEF TypeOK, OverInv, Ended, ShuttingDown, scriptVars, healthVars,
            procVars, shutVars
<1>1. ASSUME NEW s \in Services, Respawn(s) PROVE OverInv'
  BY <1>1 DEF Respawn
<1>2. CASE InitTerm
  BY <1>2 DEF InitTerm
<1>3. ASSUME NEW s \in Services,
             Start(s) \/ Launch(s) \/ RecordPid(s) \/ Poll(s) \/ Wake(s) \/
             HcPass(s) \/ HcFail(s) \/ Reap(s) \/ BackoffOver(s) \/ HcHang(s)
             \/ SupervisorKilled(s)
      PROVE  OverInv'
  BY <1>3 DEF Start, Launch, RecordPid, Poll, Wake, HcPass, HcFail, Signal,
         Reap, BackoffOver, HcHang, SupervisorKilled
<1>4. ASSUME NEW p \in Pids, Wedge(p) PROVE OverInv'
  BY <1>4 DEF Wedge
<1>5. ASSUME NEW p \in Pids, NEW c \in {"zero", "nonzero"}, Exit(p, c) PROVE OverInv'
  BY <1>5 DEF Exit
<1>6. CASE Poweroff \/ SdTerm \/ SdLoop \/ SdSlept \/ SdKill0 \/ SdKill9 \/
           InitKill \/ Tick \/ Halted \/ UNCHANGED vars
  BY <1>6 DEF Poweroff, SdTerm, SdLoop, GraceLeft, SdSlept, SdKill0, SdKill9,
         InitKill, Tick, Halted, vars
<1> QED
  BY <1>1, <1>2, <1>3, <1>4, <1>5, <1>6 DEF Next, Script, Shutdown

\* A live process is waited for, and nobody restarts a service that is done.
LEMMA OwnerStep ==
  ASSUME TypeOK, ScriptInv, OverInv, OwnerInv, [Next]_vars
  PROVE  OwnerInv'
<1> USE DEF TypeOK, ScriptInv, OverInv, OwnerInv, Completed, Holding, Ended,
            Alive, scriptVars, healthVars, procVars, shutVars
<1>1. ASSUME NEW s \in Services, Launch(s) PROVE OwnerInv'
  BY <1>1 DEF Launch
<1>2. ASSUME NEW s \in Services, HcFail(s) PROVE OwnerInv'
  BY <1>2 DEF HcFail, Signal
<1>3. ASSUME NEW s \in Services, Reap(s) PROVE OwnerInv'
  BY <1>3 DEF Reap, StopsAfter
<1>4. ASSUME NEW s \in Services, Respawn(s) PROVE OwnerInv'
  BY <1>4 DEF Respawn, InittabAction
<1>5. ASSUME NEW s \in Services, SupervisorKilled(s) PROVE OwnerInv'
  BY <1>5 DEF SupervisorKilled
<1>6. ASSUME NEW p \in Pids, NEW c \in {"zero", "nonzero"}, Exit(p, c) PROVE OwnerInv'
  BY <1>6 DEF Exit
<1>7. CASE Poweroff
  BY <1>7 DEF Poweroff
<1>8. CASE SdKill9
  BY <1>8 DEF SdKill9
<1>9. CASE InitTerm
  BY <1>9 DEF InitTerm
<1>10. CASE InitKill
  BY <1>10 DEF InitKill
<1>11. ASSUME NEW s \in Services,
             Start(s) \/ RecordPid(s) \/ Poll(s) \/ Wake(s) \/ HcPass(s) \/
             BackoffOver(s) \/ HcHang(s)
      PROVE  OwnerInv'
  BY <1>11 DEF Start, RecordPid, Poll, Wake, HcPass, BackoffOver, HcHang
<1>12. ASSUME NEW p \in Pids, Wedge(p) PROVE OwnerInv'
  BY <1>12 DEF Wedge
<1>13. CASE SdTerm \/ SdLoop \/ SdSlept \/ SdKill0 \/ Tick \/ Halted \/
           UNCHANGED vars
  BY <1>13 DEF SdTerm, SdLoop, GraceLeft, SdSlept, SdKill0, Tick, Halted, vars
<1> QED
  BY <1>1, <1>2, <1>3, <1>4, <1>5, <1>6, <1>7, <1>8, <1>9, <1>10, <1>11,
     <1>12, <1>13 DEF Next, Script, Shutdown

\* Launch finds no other live process of its service.
LEMMA OneStep ==
  ASSUME TypeOK, ScriptInv, OverInv, OwnerInv, OneInstance, [Next]_vars
  PROVE  OneInstance'
<1> USE DEF TypeOK, ScriptInv, OverInv, OwnerInv, OneInstance, Live, Holding,
            Ended, Alive, scriptVars, healthVars, procVars, shutVars
<1>1. ASSUME NEW s \in Services, Launch(s) PROVE OneInstance'
  BY <1>1 DEF Launch
<1>2. ASSUME NEW s \in Services, HcFail(s) PROVE OneInstance'
  BY <1>2 DEF HcFail, Signal
<1>3. ASSUME NEW s \in Services, SupervisorKilled(s) PROVE OneInstance'
  BY <1>3 DEF SupervisorKilled
<1>4. ASSUME NEW p \in Pids, NEW c \in {"zero", "nonzero"}, Exit(p, c) PROVE OneInstance'
  BY <1>4 DEF Exit
<1>5. CASE SdKill9
  BY <1>5 DEF SdKill9
<1>6. CASE InitKill
  BY <1>6 DEF InitKill
<1>7. ASSUME NEW s \in Services,
             Start(s) \/ RecordPid(s) \/ Poll(s) \/ Wake(s) \/ HcPass(s) \/
             Reap(s) \/ BackoffOver(s) \/ Respawn(s) \/ HcHang(s)
      PROVE  OneInstance'
  BY <1>7 DEF Start, RecordPid, Poll, Wake, HcPass, Reap, BackoffOver,
         Respawn, HcHang
<1>8. ASSUME NEW p \in Pids, Wedge(p) PROVE OneInstance'
  BY <1>8 DEF Wedge
<1>9. CASE Poweroff \/ SdTerm \/ SdLoop \/ SdSlept \/ SdKill0 \/ InitTerm \/
           Tick \/ Halted \/ UNCHANGED vars
  BY <1>9 DEF Poweroff, SdTerm, SdLoop, GraceLeft, SdSlept, SdKill0, InitTerm,
         Tick, Halted, vars
<1> QED
  BY <1>1, <1>2, <1>3, <1>4, <1>5, <1>6, <1>7, <1>8, <1>9 DEF Next, Script,
     Shutdown

\* Launch finds no completed process of its service.
LEMMA DownStep ==
  ASSUME TypeOK, ScriptInv, OverInv, OwnerInv, OneInstance,
         CompletedStaysDown, [Next]_vars
  PROVE  CompletedStaysDown'
<1> USE DEF TypeOK, ScriptInv, OverInv, OwnerInv, OneInstance,
            CompletedStaysDown, Completed, Live, Holding, Ended, Alive,
            scriptVars, healthVars, procVars, shutVars
<1>1. ASSUME NEW s \in Services, Launch(s) PROVE CompletedStaysDown'
  BY <1>1 DEF Launch
<1>2. ASSUME NEW s \in Services, HcFail(s) PROVE CompletedStaysDown'
  BY <1>2 DEF HcFail, Signal
<1>3. ASSUME NEW s \in Services, SupervisorKilled(s) PROVE CompletedStaysDown'
  BY <1>3 DEF SupervisorKilled
<1>4. ASSUME NEW p \in Pids, NEW c \in {"zero", "nonzero"}, Exit(p, c) PROVE CompletedStaysDown'
  BY <1>4 DEF Exit
<1>5. CASE SdKill9
  BY <1>5 DEF SdKill9
<1>6. CASE InitKill
  BY <1>6 DEF InitKill
<1>7. ASSUME NEW s \in Services,
             Start(s) \/ RecordPid(s) \/ Poll(s) \/ Wake(s) \/ HcPass(s) \/
             Reap(s) \/ BackoffOver(s) \/ Respawn(s) \/ HcHang(s)
      PROVE  CompletedStaysDown'
  BY <1>7 DEF Start, RecordPid, Poll, Wake, HcPass, Reap, BackoffOver,
         Respawn, HcHang
<1>8. ASSUME NEW p \in Pids, Wedge(p) PROVE CompletedStaysDown'
  BY <1>8 DEF Wedge
<1>9. CASE Poweroff \/ SdTerm \/ SdLoop \/ SdSlept \/ SdKill0 \/ InitTerm \/
           Tick \/ Halted \/ UNCHANGED vars
  BY <1>9 DEF Poweroff, SdTerm, SdLoop, GraceLeft, SdSlept, SdKill0, InitTerm,
         Tick, Halted, vars
<1> QED
  BY <1>1, <1>2, <1>3, <1>4, <1>5, <1>6, <1>7, <1>8, <1>9 DEF Next, Script,
     Shutdown

\* The shutdown script's counter keeps pace with the clock.
LEMMA ClockStep ==
  ASSUME TypeOK, ClockInv, [Next]_vars
  PROVE  ClockInv'
<1> USE DEF TypeOK, ClockInv, scriptVars, healthVars, procVars, shutVars
<1>1. CASE SdLoop
  BY <1>1 DEF SdLoop, GraceLeft
<1>2. CASE SdSlept
  BY <1>2 DEF SdSlept
<1>3. CASE InitTerm
  BY <1>3 DEF InitTerm
<1>4. CASE InitKill
  BY <1>4 DEF InitKill
<1>5. CASE Tick
  BY <1>5 DEF Tick, ShutdownReady, ShuttingDown, Minimum, ClockCap, ShutPCs
<1>6. ASSUME NEW s \in Services,
             Start(s) \/ Launch(s) \/ RecordPid(s) \/ Poll(s) \/ Wake(s) \/
             HcPass(s) \/ HcFail(s) \/ Reap(s) \/ BackoffOver(s) \/ Respawn(s)
             \/ HcHang(s) \/ SupervisorKilled(s)
      PROVE  ClockInv'
  BY <1>6 DEF Start, Launch, RecordPid, Poll, Wake, HcPass, HcFail, Signal,
         Reap, BackoffOver, Respawn, HcHang, SupervisorKilled
<1>7. ASSUME NEW p \in Pids, Wedge(p) PROVE ClockInv'
  BY <1>7 DEF Wedge
<1>8. ASSUME NEW p \in Pids, NEW c \in {"zero", "nonzero"}, Exit(p, c) PROVE ClockInv'
  BY <1>8 DEF Exit
<1>9. CASE Poweroff \/ SdTerm \/ SdKill0 \/ SdKill9 \/ Halted \/ UNCHANGED
           vars
  BY <1>9 DEF Poweroff, SdTerm, SdKill0, SdKill9, Halted, vars
<1> QED
  BY <1>1, <1>2, <1>3, <1>4, <1>5, <1>6, <1>7, <1>8, <1>9 DEF Next, Script,
     Shutdown

\* The loop ends early only when the process in the pidfile is gone.
LEMMA GraceStep ==
  ASSUME TypeOK, ScriptInv, ClockInv, GraceInv, [Next]_vars
  PROVE  GraceInv'
<1> USE DEF TypeOK, ScriptInv, ClockInv, GraceInv, Holding, Watching, Tracked,
            Alive, scriptVars, healthVars, procVars, shutVars
<1>1. ASSUME NEW s \in Services, Launch(s) PROVE GraceInv'
  BY <1>1 DEF Launch
<1>2. ASSUME NEW s \in Services, RecordPid(s) PROVE GraceInv'
  BY <1>2 DEF RecordPid
<1>3. ASSUME NEW s \in Services, HcFail(s) PROVE GraceInv'
  BY <1>3 DEF HcFail, Signal
<1>4. ASSUME NEW p \in Pids, NEW c \in {"zero", "nonzero"}, Exit(p, c) PROVE GraceInv'
  BY <1>4 DEF Exit
<1>5. CASE SdTerm
  BY <1>5 DEF SdTerm
<1>6. CASE SdLoop
  BY <1>6 DEF SdLoop, GraceLeft
<1>7. CASE SdKill9
  BY <1>7 DEF SdKill9
<1>8. CASE InitKill
  BY <1>8 DEF InitKill
<1>9. ASSUME NEW s \in Services,
             Start(s) \/ Poll(s) \/ Wake(s) \/ HcPass(s) \/ Reap(s) \/
             BackoffOver(s) \/ Respawn(s) \/ HcHang(s) \/ SupervisorKilled(s)
      PROVE  GraceInv'
  BY <1>9 DEF Start, Poll, Wake, HcPass, Reap, BackoffOver, Respawn, HcHang,
         SupervisorKilled
<1>10. ASSUME NEW p \in Pids, Wedge(p) PROVE GraceInv'
  BY <1>10 DEF Wedge
<1>11. CASE Poweroff \/ SdSlept \/ SdKill0 \/ InitTerm \/ Tick \/ Halted \/
           UNCHANGED vars
  BY <1>11 DEF Poweroff, SdSlept, SdKill0, InitTerm, Tick, Halted, vars
<1> QED
  BY <1>1, <1>2, <1>3, <1>4, <1>5, <1>6, <1>7, <1>8, <1>9, <1>10, <1>11 DEF
     Next, Script, Shutdown

\* The inductive invariant: what the scripts hold, who owns which process, and
\* how the shutdown's counter, clock and pidfile hang together.
THEOREM Inductive == Spec => []IInv
<1>1. Init => IInv
  <2> SUFFICES ASSUME Init PROVE IInv
    OBVIOUS
  <2>1. TypeOK
    BY InitType
  <2>2. ScriptInv /\ KilledInv /\ OverInv
    BY DEF Init, ScriptInv, KilledInv, OverInv, Holding, Watching
  <2>3. ClockInv /\ GraceInv
    BY DEF Init, ClockInv, GraceInv
  <2>4. OwnerInv /\ OneInstance /\ CompletedStaysDown /\ TermBeforeKill
    BY DEF Init, OwnerInv, OneInstance, CompletedStaysDown, TermBeforeKill, Completed,
           Live
  <2> QED
    BY <2>1, <2>2, <2>3, <2>4 DEF IInv
<1>2. IInv /\ [Next]_vars => IInv'
  BY TypeStep, ScriptStep, KilledStep, TermStep, OverStep, OwnerStep, OneStep, DownStep,
     ClockStep, GraceStep DEF IInv
<1> QED
  BY <1>1, <1>2, PTL DEF Spec

\* A service never has two live processes unless a script was killed.
THEOREM OneInstanceAlways == Spec => []OneInstance
  BY Inductive, PTL DEF IInv

\* The health check sends SIGKILL only to a process it sent SIGTERM before.
THEOREM TermBeforeKillAlways == Spec => []TermBeforeKill
  BY Inductive, PTL DEF IInv

\* A service that is done (RESTART no, or RESTART on-failure after status 0)
\* stays down.
THEOREM CompletedStaysDownAlways == Spec => []CompletedStaysDown
  BY Inductive, PTL DEF IInv

\* The shutdown is over after STOPGRACE + 1 seconds.
THEOREM ShutdownBounded == Spec => []BoundedShutdown
<1>1. IInv => BoundedShutdown
  BY DEF IInv, TypeOK, ShutPCs, ClockInv, BoundedShutdown
<1> QED
  BY <1>1, Inductive, PTL

\* The shutdown script sends SIGKILL to a process it sent SIGTERM only after
\* STOPGRACE seconds.
THEOREM GraceBeforeKill == Spec => KillAfterGrace
<1> DEFINE Patient == \A p \in Pids :
                 (Alive(p) /\ p \in sdTermed /\ fate'[p] = "sdkilled") => sdClock >= StopGrace
<1>1. IInv /\ [Next]_vars => [Patient]_vars
  <2> SUFFICES ASSUME IInv, Next PROVE Patient
    OBVIOUS
  <2> SUFFICES ASSUME NEW p \in Pids, Alive(p), p \in sdTermed, fate'[p] = "sdkilled"
               PROVE  sdClock >= StopGrace
    OBVIOUS
  <2>1. SdKill9
    BY DEF Next, Script, Shutdown, IInv, TypeOK, Alive, scriptVars, procVars, shutVars,
           Start, Launch, RecordPid, Poll, Wake, HcPass, HcFail, Reap, BackoffOver,
           Respawn, HcHang, SupervisorKilled, Wedge, Exit, Poweroff, SdTerm, SdLoop,
           SdSlept, SdKill0, InitTerm, InitKill, Tick, Halted, vars
  <2>2. p = pidfile
    BY <2>1 DEF SdKill9, Alive, IInv, TypeOK
  <2> QED
    BY <2>1, <2>2 DEF SdKill9, IInv, TypeOK, ClockInv, GraceInv, Alive
<1> QED
  BY <1>1, Inductive, PTL DEF Spec, KillAfterGrace

-----------------------------------------------------------------------------

\* The process a script waits for is its own, and has a status once it ended.
LEMMA MineStep ==
  ASSUME TypeOK, ScriptInv, OverInv, MineInv, [Next]_vars
  PROVE  MineInv'
<1> USE DEF TypeOK, MineInv, Alive, Fates, scriptVars, healthVars, procVars, shutVars
<1>1. ASSUME NEW s \in Services, Launch(s) PROVE MineInv'
  BY <1>1 DEF Launch
<1>2. ASSUME NEW s \in Services, HcFail(s) PROVE MineInv'
  BY <1>2 DEF HcFail, Signal
<1>3. ASSUME NEW s \in Services, Reap(s) PROVE MineInv'
  BY <1>3 DEF Reap
<1>4. ASSUME NEW s \in Services, SupervisorKilled(s) PROVE MineInv'
  BY <1>4 DEF SupervisorKilled
<1>5. ASSUME NEW p \in Pids, NEW c \in {"zero", "nonzero"}, Exit(p, c) PROVE MineInv'
  BY <1>5 DEF Exit
<1>6. CASE SdKill9
  BY <1>6 DEF SdKill9
<1>7. CASE InitTerm
  BY <1>7 DEF InitTerm
<1>8. CASE InitKill
  BY <1>8 DEF InitKill, OverInv, ScriptInv, Ended, Holding
<1>9. ASSUME UNCHANGED <<pid, fate, owner, status>> PROVE MineInv'
  BY <1>9
<1>10. ASSUME NEW s \in Services,
              Start(s) \/ RecordPid(s) \/ Poll(s) \/ Wake(s) \/ HcPass(s) \/ BackoffOver(s)
                \/ Respawn(s) \/ HcHang(s)
       PROVE  MineInv'
  BY <1>9, <1>10 DEF Start, RecordPid, Poll, Wake, HcPass, BackoffOver, Respawn, HcHang
<1>11. ASSUME NEW p \in Pids, Wedge(p) PROVE MineInv'
  BY <1>9, <1>11 DEF Wedge
<1>12. CASE Poweroff \/ SdTerm \/ SdLoop \/ SdSlept \/ SdKill0 \/ Tick \/ Halted \/ UNCHANGED vars
  BY <1>9, <1>12 DEF Poweroff, SdTerm, SdLoop, SdSlept, SdKill0, Tick, Halted, vars
<1> QED
  BY <1>1, <1>2, <1>3, <1>4, <1>5, <1>6, <1>7, <1>8, <1>10, <1>11, <1>12
  DEF Next, Script, Shutdown

-----------------------------------------------------------------------------
(***************************************************************************)
(* The refinement of ServiceLife.                                          *)
(***************************************************************************)
LInv == TypeOK /\ ScriptInv /\ OverInv /\ MineInv

\* A step that touches neither a process nor what a script holds is none of ServiceLife's.
LEMMA Stutters ==
  ASSUME UNCHANGED <<policy, pid, fate, owner, status, crashes, lifePower, Closed>>,
         \A s \in Services : pid[s] = NoPid => (Retired(s)' <=> Retired(s))
  PROVE  UNCHANGED Life!vars
<1>1. \A p : Alive(p)' <=> Alive(p)
  BY DEF Alive
<1>2. \A s \in Services : ProcOf(s)' = ProcOf(s)
  BY <1>1 DEF ProcOf
<1>3. \A s \in Services : PhaseOf(s)' = PhaseOf(s)
  BY <1>1 DEF PhaseOf
<1>4. lifeStrays' = lifeStrays
  BY DEF lifeStrays, Live
<1> QED
  BY <1>2, <1>3, <1>4 DEF Life!vars, lifePhase, lifeProc

\* The end of one process: of the service that waits for it, or of a stray.
LEMMA ProcessEnds ==
  ASSUME LInv, NEW p \in Pids, Alive(p), NEW f, f # "live", NEW c \in {"zero", "nonzero"},
         fate' = [fate EXCEPT ![p] = f], status' = [status EXCEPT ![p] = c],
         UNCHANGED <<policy, pid, owner, crashes, lifePower, Closed>>,
         \A s \in Services : pid[s] = NoPid => (Retired(s)' <=> Retired(s))
  PROVE  Life!Next
<1> DEFINE s == owner[p]
<1>0. s \in Services /\ fate \in [Pids -> Fates] /\ p # NoPid
      /\ status \in [Pids -> {"none", "zero", "nonzero"}]
      /\ \A t \in Services : pid[t] \in Pids \cup {NoPid}
  BY DEF LInv, TypeOK, Alive
<1>1. ~Alive(p)' /\ \A q : q # p => (Alive(q)' <=> Alive(q))
  BY <1>0 DEF Alive
<1>2. \A q \in Pids : q # p => status'[q] = status[q]
  BY <1>0
<1>3. \A t \in Services : pid[t] # p => PhaseOf(t)' = PhaseOf(t) /\ ProcOf(t)' = ProcOf(t)
  BY <1>0, <1>1, <1>2 DEF PhaseOf, ProcOf
<1>4. \A t \in Services : pid[t] = p => t = s
  BY <1>0 DEF LInv, MineInv
<1>5. Live' = Live \ {p} /\ p \in Live
  BY <1>0 DEF Live, Alive
<1>6. CASE pid[s] = p
  <2>1. PhaseOf(s) = "up" /\ ~Closed
    <3>1. ~Closed
      BY <1>0, <1>6 DEF LInv, OverInv, ScriptInv, Closed, Ended, Holding
    <3> QED
      BY <1>0, <1>6, <3>1 DEF PhaseOf
  <2>2. PhaseOf(s)' = c /\ ProcOf(s)' = NoPid
    BY <1>0, <1>1, <1>6, <2>1 DEF PhaseOf, ProcOf
  <2>3. lifePhase' = [lifePhase EXCEPT ![s] = c] /\ lifeProc' = [lifeProc EXCEPT ![s] = NoPid]
    BY <1>0, <1>3, <1>4, <2>2 DEF lifePhase, lifeProc
  <2>4. lifeStrays' = lifeStrays
    BY <1>5, <1>6 DEF lifeStrays
  <2>5. Life!End(s)
    BY <1>0, <2>1, <2>3, <2>4 DEF Life!End, lifePhase
  <2> QED
    BY <1>0, <2>5 DEF Life!Next
<1>7. CASE pid[s] # p
  <2>1. lifePhase' = lifePhase /\ lifeProc' = lifeProc
    BY <1>3, <1>4, <1>7 DEF lifePhase, lifeProc
  <2>2. p \in lifeStrays /\ lifeStrays' = lifeStrays \ {p}
    BY <1>5, <1>7 DEF lifeStrays
  <2>3. Life!StrayEnds(p)
    BY <2>1, <2>2 DEF Life!StrayEnds
  <2> QED
    BY <2>3 DEF Life!Next
<1> QED
  BY <1>6, <1>7

\* init's inittab line depends on the policy alone.
LEMMA RetiredSame ==
  ASSUME policy' = policy, NEW s \in Services, pc'[s] = pc[s]
  PROVE  Retired(s)' <=> Retired(s)
BY DEF Retired, InittabAction

\* One lemma per step that ServiceLife sees: its state is computed before and after.
LEMMA LaunchBegins ==
  ASSUME LInv, NEW s \in Services, Launch(s)
  PROVE  Life!Begin(s)
<1>0. /\ pc[s] = "launch" /\ pid[s] = NoPid /\ ~Closed
      /\ UNCHANGED <<policy, crashes, sd>>
      /\ \A t \in Services \ {s} : pc'[t] = pc[t]
  BY DEF LInv, TypeOK, ScriptInv, OverInv, Holding, Ended, Closed, Launch, shutVars
<1>1. PICK p \in Pids :
         /\ fate[p] # "live" /\ \A t \in Services : pid[t] # p
         /\ fate' = [fate EXCEPT ![p] = "live"] /\ owner' = [owner EXCEPT ![p] = s]
         /\ status' = [status EXCEPT ![p] = "none"] /\ pid' = [pid EXCEPT ![s] = p]
  BY DEF Launch
<1>2. /\ fate \in [Pids -> Fates] /\ owner \in [Pids -> Services]
      /\ status \in [Pids -> {"none", "zero", "nonzero"}] /\ pid \in [Services -> Pids \cup {NoPid}]
  BY DEF LInv, TypeOK
<1>3. Alive(p)' /\ ~Alive(p) /\ \A q : q # p => (Alive(q)' <=> Alive(q))
  BY <1>1, <1>2 DEF Alive
<1>4. \A t \in Services \ {s} : PhaseOf(t)' = PhaseOf(t) /\ ProcOf(t)' = ProcOf(t)
  <2>1. ASSUME NEW t \in Services \ {s} PROVE PhaseOf(t)' = PhaseOf(t) /\ ProcOf(t)' = ProcOf(t)
    <3>1. pid'[t] = pid[t] /\ pid[t] # p /\ (pid[t] # NoPid => status'[pid[t]] = status[pid[t]])
      BY <1>1, <1>2
    <3>2. Closed' = Closed /\ (Retired(t)' <=> Retired(t))
      BY <1>0, RetiredSame DEF Closed
    <3> QED
      BY <1>3, <3>1, <3>2 DEF PhaseOf, ProcOf
  <2> QED
    BY <2>1
<1>5. PhaseOf(s) = "idle"
  BY <1>0 DEF PhaseOf, Retired
<1>6. PhaseOf(s)' = "up" /\ ProcOf(s)' = p
  BY <1>0, <1>1, <1>2, <1>3 DEF PhaseOf, ProcOf, Closed
<1>7. lifePhase' = [lifePhase EXCEPT ![s] = "up"] /\ lifeProc' = [lifeProc EXCEPT ![s] = p]
  BY <1>4, <1>6 DEF lifePhase, lifeProc
<1>8. Live' = Live \cup {p} /\ p \notin Live
  BY <1>1, <1>2 DEF Live
<1>9. lifeStrays' = lifeStrays
  <2>1. \A q \in Live : owner'[q] = owner[q] /\ owner[q] \in Services
    BY <1>1, <1>2, <1>8 DEF Live
  <2>2. \A q \in Live : pid'[owner[q]] # q <=> pid[owner[q]] # q
    BY <1>0, <1>1, <1>2, <1>8, <2>1 DEF Live
  <2>3. owner'[p] = s /\ pid'[s] = p
    BY <1>1, <1>2
  <2> QED
    BY <1>8, <2>1, <2>2, <2>3 DEF lifeStrays
<1>10. \A t \in Services : lifeProc[t] # p
  BY <1>1, <1>3 DEF lifeProc, ProcOf
<1>11. p \notin lifeStrays
  BY <1>8 DEF lifeStrays
<1>12. lifePower \in {"on", "stopping"} /\ lifePower' = lifePower
  BY <1>0 DEF lifePower, Closed
<1> QED
  BY <1>0, <1>1, <1>5, <1>7, <1>9, <1>10, <1>11, <1>12 DEF Life!Begin, lifePhase

LEMMA ReapJudges ==
  ASSUME LInv, NEW s \in Services, Reap(s)
  PROVE  Life!Judge(s)
<1>0. /\ pid[s] \in Pids /\ ~Alive(pid[s]) /\ ~Closed
      /\ UNCHANGED <<policy, fate, owner, status, crashes, sd>>
      /\ \A t \in Services \ {s} : pc'[t] = pc[t]
      /\ pid' = [pid EXCEPT ![s] = NoPid] /\ pid \in [Services -> Pids \cup {NoPid}]
  BY DEF LInv, TypeOK, ScriptInv, OverInv, Holding, Ended, Closed, Reap, shutVars, procVars
<1>1. status[pid[s]] \in {"zero", "nonzero"}
  BY <1>0 DEF LInv, MineInv, TypeOK
<1>2. \A q : Alive(q)' <=> Alive(q)
  BY <1>0 DEF Alive
<1>3. \A t \in Services \ {s} : PhaseOf(t)' = PhaseOf(t) /\ ProcOf(t)' = ProcOf(t)
  <2>1. ASSUME NEW t \in Services \ {s} PROVE PhaseOf(t)' = PhaseOf(t) /\ ProcOf(t)' = ProcOf(t)
    <3>1. pid'[t] = pid[t]
      BY <1>0
    <3>2. Closed' = Closed /\ (Retired(t)' <=> Retired(t))
      BY <1>0, RetiredSame DEF Closed
    <3> QED
      BY <1>0, <1>2, <3>1, <3>2 DEF PhaseOf, ProcOf
  <2> QED
    BY <2>1
<1>4. PhaseOf(s) = status[pid[s]] /\ ProcOf(s) = NoPid
  BY <1>0 DEF PhaseOf, ProcOf
<1>5. pid'[s] = NoPid /\ ~Closed' /\ ProcOf(s)' = NoPid
  BY <1>0 DEF Closed, ProcOf, Alive
<1>6. PhaseOf(s)' = IF StopsAfter(s, status[pid[s]]) THEN "done" ELSE "idle"
  <2>1. CASE StopsAfter(s, status[pid[s]])
    <3>1. pc'[s] = "exited" /\ InittabAction(s)' = "once"
      BY <1>0, <2>1 DEF Reap, StopsAfter, InittabAction, LInv, TypeOK
    <3> QED
      BY <1>5, <2>1, <3>1 DEF PhaseOf, Retired
  <2>2. CASE ~StopsAfter(s, status[pid[s]])
    <3>1. pc'[s] = "backoff"
      BY <1>0, <2>2 DEF Reap, LInv, TypeOK
    <3> QED
      BY <1>5, <2>2, <3>1 DEF PhaseOf, Retired
  <2> QED
    BY <2>1, <2>2
<1>7. lifePhase[s] = status[pid[s]]
  BY <1>4 DEF lifePhase
<1>8. Life!Stops(s) <=> StopsAfter(s, status[pid[s]])
  BY <1>7 DEF Life!Stops, StopsAfter
<1>9. lifePhase' = [lifePhase EXCEPT ![s] = IF Life!Stops(s) THEN "done" ELSE "idle"]
      /\ lifeProc' = lifeProc
  BY <1>3, <1>4, <1>5, <1>6, <1>8 DEF lifePhase, lifeProc
<1>10. lifeStrays' = lifeStrays
  <2>1. \A q \in Live : pid'[owner[q]] # q <=> pid[owner[q]] # q
    BY <1>0 DEF Live, Alive, LInv, TypeOK
  <2> QED
    BY <1>0, <2>1 DEF lifeStrays, Live
<1>11. lifePower' = lifePower
  BY <1>0 DEF lifePower
<1> QED
  BY <1>0, <1>1, <1>7, <1>9, <1>10, <1>11 DEF Life!Judge

LEMMA KilledLoses ==
  ASSUME LInv, NEW s \in Services, SupervisorKilled(s)
  PROVE  Life!Lose(s)
<1>0. /\ crashes < MaxCrash /\ crashes' = crashes + 1 /\ ~Closed
      /\ UNCHANGED <<policy, fate, owner, status, sd>>
      /\ pc[s] # "exited" /\ pc'[s] = "exited" /\ \A t \in Services \ {s} : pc'[t] = pc[t]
      /\ pid' = [pid EXCEPT ![s] = NoPid] /\ pid \in [Services -> Pids \cup {NoPid}]
      /\ owner \in [Pids -> Services] /\ policy[s] \in {"always", "on-failure", "no"}
  BY DEF LInv, TypeOK, ScriptInv, OverInv, Ended, Closed, SupervisorKilled, shutVars, procVars
<1>2. \A q : Alive(q)' <=> Alive(q)
  BY <1>0 DEF Alive
<1>3. \A t \in Services \ {s} : PhaseOf(t)' = PhaseOf(t) /\ ProcOf(t)' = ProcOf(t)
  <2>1. ASSUME NEW t \in Services \ {s} PROVE PhaseOf(t)' = PhaseOf(t) /\ ProcOf(t)' = ProcOf(t)
    <3>1. pid'[t] = pid[t]
      BY <1>0
    <3>2. Closed' = Closed /\ (Retired(t)' <=> Retired(t))
      BY <1>0, RetiredSame DEF Closed
    <3> QED
      BY <1>0, <1>2, <3>1, <3>2 DEF PhaseOf, ProcOf
  <2> QED
    BY <2>1
<1>4. PhaseOf(s) # "done"
  BY <1>0 DEF PhaseOf, Retired, LInv, TypeOK
<1>5. pid'[s] = NoPid /\ ~Closed' /\ ProcOf(s)' = NoPid
  BY <1>0 DEF Closed, ProcOf, Alive
<1>6. PhaseOf(s)' = Life!Left(s)
  BY <1>0, <1>5 DEF PhaseOf, Retired, InittabAction, Life!Left
<1>7. lifePhase' = [lifePhase EXCEPT ![s] = Life!Left(s)]
      /\ lifeProc' = [lifeProc EXCEPT ![s] = NoPid]
  BY <1>3, <1>5, <1>6 DEF lifePhase, lifeProc
<1>8. lifeProc[s] = ProcOf(s) /\ lifePhase[s] = PhaseOf(s)
  BY DEF lifeProc, lifePhase
<1>9. lifeStrays' = lifeStrays \cup ({lifeProc[s]} \ {NoPid})
  <2>1. Live' = Live /\ owner' = owner /\ \A q \in Live : q # NoPid /\ owner[q] \in Services
    BY <1>0 DEF Live
  <2>2. \A q \in Live : pid'[owner[q]] # q <=> (pid[owner[q]] # q \/ q = ProcOf(s))
    <3>1. ASSUME NEW q \in Live, q = pid[s] PROVE owner[q] = s /\ q = ProcOf(s)
      BY <3>1, <2>1 DEF ProcOf, Alive, LInv, MineInv, Live
    <3>2. ASSUME NEW q \in Live, q = ProcOf(s) PROVE q = pid[s]
      BY <3>2, <2>1 DEF ProcOf
    <3>3. ASSUME NEW q \in Live PROVE pid'[owner[q]] # q <=> (pid[owner[q]] # q \/ q = ProcOf(s))
      <4>1. CASE owner[q] = s
        BY <1>5, <2>1, <3>1, <3>2, <4>1
      <4>2. CASE owner[q] # s
        BY <1>0, <2>1, <3>1, <3>2, <4>2
      <4> QED
        BY <4>1, <4>2
    <3> QED
      BY <3>3
  <2>3. ProcOf(s) = NoPid \/ ProcOf(s) \in Live
    BY <1>0 DEF ProcOf, Alive, Live
  <2> QED
    BY <1>8, <2>1, <2>2, <2>3 DEF lifeStrays
<1>10. lifePower' = lifePower
  BY <1>0 DEF lifePower
<1> QED
  BY <1>0, <1>4, <1>7, <1>8, <1>9, <1>10 DEF Life!Lose

LEMMA StartGivesUp ==
  ASSUME LInv, NEW s \in Services, Start(s), ~WorkdirOk
  PROVE  Life!GiveUp(s)
<1>0. /\ pid[s] = NoPid /\ pc[s] = "start" /\ pc'[s] = "exited" /\ ~Closed
      /\ \A t \in Services \ {s} : pc'[t] = pc[t]
      /\ UNCHANGED <<policy, pid, fate, owner, status, crashes, sd>>
      /\ policy[s] \in {"always", "on-failure", "no"}
  BY DEF LInv, TypeOK, ScriptInv, OverInv, Ended, Holding, Closed, Start, shutVars, procVars
<1>1. \A q : Alive(q)' <=> Alive(q)
  BY <1>0 DEF Alive
<1>2. \A t \in Services : ProcOf(t)' = ProcOf(t)
  BY <1>0, <1>1 DEF ProcOf
<1>3. \A t \in Services \ {s} : PhaseOf(t)' = PhaseOf(t)
  <2>1. ASSUME NEW t \in Services \ {s} PROVE PhaseOf(t)' = PhaseOf(t)
    <3>1. Closed' = Closed /\ (Retired(t)' <=> Retired(t))
      BY <1>0, RetiredSame DEF Closed
    <3> QED
      BY <1>0, <1>1, <3>1 DEF PhaseOf
  <2> QED
    BY <2>1
<1>4. PhaseOf(s) = "idle" /\ PhaseOf(s)' = Life!Left(s)
  BY <1>0 DEF PhaseOf, Retired, InittabAction, Life!Left, Closed
<1>5. lifePhase' = [lifePhase EXCEPT ![s] = Life!Left(s)] /\ lifePhase[s] = "idle"
      /\ lifeProc' = lifeProc
  BY <1>2, <1>3, <1>4 DEF lifePhase, lifeProc
<1>6. lifeStrays' = lifeStrays /\ lifePower' = lifePower
  BY <1>0 DEF lifeStrays, Live, lifePower
<1> QED
  BY <1>0, <1>5, <1>6 DEF Life!GiveUp

LEMMA InitTermCloses ==
  ASSUME LInv, InitTerm
  PROVE  Life!Close
<1>0. /\ sd = "umount" /\ sd' = "lastsec" /\ UNCHANGED <<policy, fate, owner, status, crashes>>
      /\ pid' = [s \in Services |-> NoPid] /\ owner \in [Pids -> Services]
  BY DEF InitTerm, LInv, TypeOK, procVars
<1>1. lifePower = "stopping" /\ lifePower' = "closing"
  BY <1>0 DEF lifePower
<1>2. lifePhase' = [s \in Services |-> "done"]
  BY <1>0 DEF lifePhase, PhaseOf, Closed
<1>3. lifeProc' = [s \in Services |-> NoPid]
  BY <1>0 DEF lifeProc, ProcOf, Alive
<1>4. lifeStrays' = lifeStrays \cup ({lifeProc[s] : s \in Services} \ {NoPid})
  <2>1. Live' = Live /\ \A q \in Live : q # NoPid /\ owner[q] \in Services
    BY <1>0 DEF Live
  <2>2. lifeStrays' = Live
    BY <1>0, <2>1 DEF lifeStrays
  <2>3. ASSUME NEW q \in Live PROVE q \in lifeStrays \/ q = lifeProc[owner[q]]
    BY <2>1 DEF lifeStrays, lifeProc, ProcOf, Alive, Live
  <2>4. ASSUME NEW s \in Services PROVE lifeProc[s] = NoPid \/ lifeProc[s] \in Live
    BY DEF lifeProc, ProcOf, Alive, Live, LInv, TypeOK
  <2>5. lifeStrays \subseteq Live
    BY DEF lifeStrays
  <2> QED
    BY <2>1, <2>2, <2>3, <2>4, <2>5
<1> QED
  BY <1>0, <1>1, <1>2, <1>3, <1>4 DEF Life!Close

LEMMA InitKillOff ==
  ASSUME LInv, InitKill
  PROVE  Life!Off
<1>0. /\ sd = "lastsec" /\ sd' = "halted" /\ UNCHANGED <<policy, pid, crashes>>
      /\ \A s \in Services : pid[s] = NoPid
      /\ \A p \in Pids : fate'[p] # "live"
  BY DEF InitKill, LInv, TypeOK, OverInv, ScriptInv, Ended, Holding, scriptVars
<1>1. lifePower = "closing" /\ lifePower' = "off"
  BY <1>0 DEF lifePower
<1>2. lifePhase' = lifePhase
  BY <1>0 DEF lifePhase, PhaseOf, Closed
<1>3. lifeProc' = lifeProc
  BY <1>0 DEF lifeProc, ProcOf, Alive
<1>4. lifeStrays' = {}
  BY <1>0 DEF lifeStrays, Live
<1> QED
  BY <1>0, <1>1, <1>2, <1>3, <1>4 DEF Life!Off

LEMMA PoweroffStops ==
  ASSUME LInv, Poweroff
  PROVE  Life!PowerOff
<1>0. /\ sd = "idle" /\ sd' = "term"
      /\ UNCHANGED <<policy, pc, pid, fate, owner, status, crashes>>
  BY DEF Poweroff, scriptVars, procVars
<1>1. lifePower = "on" /\ lifePower' = "stopping" /\ Closed' = Closed
  BY <1>0 DEF lifePower, Closed
<1>2. \A s \in Services : Retired(s)' <=> Retired(s)
  BY <1>0, RetiredSame
<1>3. \A q : Alive(q)' <=> Alive(q)
  BY <1>0 DEF Alive
<1>4. lifePhase' = lifePhase /\ lifeProc' = lifeProc
  <2>1. \A s \in Services : PhaseOf(s)' = PhaseOf(s) /\ ProcOf(s)' = ProcOf(s)
    BY <1>0, <1>1, <1>2, <1>3 DEF PhaseOf, ProcOf
  <2> QED
    BY <2>1 DEF lifePhase, lifeProc
<1>5. lifeStrays' = lifeStrays
  BY <1>0 DEF lifeStrays, Live
<1> QED
  BY <1>0, <1>1, <1>4, <1>5 DEF Life!PowerOff

\* What the other statements of a script leave alone.
LEMMA ScriptStutters ==
  ASSUME LInv, NEW s \in Services,
         (Start(s) /\ WorkdirOk) \/ RecordPid(s) \/ Poll(s) \/ Wake(s) \/ HcPass(s)
           \/ BackoffOver(s) \/ Respawn(s) \/ HcHang(s)
  PROVE  UNCHANGED Life!vars
<1>1. /\ UNCHANGED <<policy, pid, fate, owner, status, crashes, sd>>
      /\ \A t \in Services \ {s} : pc'[t] = pc[t]
      /\ pc'[s] # "exited"
      /\ pc[s] = "exited" => InittabAction(s) = "respawn"
  BY DEF Start, RecordPid, Poll, Wake, HcPass, BackoffOver, Respawn, HcHang, procVars,
         shutVars, LInv, TypeOK
<1>2. \A t \in Services : Retired(t)' <=> Retired(t)
  <2>1. ~Retired(s) /\ ~Retired(s)'
    BY <1>1 DEF Retired
  <2> QED
    BY <1>1, <2>1, RetiredSame
<1>3. lifePower' = lifePower /\ Closed' = Closed
  BY <1>1 DEF lifePower, Closed
<1> QED
  BY <1>1, <1>2, <1>3, Stutters

LEMMA OtherStutters ==
  ASSUME LInv,
         SdTerm \/ SdLoop \/ SdSlept \/ SdKill0 \/ Tick \/ Halted \/ UNCHANGED vars
           \/ (\E p \in Pids : Wedge(p)) \/ (SdKill9 /\ ~Alive(pidfile))
  PROVE  UNCHANGED Life!vars
<1>1. UNCHANGED <<policy, pc, pid, fate, owner, status, crashes>>
  BY DEF SdTerm, SdLoop, SdSlept, SdKill0, SdKill9, Tick, Halted, vars, Wedge, scriptVars,
         procVars
<1>2. \/ UNCHANGED sd
      \/ {sd, sd'} \subseteq ShutPCs \ {"idle", "lastsec", "halted"}
  BY DEF SdTerm, SdLoop, SdSlept, SdKill0, SdKill9, Tick, Halted, vars, Wedge, shutVars, ShutPCs
<1>3. lifePower' = lifePower /\ Closed' = Closed
  BY <1>2 DEF lifePower, Closed, ShutPCs
<1>4. \A t \in Services : Retired(t)' <=> Retired(t)
  BY <1>1, RetiredSame
<1> QED
  BY <1>1, <1>3, <1>4, Stutters

\* A failed check kills the process, or nobody.
LEMMA HcFailMaps ==
  ASSUME LInv, NEW s \in Services, HcFail(s)
  PROVE  Life!Next \/ UNCHANGED Life!vars
<1>1. /\ UNCHANGED <<policy, pid, owner, crashes, sd>>
      /\ \A t \in Services \ {s} : pc'[t] = pc[t]
      /\ pc'[s] = "poll" /\ pc[s] # "exited"
  BY DEF HcFail, procVars, shutVars, LInv, TypeOK
<1>2. \A t \in Services : Retired(t)' <=> Retired(t)
  <2>1. ~Retired(s) /\ ~Retired(s)'
    BY <1>1 DEF Retired
  <2> QED
    BY <1>1, <2>1, RetiredSame
<1>3. lifePower' = lifePower /\ Closed' = Closed
  BY <1>1 DEF lifePower, Closed
<1>4. \/ UNCHANGED <<fate, status>>
      \/ /\ Alive(pid[s]) /\ fate' = [fate EXCEPT ![pid[s]] = "hckilled"]
         /\ status' = [status EXCEPT ![pid[s]] = "nonzero"]
  BY DEF HcFail, procVars
<1>5. CASE UNCHANGED <<fate, status>>
  BY <1>1, <1>2, <1>3, <1>5, Stutters
<1>6. CASE /\ Alive(pid[s]) /\ fate' = [fate EXCEPT ![pid[s]] = "hckilled"]
           /\ status' = [status EXCEPT ![pid[s]] = "nonzero"]
  <2>1. pid[s] \in Pids
    BY <1>6 DEF Alive, LInv, TypeOK
  <2> QED
    BY <1>1, <1>2, <1>3, <1>6, <2>1, ProcessEnds
<1> QED
  BY <1>4, <1>5, <1>6

LEMMA ExitMaps ==
  ASSUME LInv, NEW p \in Pids, NEW c \in {"zero", "nonzero"}, Exit(p, c)
  PROVE  Life!Next
<1>1. /\ UNCHANGED <<policy, pc, pid, owner, crashes, sd>> /\ Alive(p)
      /\ fate' = [fate EXCEPT ![p] = "exited"] /\ status' = [status EXCEPT ![p] = c]
  BY DEF Exit, scriptVars, shutVars
<1>2. lifePower' = lifePower /\ Closed' = Closed
  BY <1>1 DEF lifePower, Closed
<1>3. \A t \in Services : Retired(t)' <=> Retired(t)
  BY <1>1, RetiredSame
<1> QED
  BY <1>1, <1>2, <1>3, ProcessEnds

LEMMA SdKill9Maps ==
  ASSUME LInv, SdKill9, Alive(pidfile)
  PROVE  Life!Next
<1>1. /\ UNCHANGED <<policy, pc, pid, owner, crashes>> /\ sd = "kill9" /\ sd' = "umount"
      /\ fate' = [fate EXCEPT ![pidfile] = "sdkilled"]
      /\ status' = [status EXCEPT ![pidfile] = "nonzero"] /\ pidfile \in Pids
  BY DEF SdKill9, scriptVars, Alive, LInv, TypeOK
<1>2. lifePower' = lifePower /\ Closed' = Closed
  BY <1>1 DEF lifePower, Closed
<1>3. \A t \in Services : Retired(t)' <=> Retired(t)
  BY <1>1, RetiredSame
<1> QED
  BY <1>1, <1>2, <1>3, ProcessEnds

\* The scripts, the health check, init and the shutdown implement ServiceLife, for every
\* set of services, policies and pids, every interval, grace and number of killed scripts.
THEOREM LifeRefinement == Spec => LifePromise
<1>1. Init => Life!Init
  <2> SUFFICES ASSUME Init PROVE Life!Init
    OBVIOUS
  <2>1. sd = "idle" /\ \A s \in Services : pid[s] = NoPid /\ pc[s] = "start"
    BY DEF Init
  <2>2. \A s \in Services : PhaseOf(s) = "idle" /\ ProcOf(s) = NoPid
    BY <2>1 DEF PhaseOf, ProcOf, Closed, Retired, Alive
  <2>3. lifeStrays = {} /\ lifePower = "on"
    BY <2>1 DEF Init, lifeStrays, Live, lifePower
  <2> QED
    BY <2>2, <2>3 DEF Init, Life!Init, lifePhase, lifeProc
<1>2. LInv /\ [Next]_vars => [Life!Next]_(Life!vars)
  <2> SUFFICES ASSUME LInv, [Next]_vars PROVE Life!Next \/ UNCHANGED Life!vars
    OBVIOUS
  <2>1. ASSUME NEW s \in Services, Script(s) \/ HcHang(s) \/ SupervisorKilled(s)
        PROVE  Life!Next \/ UNCHANGED Life!vars
    <3>1. CASE Start(s) /\ ~WorkdirOk
      BY <3>1, StartGivesUp DEF Life!Next
    <3>2. CASE Launch(s)
      BY <3>2, LaunchBegins DEF Life!Next
    <3>3. CASE HcFail(s)
      BY <3>3, HcFailMaps
    <3>4. CASE Reap(s)
      BY <3>4, ReapJudges DEF Life!Next
    <3>5. CASE SupervisorKilled(s)
      BY <3>5, KilledLoses DEF Life!Next
    <3> QED
      BY <2>1, <3>1, <3>2, <3>3, <3>4, <3>5, ScriptStutters DEF Script
  <2>2. ASSUME NEW p \in Pids, NEW c \in {"zero", "nonzero"}, Exit(p, c)
        PROVE  Life!Next \/ UNCHANGED Life!vars
    BY <2>2, ExitMaps
  <2>3. CASE Poweroff
    BY <2>3, PoweroffStops DEF Life!Next
  <2>4. CASE InitTerm
    BY <2>4, InitTermCloses DEF Life!Next
  <2>5. CASE InitKill
    BY <2>5, InitKillOff DEF Life!Next
  <2>6. CASE SdKill9 /\ Alive(pidfile)
    BY <2>6, SdKill9Maps
  <2> QED
    BY <2>1, <2>2, <2>3, <2>4, <2>5, <2>6, OtherStutters DEF Next, Shutdown
<1>3. Init => LInv
  <2> SUFFICES ASSUME Init PROVE LInv
    OBVIOUS
  <2>1. TypeOK
    BY InitType
  <2>2. ScriptInv
    BY DEF Init, ScriptInv, Holding, Watching
  <2>3. OverInv /\ MineInv
    BY DEF Init, OverInv, MineInv
  <2> QED
    BY <2>1, <2>2, <2>3 DEF LInv
<1>4. LInv /\ [Next]_vars => LInv'
  BY TypeStep, ScriptStep, OverStep, MineStep DEF LInv
<1> QED
  BY <1>1, <1>2, <1>3, <1>4, PTL DEF Spec, LifePromise, Life!Spec
=============================================================================
