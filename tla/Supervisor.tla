----------------------------- MODULE Supervisor -----------------------------
(***************************************************************************)
(* The process tree of a booted cnimbus guest: one generated supervisor    *)
(* script per ENTRYPOINT/SERVICE (internal/rootfs/build.go,                *)
(* buildSupervisorScript), the health check the entrypoint's script runs,  *)
(* the ::shutdown: script (buildShutdownScript) and BusyBox init, which    *)
(* starts the scripts from the inittab (buildInittab) and, once the        *)
(* shutdown script returns, signals everybody itself.                      *)
(*                                                                         *)
(* Time is counted in seconds.  A script statement takes no time unless it *)
(* sleeps or waits; Tick lets a second pass only when nobody has a         *)
(* statement left to run, and within one second the scripts, the workloads *)
(* and the shutdown interleave freely.                                     *)
(***************************************************************************)
EXTENDS Integers, FiniteSets

CONSTANTS
    Services,     \* the names of the generated supervisor scripts
    Entry,        \* the service that ENTRYPOINT/CMD declares
    HasHC,        \* is there a HEALTHCHECK directive (it only ever covers Entry)
    Policies,     \* the RESTART policies the Nimbusfile may give a service
    Pids,         \* process ids the kernel hands out to workloads
    NoPid,        \* "no process": an absent pidfile, an unset $pid
    Interval,     \* HEALTHCHECK --interval
    Retries,      \* HEALTHCHECK --retries
    StopGrace,    \* STOPGRACE
    BackoffCap,   \* the longest restart delay (30 in the code)
    MaxCrash,     \* bound: how often a supervisor script itself is killed
    MayHang,      \* may the HEALTHCHECK command block for ever
    WorkdirOk     \* does the WORKDIR directory exist in the guest

ASSUME ServicesAssumption == Entry \in Services /\ NoPid \notin Pids
ASSUME PoliciesAssumption == Policies \subseteq {"always", "on-failure", "no"}
ASSUME TimesAssumption ==
    /\ Interval \in Nat
    /\ Retries \in Int
    /\ StopGrace \in Nat \ {0}
    /\ BackoffCap \in Nat \ {0}
    /\ MaxCrash \in Nat
ASSUME FlagsAssumption == {HasHC, MayHang, WorkdirOk} \subseteq BOOLEAN

VARIABLES
    policy,       \* each service's RESTART policy, fixed when the image is built
    pc,           \* where each supervisor script is
    timer,        \* seconds left of the script's current sleep
    pid,          \* the script's $pid, NoPid once it has been waited for
    n,            \* the script's restart counter $n
    ran,          \* seconds since $start (capped: only "longer than d" matters)
    failcount,    \* Entry's $failcount
    killed,       \* Entry's $killed
    pidfile,      \* content of /var/run/cnimbus-<Entry>.pid
    fate,         \* what became of each pid
    owner,        \* the service a pid was last started for
    status,       \* exit status of a pid that ended
    wedged,       \* live pids that ignore SIGTERM and fail every health check
    hcTermed,     \* pids the health check sent SIGTERM
    sdTermed,     \* pids the shutdown script sent SIGTERM
    crashes,      \* supervisor scripts killed so far
    sd,           \* where the shutdown is
    sdn,          \* the shutdown script's $n
    sdTimer,      \* seconds left of the shutdown's current sleep
    sdClock       \* seconds since the shutdown began (capped)

scriptVars == <<pc, timer, pid, n, ran>>
healthVars == <<failcount, killed>>
procVars   == <<fate, owner, status, wedged, hcTermed, sdTermed>>
shutVars   == <<sd, sdn, sdTimer, sdClock>>
vars == <<policy, scriptVars, healthVars, pidfile, procVars, crashes, shutVars>>

Minimum(a, b) == IF a < b THEN a ELSE b

Tracked(s) == HasHC /\ s = Entry
Alive(p)   == p # NoPid /\ fate[p] = "live"
Live       == {p \in Pids : fate[p] = "live"}
ShuttingDown == sd # "idle"

ScriptPCs == {"start", "launch", "record", "poll", "sleep", "check", "hung", "reap", "fg",
              "backoff", "exited", "dead"}
Fates     == {"unused", "live", "exited", "hckilled", "sdkilled", "haltkilled"}
ShutPCs   == {"idle", "term", "loop", "sleep", "kill0", "kill9", "umount",
              "lastsec", "halted"}

\* The clock saturates one second past the latest moment the shutdown can end.
ClockCap == StopGrace + 2

TypeOK ==
    /\ policy \in [Services -> Policies]
    /\ pc \in [Services -> ScriptPCs]
    /\ timer \in [Services -> Nat]
    /\ pid \in [Services -> Pids \cup {NoPid}]
    /\ n \in [Services -> 0..BackoffCap]
    /\ ran \in [Services -> 0..(BackoffCap + 1)]
    /\ failcount \in Nat
    /\ killed \in BOOLEAN
    /\ pidfile \in Pids \cup {NoPid}
    /\ fate \in [Pids -> Fates]
    /\ owner \in [Pids -> Services]
    /\ status \in [Pids -> {"none", "zero", "nonzero"}]
    /\ wedged \subseteq Pids
    /\ hcTermed \subseteq Pids
    /\ sdTermed \subseteq Pids
    /\ crashes \in 0..MaxCrash
    /\ sd \in ShutPCs
    /\ sdn \in Nat
    /\ sdTimer \in 0..1
    /\ sdClock \in 0..ClockCap

\* init has run rcS and starts every supervisor line of the inittab.
Init ==
    /\ policy \in [Services -> Policies]
    /\ pc = [s \in Services |-> "start"]
    /\ timer = [s \in Services |-> 0]
    /\ pid = [s \in Services |-> NoPid]
    /\ n = [s \in Services |-> 0]
    /\ ran = [s \in Services |-> 0]
    /\ failcount = 0
    /\ killed = FALSE
    /\ pidfile = NoPid
    /\ fate = [p \in Pids |-> "unused"]
    /\ owner = [p \in Pids |-> Entry]
    /\ status = [p \in Pids |-> "none"]
    /\ wedged = {} /\ hcTermed = {} /\ sdTermed = {}
    /\ crashes = 0
    /\ sd = "idle" /\ sdn = 0 /\ sdTimer = 0 /\ sdClock = 0

-----------------------------------------------------------------------------
(***************************************************************************)
(* The supervisor script.                                                  *)
(***************************************************************************)

\* A fresh script: cd WORKDIR || exit 1, then n=0.
Start(s) ==
    /\ pc[s] = "start"
    /\ pc' = [pc EXCEPT ![s] = IF WorkdirOk THEN "launch" ELSE "exited"]
    /\ n' = [n EXCEPT ![s] = 0]
    /\ UNCHANGED <<policy, timer, pid, ran, healthVars, pidfile, procVars, crashes,
                   shutVars>>

\* Top of the loop: note $start and run the command, in the background when
\* a health check watches it, else in the foreground through logger.  The
\* kernel may reuse the pid of a process that is gone, but not one a script
\* still polls: ids are handed out in turn and a poll is Interval seconds away.
Launch(s) ==
    /\ pc[s] = "launch"
    /\ \E p \in Pids :
         /\ fate[p] # "live"
         /\ \A t \in Services : pid[t] # p
         /\ fate' = [fate EXCEPT ![p] = "live"]
         /\ owner' = [owner EXCEPT ![p] = s]
         /\ status' = [status EXCEPT ![p] = "none"]
         /\ wedged' = wedged \ {p}
         /\ hcTermed' = hcTermed \ {p}
         /\ sdTermed' = sdTermed \ {p}
         /\ pid' = [pid EXCEPT ![s] = p]
    /\ ran' = [ran EXCEPT ![s] = 0]
    /\ pc' = [pc EXCEPT ![s] = IF Tracked(s) THEN "record" ELSE "fg"]
    /\ UNCHANGED <<policy, timer, n, healthVars, pidfile, crashes, shutVars>>

\* Mutant: $killed survives into the next process.
RecordPidKeepsKilled(s) ==
    /\ pc[s] = "record"
    /\ pidfile' = pid[s]
    /\ failcount' = 0
    /\ pc' = [pc EXCEPT ![s] = "poll"]
    /\ UNCHANGED <<policy, timer, pid, n, ran, killed, procVars, crashes, shutVars>>

\* echo "$pid" > pidfile; failcount=0; killed=0
RecordPid(s) ==
    /\ pc[s] = "record"
    /\ pidfile' = pid[s]
    /\ failcount' = 0
    /\ killed' = FALSE
    /\ pc' = [pc EXCEPT ![s] = "poll"]
    /\ UNCHANGED <<policy, timer, pid, n, ran, procVars, crashes, shutVars>>

\* Mutant: a process that was sent SIGTERM is taken for gone.
PollTrustsTerm(s) ==
    /\ pc[s] = "poll"
    /\ IF Alive(pid[s]) /\ ~killed
         THEN /\ pc' = [pc EXCEPT ![s] = "sleep"]
              /\ timer' = [timer EXCEPT ![s] = Interval]
         ELSE /\ pc' = [pc EXCEPT ![s] = "reap"]
              /\ UNCHANGED timer
    /\ UNCHANGED <<policy, pid, n, ran, healthVars, pidfile, procVars, crashes, shutVars>>

\* Mutant: kill -0 succeeds on a process that is only not yet waited for.
PollSeesZombie(s) ==
    /\ pc[s] = "poll"
    /\ pc' = [pc EXCEPT ![s] = "sleep"]
    /\ timer' = [timer EXCEPT ![s] = Interval]
    /\ UNCHANGED <<policy, pid, n, ran, healthVars, pidfile, procVars, crashes, shutVars>>

\* while kill -0 "$pid"; do sleep Interval
Poll(s) ==
    /\ pc[s] = "poll"
    /\ \/ /\ Alive(pid[s])
          /\ pc' = [pc EXCEPT ![s] = "sleep"]
          /\ timer' = [timer EXCEPT ![s] = Interval]
       \/ /\ ~Alive(pid[s])
          /\ pc' = [pc EXCEPT ![s] = "reap"]
          /\ UNCHANGED timer
    /\ UNCHANGED <<policy, pid, n, ran, healthVars, pidfile, procVars, crashes, shutVars>>

\* The sleep is over: run the check if the workload is still there.
Wake(s) ==
    /\ pc[s] = "sleep"
    /\ timer[s] = 0
    /\ pc' = [pc EXCEPT ![s] = IF Alive(pid[s]) THEN "check" ELSE "poll"]
    /\ UNCHANGED <<policy, timer, pid, n, ran, healthVars, pidfile, procVars, crashes,
                   shutVars>>

HcPass(s) ==
    /\ pc[s] = "check"
    /\ pid[s] \notin wedged
    /\ failcount' = 0
    /\ pc' = [pc EXCEPT ![s] = "poll"]
    /\ UNCHANGED <<policy, timer, pid, n, ran, killed, pidfile, procVars, crashes,
                   shutVars>>

\* The failure counter only matters up to Retries.
Counted == IF failcount + 1 > Retries THEN failcount ELSE failcount + 1

\* Mutant: SIGTERM over and over.
SignalNeverEscalates == "TERM"

\* The signal for a process past the retry limit.
Signal == IF killed THEN "KILL" ELSE "TERM"

\* A failed check: count it and, from Retries failures in a row on, send
\* SIGTERM the first time and SIGKILL every later time.
HcFail(s) ==
    /\ \/ pc[s] = "check"
       \/ pc[s] = "hung" /\ ~Alive(pid[s])
    /\ failcount' = Counted
    /\ pc' = [pc EXCEPT ![s] = "poll"]
    /\ \/ /\ failcount + 1 < Retries
          /\ UNCHANGED <<killed, procVars>>
       \/ /\ failcount + 1 >= Retries
          /\ Signal = "TERM"
          /\ killed' = TRUE
          /\ hcTermed' = IF Alive(pid[s]) THEN hcTermed \cup {pid[s]} ELSE hcTermed
          /\ UNCHANGED <<fate, owner, status, wedged, sdTermed>>
       \/ /\ failcount + 1 >= Retries
          /\ Signal = "KILL"
          /\ IF Alive(pid[s])
               THEN /\ fate' = [fate EXCEPT ![pid[s]] = "hckilled"]
                    /\ status' = [status EXCEPT ![pid[s]] = "nonzero"]
                    /\ wedged' = wedged \ {pid[s]}
               ELSE UNCHANGED <<fate, status, wedged>>
          /\ UNCHANGED <<killed, owner, hcTermed, sdTermed>>
    /\ UNCHANGED <<policy, timer, pid, n, ran, pidfile, crashes, shutVars>>

\* The check command has no time limit: against a live process that accepts a
\* connection and never answers it may not return.
HcHang(s) ==
    /\ MayHang
    /\ pc[s] = "check"
    /\ pc' = [pc EXCEPT ![s] = "hung"]
    /\ UNCHANGED <<policy, timer, pid, n, ran, healthVars, pidfile, procVars, crashes,
                   shutVars>>

\* Mutant: the delay keeps growing.
NextBackoffUncapped(s) == (IF ran[s] > n[s] THEN 0 ELSE n[s]) + 1

\* $n and the sleep that follow a run: back to 0 if the run outlasted the
\* current delay, then one more, and a sleep of that many seconds up to the cap.
NextBackoff(s) == Minimum((IF ran[s] > n[s] THEN 0 ELSE n[s]) + 1, BackoffCap)

\* Mutant: the test of the status is the wrong way round.
StopsAfterFailure(s, code) ==
    \/ policy[s] = "no"
    \/ policy[s] = "on-failure" /\ code # "zero"

\* Does the script end here (with the command's own status) rather than loop?
StopsAfter(s, code) ==
    \/ policy[s] = "no"
    \/ policy[s] = "on-failure" /\ code = "zero"

\* wait "$pid", or the foreground pipeline returns: apply the restart policy.
Reap(s) ==
    /\ \/ pc[s] = "reap"
       \/ pc[s] = "fg" /\ ~Alive(pid[s])
    /\ pid' = [pid EXCEPT ![s] = NoPid]
    /\ \/ /\ StopsAfter(s, status[pid[s]])
          /\ pc' = [pc EXCEPT ![s] = "exited"]
          /\ UNCHANGED <<n, timer>>
       \/ /\ ~StopsAfter(s, status[pid[s]])
          /\ pc' = [pc EXCEPT ![s] = "backoff"]
          /\ n' = [n EXCEPT ![s] = NextBackoff(s)]
          /\ timer' = [timer EXCEPT ![s] = NextBackoff(s)]
    /\ UNCHANGED <<policy, ran, healthVars, pidfile, procVars, crashes, shutVars>>

BackoffOver(s) ==
    /\ pc[s] = "backoff"
    /\ timer[s] = 0
    /\ pc' = [pc EXCEPT ![s] = "launch"]
    /\ UNCHANGED <<policy, timer, pid, n, ran, healthVars, pidfile, procVars, crashes,
                   shutVars>>

\* The script itself is killed (the kernel's OOM killer); its workload stays.
SupervisorKilled(s) ==
    /\ crashes < MaxCrash
    /\ pc[s] \notin {"start", "exited", "dead"}
    /\ crashes' = crashes + 1
    /\ pc' = [pc EXCEPT ![s] = "exited"]
    /\ timer' = [timer EXCEPT ![s] = 0]
    /\ pid' = [pid EXCEPT ![s] = NoPid]
    /\ UNCHANGED <<policy, n, ran, healthVars, pidfile, procVars, shutVars>>

\* Mutant: every service gets a ::respawn: line.
InittabActionRespawn(s) == "respawn"

\* What the inittab line of a service tells init to do when its script ends.
InittabAction(s) == IF policy[s] \in {"on-failure", "no"} THEN "once" ELSE "respawn"

\* init's main loop starts a ::respawn: script again; a shutdown leaves the loop.
Respawn(s) ==
    /\ pc[s] = "exited"
    /\ InittabAction(s) = "respawn"
    /\ ~ShuttingDown
    /\ pc' = [pc EXCEPT ![s] = "start"]
    /\ UNCHANGED <<policy, timer, pid, n, ran, healthVars, pidfile, procVars, crashes,
                   shutVars>>

-----------------------------------------------------------------------------
(***************************************************************************)
(* The workloads (external).                                               *)
(***************************************************************************)

Exit(p, code) ==
    /\ Alive(p)
    /\ p \notin wedged
    /\ fate' = [fate EXCEPT ![p] = "exited"]
    /\ status' = [status EXCEPT ![p] = code]
    /\ UNCHANGED <<policy, scriptVars, healthVars, pidfile, owner, wedged, hcTermed,
                   sdTermed, crashes, shutVars>>

\* Only the health check tells a wedged process from one that merely runs on.
Wedge(p) ==
    /\ Alive(p)
    /\ Tracked(owner[p])
    /\ p \notin wedged
    /\ wedged' = wedged \cup {p}
    /\ UNCHANGED <<policy, scriptVars, healthVars, pidfile, fate, owner, status,
                   hcTermed, sdTermed, crashes, shutVars>>

-----------------------------------------------------------------------------
(***************************************************************************)
(* The shutdown script, then BusyBox init's own sequence.                  *)
(***************************************************************************)

\* Power button, poweroff or Ctrl-Alt-Del: init stops respawning and runs the
\* ::shutdown: action.
Poweroff ==
    /\ sd = "idle"
    /\ sd' = "term"
    /\ UNCHANGED <<policy, scriptVars, healthVars, pidfile, procVars, crashes, sdn,
                   sdTimer, sdClock>>

\* [ -f pidfile ] && kill -TERM "$(cat pidfile)"
SdTerm ==
    /\ sd = "term"
    /\ sdTermed' = IF Alive(pidfile) THEN sdTermed \cup {pidfile} ELSE sdTermed
    /\ sd' = "loop"
    /\ UNCHANGED <<policy, scriptVars, healthVars, pidfile, fate, owner, status, wedged,
                   hcTermed, crashes, sdn, sdTimer, sdClock>>

\* Mutants: one round more, one round less.
GraceLeftLong  == sdn <= StopGrace
GraceLeftShort == sdn + 1 < StopGrace

\* [ "$n" -lt StopGrace ]
GraceLeft == sdn < StopGrace

\* while the grace lasts: break if nobody is alive, else sleep 1
SdLoop ==
    /\ sd = "loop"
    /\ \/ /\ GraceLeft /\ Alive(pidfile)
          /\ sd' = "sleep"
          /\ sdTimer' = 1
       \/ /\ ~(GraceLeft /\ Alive(pidfile))
          /\ sd' = "kill0"
          /\ UNCHANGED sdTimer
    /\ UNCHANGED <<policy, scriptVars, healthVars, pidfile, procVars, crashes, sdn,
                   sdClock>>

\* Mutant: n=$((n+1)) is missing.
SdSleptUncounted ==
    /\ sd = "sleep"
    /\ sdTimer = 0
    /\ sd' = "loop"
    /\ UNCHANGED <<policy, scriptVars, healthVars, pidfile, procVars, crashes, sdn,
                   sdTimer, sdClock>>

SdSlept ==
    /\ sd = "sleep"
    /\ sdTimer = 0
    /\ sdn' = sdn + 1
    /\ sd' = "loop"
    /\ UNCHANGED <<policy, scriptVars, healthVars, pidfile, procVars, crashes, sdTimer,
                   sdClock>>

\* kill -0 "$(cat pidfile)" && ... ; the kill that follows reads the file again.
SdKill0 ==
    /\ sd = "kill0"
    /\ sd' = IF Alive(pidfile) THEN "kill9" ELSE "umount"
    /\ UNCHANGED <<policy, scriptVars, healthVars, pidfile, procVars, crashes, sdn,
                   sdTimer, sdClock>>

SdKill9 ==
    /\ sd = "kill9"
    /\ IF Alive(pidfile)
         THEN /\ fate' = [fate EXCEPT ![pidfile] = "sdkilled"]
              /\ status' = [status EXCEPT ![pidfile] = "nonzero"]
              /\ wedged' = wedged \ {pidfile}
         ELSE UNCHANGED <<fate, status, wedged>>
    /\ sd' = "umount"
    /\ UNCHANGED <<policy, scriptVars, healthVars, pidfile, owner, hcTermed, sdTermed,
                   crashes, sdn, sdTimer, sdClock>>

\* The action has returned: init sends everybody SIGTERM, which ends the
\* supervisor scripts, and waits a second.
InitTerm ==
    /\ sd = "umount"
    /\ sd' = "lastsec"
    /\ sdTimer' = 1
    /\ pc' = [s \in Services |-> IF pc[s] = "exited" THEN "exited" ELSE "dead"]
    /\ timer' = [s \in Services |-> 0]
    /\ pid' = [s \in Services |-> NoPid]
    /\ UNCHANGED <<policy, n, ran, healthVars, pidfile, procVars, crashes, sdn, sdClock>>

InitKill ==
    /\ sd = "lastsec"
    /\ sdTimer = 0
    /\ sd' = "halted"
    /\ fate' = [p \in Pids |-> IF fate[p] = "live" THEN "haltkilled" ELSE fate[p]]
    /\ wedged' = {}
    /\ UNCHANGED <<policy, scriptVars, healthVars, pidfile, owner, status, hcTermed,
                   sdTermed, crashes, sdn, sdTimer, sdClock>>

-----------------------------------------------------------------------------
(***************************************************************************)
(* Time.                                                                   *)
(***************************************************************************)

\* Is there a statement the script runs before any time passes?
ScriptReady(s) ==
    \/ pc[s] \in {"start", "launch", "record", "poll", "reap"}
    \/ pc[s] \in {"sleep", "backoff"} /\ timer[s] = 0
    \/ pc[s] \in {"fg", "hung"} /\ ~Alive(pid[s])

ShutdownReady ==
    \/ sd \in {"term", "loop", "kill0", "kill9", "umount"}
    \/ sd \in {"sleep", "lastsec"} /\ sdTimer = 0

Tick ==
    /\ sd # "halted"
    /\ \A s \in Services : ~ScriptReady(s)
    /\ ~ShutdownReady
    /\ timer' = [s \in Services |-> IF timer[s] > 0 THEN timer[s] - 1 ELSE 0]
    /\ ran' = [s \in Services |-> IF pid[s] = NoPid THEN ran[s]
                                  ELSE Minimum(ran[s] + 1, BackoffCap + 1)]
    /\ sdTimer' = IF sdTimer > 0 THEN sdTimer - 1 ELSE 0
    /\ sdClock' = IF ShuttingDown THEN Minimum(sdClock + 1, ClockCap) ELSE 0
    /\ UNCHANGED <<policy, pc, pid, n, healthVars, pidfile, procVars, crashes, sd, sdn>>

\* The guest is off.
Halted == sd = "halted" /\ UNCHANGED vars

-----------------------------------------------------------------------------
Script(s) ==
    \/ Start(s) \/ Launch(s) \/ RecordPid(s) \/ Poll(s) \/ Wake(s)
    \/ HcPass(s) \/ HcFail(s) \/ Reap(s) \/ BackoffOver(s) \/ Respawn(s)

Shutdown ==
    \/ SdTerm \/ SdLoop \/ SdSlept \/ SdKill0 \/ SdKill9 \/ InitTerm \/ InitKill

Next ==
    \/ \E s \in Services : Script(s) \/ HcHang(s) \/ SupervisorKilled(s)
    \/ \E p \in Pids : Wedge(p) \/ \E c \in {"zero", "nonzero"} : Exit(p, c)
    \/ Poweroff
    \/ Shutdown
    \/ Tick
    \/ Halted

Spec == Init /\ [][Next]_vars

\* The kernel keeps scheduling the scripts and the clock keeps running; a
\* workload need never exit and nobody need ever press the power button.
FairSpec ==
    /\ Spec
    /\ \A s \in Services : WF_vars(Script(s))
    /\ WF_vars(Shutdown)
    /\ WF_vars(Tick)

-----------------------------------------------------------------------------
(***************************************************************************)
(* Properties.                                                             *)
(***************************************************************************)

\* As long as no supervisor script is killed, a service never has two live
\* processes: a script starts the next one only after it found the last one
\* gone (buildSupervisorScript, kill -0 and wait).
OneInstance ==
    crashes = 0 => \A p, q \in Live : owner[p] = owner[q] => p = q

\* The health check never sends SIGKILL to a process it has not sent SIGTERM
\* before: $killed belongs to the process that is running, not to an earlier
\* one (buildSupervisorScript, "if [ $killed -eq 0 ]").
TermBeforeKill == \A p \in Pids : fate[p] = "hckilled" => p \in hcTermed

\* A service that is done stays down: once a process of a RESTART no service
\* has ended, or one of a RESTART on-failure service has ended with status 0,
\* no other process of that service runs.  Both the script's own exit and the
\* inittab's ::once: are needed for it.
Completed(p) ==
    \/ policy[owner[p]] = "no" /\ fate[p] \in {"exited", "hckilled", "sdkilled"}
    \/ policy[owner[p]] = "on-failure" /\ fate[p] = "exited" /\ status[p] = "zero"
CompletedStaysDown ==
    crashes = 0 => \A p \in Pids, q \in Live : Completed(p) => owner[q] # owner[p]

\* The shutdown takes at most STOPGRACE seconds plus init's last second,
\* whatever the workloads and the supervisors do meanwhile.
BoundedShutdown == sdClock <= StopGrace + 1

\* The shutdown script never sends SIGKILL to a process it sent SIGTERM
\* before STOPGRACE seconds have passed (buildShutdownScript).
KillAfterGrace ==
    [][\A p \in Pids : (Alive(p) /\ p \in sdTermed /\ fate'[p] = "sdkilled")
                          => sdClock >= StopGrace]_vars

\* A watched workload that is wedged (fails every check, ignores SIGTERM) is
\* got rid of: the escalation to SIGKILL of buildSupervisorScript (T83).
WedgedReplaced ==
    \A p \in Pids : p \in wedged ~> (p \notin wedged)

\* Under RESTART always a process that ended is replaced, or the guest is
\* shutting down.
AlwaysRestarted ==
    \A s \in Services :
        (policy[s] = "always" /\ ~Alive(pid[s])) ~> (Alive(pid[s]) \/ ShuttingDown)

\* A shutdown ends with the guest halted.
GuestHalts == ShuttingDown ~> sd = "halted"

-----------------------------------------------------------------------------
(***************************************************************************)
(* The promise of ServiceLife, over what the scripts do: a service is up   *)
(* while the process its script waits for lives; its status is the one     *)
(* wait would return; and it is idle wherever its script, or init's        *)
(* ::respawn:, will start it.                                              *)
(***************************************************************************)
Closed == sd \in {"lastsec", "halted"}

\* A script that ended and that init will not start again.
Retired(s) == pc[s] = "exited" /\ InittabAction(s) = "once"

PhaseOf(s) ==
    IF Closed THEN "done"
    ELSE IF pid[s] # NoPid THEN (IF Alive(pid[s]) THEN "up" ELSE status[pid[s]])
    ELSE IF Retired(s) THEN "done" ELSE "idle"
ProcOf(s) == IF Alive(pid[s]) THEN pid[s] ELSE NoPid

lifePhase  == [s \in Services |-> PhaseOf(s)]
lifeProc   == [s \in Services |-> ProcOf(s)]
lifeStrays == {p \in Live : pid[owner[p]] # p}
lifePower  == CASE sd = "idle" -> "on" [] sd = "lastsec" -> "closing"
                [] sd = "halted" -> "off" [] OTHER -> "stopping"

Life == INSTANCE ServiceLife WITH
    phase <- lifePhase, proc <- lifeProc, strays <- lifeStrays, power <- lifePower

\* The scripts, the health check, init and the shutdown together keep the promise
\* of the RESTART policies: a service is started only while it is idle, judged
\* once by the status of the process it waited for, done for good when its policy
\* says so, and only a killed script leaves a process that nobody waits for
\* (buildSupervisorScript, buildInittab, buildShutdownScript).
LifePromise == Life!Spec

-----------------------------------------------------------------------------
(***************************************************************************)
(* The inductive invariant behind the safety properties.                   *)
(***************************************************************************)

\* Script positions at which $pid has been set and not yet waited for, those
\* that belong to the health-check branch, and those of a script that ended.
Holding  == {"record", "poll", "sleep", "check", "hung", "reap", "fg"}
Watching == {"poll", "sleep", "check", "hung", "reap"}
Ended    == {"exited", "dead"}

\* A script has a $pid exactly while it waits for that process, only the
\* entrypoint's script takes the health-check branch, and "wait" is reached
\* only once the process is gone.
ScriptInv ==
    \A s \in Services :
        /\ (pid[s] # NoPid) <=> (pc[s] \in Holding)
        /\ pc[s] \in Watching \cup {"record"} => Tracked(s)
        /\ pc[s] = "reap" => ~Alive(pid[s])

\* $killed is about the process being watched.
KilledInv ==
    (killed /\ pc[Entry] \in Watching)
        => (pid[Entry] \in hcTermed \/ ~Alive(pid[Entry]))

\* The process a script waits for is its own, and has a status once it ended.
MineInv ==
    \A s \in Services : pid[s] # NoPid =>
        /\ owner[pid[s]] = s
        /\ (status[pid[s]] = "none") <=> Alive(pid[s])

\* The scripts are gone once init has sent its SIGTERM.
OverInv == sd \in {"lastsec", "halted"} => \A s \in Services : pc[s] \in Ended

\* Without killed scripts, a live process is the one its script waits for and
\* a service that is done has no script that would start another.
OwnerInv ==
    crashes = 0 =>
        /\ sd \notin {"lastsec", "halted"} =>
              \A p \in Pids : fate[p] = "live" => pid[owner[p]] = p
        /\ \A p \in Pids :
              Completed(p) => pid[owner[p]] = p \/ pc[owner[p]] \in Ended

\* The shutdown script's $n counts the seconds it has slept.
ClockInv ==
    /\ sdn <= StopGrace
    /\ sd \in {"idle", "term"} => sdClock = 0 /\ sdn = 0 /\ sdTimer = 0
    /\ sd \in {"loop", "kill0", "kill9", "umount"} => sdClock = sdn /\ sdTimer = 0
    /\ sd = "sleep" => sdn < StopGrace /\ sdClock + sdTimer = sdn + 1
    /\ sd = "lastsec" => sdClock + sdTimer = sdn + 1
    /\ sd = "halted" => sdClock = sdn + 1 /\ sdTimer = 0

\* If the loop ended early, the process in the pidfile is gone or new.
GraceInv ==
    /\ (pc[Entry] = "record" /\ pid[Entry] \in sdTermed) => pidfile = pid[Entry]
    /\ (sd \in {"kill0", "kill9"} /\ Alive(pidfile) /\ pidfile \in sdTermed)
           => sdn = StopGrace

IInv ==
    /\ TypeOK
    /\ ScriptInv
    /\ KilledInv
    /\ OverInv
    /\ OwnerInv
    /\ ClockInv
    /\ GraceInv
    /\ OneInstance
    /\ CompletedStaysDown
    /\ TermBeforeKill

-----------------------------------------------------------------------------
(***************************************************************************)
(* What comments and documentation say, and the code does not do.          *)
(***************************************************************************)

\* "given up to this many seconds to exit before being escalated to SIGKILL":
\* a process the shutdown sent SIGTERM is not sent SIGKILL, by anybody,
\* before STOPGRACE seconds have passed.
GraceHonoured ==
    [][\A p \in Pids : (Alive(p) /\ p \in sdTermed /\ fate'[p] = "hckilled")
                          => sdClock >= StopGrace]_vars

\* "unhealthy is like crashed": a process the health check ended is one the
\* restart policy restarts, unless the policy is "no".
UnhealthyIsLikeCrashed ==
    [][\A s \in Services :
         (pc[s] = "reap" /\ pc'[s] = "exited" /\ policy[s] # "no")
             => pid[s] \notin hcTermed]_vars
=============================================================================
