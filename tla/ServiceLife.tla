---------------------------- MODULE ServiceLife ----------------------------
(***************************************************************************)
(* What a RESTART policy promises of a service, without scripts, polls,    *)
(* delays, signals or an inittab.  A service is idle, up, has ended with a *)
(* status the policy still has to judge, or is done for good.  A process   *)
(* that nobody waits for any more is a stray; only the loss of a service's *)
(* supervisor makes one while the guest runs.  Power-off turns every       *)
(* process into a stray, and none of them outlives the guest.              *)
(***************************************************************************)
EXTENDS Integers

CONSTANTS
    Services,   \* the services of the image
    Policies,   \* the policies they may have
    Pids,       \* names for processes
    NoPid,      \* no process
    MaxCrash,   \* how many supervisors may be lost
    WorkdirOk   \* can the services be started at all

VARIABLES
    policy,   \* the policy of each service
    phase,    \* where each service is
    proc,     \* the process of a service that is up
    strays,   \* processes that run and belong to nobody
    crashes,  \* supervisors lost
    power     \* "on", "stopping", "closing" or "off"

vars == <<policy, phase, proc, strays, crashes, power>>

Init ==
    /\ policy \in [Services -> Policies]
    /\ phase = [s \in Services |-> "idle"]
    /\ proc = [s \in Services |-> NoPid]
    /\ strays = {} /\ crashes = 0 /\ power = "on"

\* A service that is not up is started, also while the guest is stopping.
Begin(s) ==
    /\ phase[s] = "idle" /\ power \in {"on", "stopping"}
    /\ phase' = [phase EXCEPT ![s] = "up"]
    /\ \E p \in Pids \ strays :
          /\ \A t \in Services : proc[t] # p
          /\ proc' = [proc EXCEPT ![s] = p]
    /\ UNCHANGED <<policy, strays, crashes, power>>

\* Its process ends, by itself or by a signal.
End(s) ==
    /\ phase[s] = "up"
    /\ \E c \in {"zero", "nonzero"} : phase' = [phase EXCEPT ![s] = c]
    /\ proc' = [proc EXCEPT ![s] = NoPid]
    /\ UNCHANGED <<policy, strays, crashes, power>>

\* The policy decides, once, whether there will be another.
Stops(s) == policy[s] = "no" \/ (policy[s] = "on-failure" /\ phase[s] = "zero")
Judge(s) ==
    /\ phase[s] \in {"zero", "nonzero"}
    /\ phase' = [phase EXCEPT ![s] = IF Stops(s) THEN "done" ELSE "idle"]
    /\ UNCHANGED <<policy, proc, strays, crashes, power>>

\* What is left of a service whose supervisor is gone: only "always" starts it again.
Left(s) == IF policy[s] = "always" THEN "idle" ELSE "done"

Lose(s) ==
    /\ phase[s] # "done" /\ crashes < MaxCrash
    /\ crashes' = crashes + 1
    /\ phase' = [phase EXCEPT ![s] = Left(s)]
    /\ strays' = strays \cup ({proc[s]} \ {NoPid})
    /\ proc' = [proc EXCEPT ![s] = NoPid]
    /\ UNCHANGED <<policy, power>>

GiveUp(s) ==
    /\ ~WorkdirOk /\ phase[s] = "idle"
    /\ phase' = [phase EXCEPT ![s] = Left(s)]
    /\ UNCHANGED <<policy, proc, strays, crashes, power>>

StrayEnds(p) ==
    /\ p \in strays /\ strays' = strays \ {p}
    /\ UNCHANGED <<policy, phase, proc, crashes, power>>

PowerOff ==
    /\ power = "on" /\ power' = "stopping"
    /\ UNCHANGED <<policy, phase, proc, strays, crashes>>

\* Nobody is started from here on.
Close ==
    /\ power = "stopping" /\ power' = "closing"
    /\ phase' = [s \in Services |-> "done"]
    /\ strays' = strays \cup ({proc[s] : s \in Services} \ {NoPid})
    /\ proc' = [s \in Services |-> NoPid]
    /\ UNCHANGED <<policy, crashes>>

Off ==
    /\ power = "closing" /\ power' = "off"
    /\ strays' = {}
    /\ UNCHANGED <<policy, phase, proc, crashes>>

Next ==
    \/ \E s \in Services : Begin(s) \/ End(s) \/ Judge(s) \/ Lose(s) \/ GiveUp(s)
    \/ \E p \in Pids : StrayEnds(p)
    \/ PowerOff \/ Close \/ Off

Spec == Init /\ [][Next]_vars
=============================================================================
