----------------------------- MODULE PieceStore -----------------------------
(***************************************************************************)
(* What the pieces source promises a builder, without files, hashes or a   *)
(* cache: releases replace one another, and an answered request gets the   *)
(* files of one release, the one that was current when it asked.  A        *)
(* request may also fail, or its asker may be killed.                      *)
(***************************************************************************)
EXTENDS Integers

CONSTANTS
    Builders,  \* who asks
    Versions,  \* the releases there may be
    Damaged    \* contents that belong to no release

VARIABLES
    release,  \* the current release, 0 before the first
    status,   \* what became of each builder's request
    picked,   \* the release a request is about, 0 when there is none
    answer    \* the releases from which the answer's files come

vars == <<release, status, picked, answer>>

Init ==
    /\ release = 0
    /\ status = [b \in Builders |-> "idle"]
    /\ picked = [b \in Builders |-> 0]
    /\ answer = [b \in Builders |-> {}]

Publish ==
    /\ \E v \in Versions : v > release /\ release' = v
    /\ UNCHANGED <<status, picked, answer>>

Ask(b) ==
    /\ status[b] # "working"
    /\ \/ /\ status' = [status EXCEPT ![b] = "working"]
          /\ picked' = [picked EXCEPT ![b] = release]
       \/ /\ status' = [status EXCEPT ![b] = "failed"]
          /\ picked' = [picked EXCEPT ![b] = 0]
    /\ answer' = [answer EXCEPT ![b] = {}]
    /\ UNCHANGED release

\* A request made before there was a release (an unverified source) is
\* answered with anything.
Answer(b) ==
    /\ status[b] = "working"
    /\ status' = [status EXCEPT ![b] = "answered"]
    /\ \E S \in SUBSET (Versions \cup Damaged) :
         /\ picked[b] # 0 => S = {picked[b]}
         /\ answer' = [answer EXCEPT ![b] = S]
    /\ UNCHANGED <<release, picked>>

Fail(b) ==
    /\ status[b] = "working"
    /\ \E s \in {"failed", "idle"} : status' = [status EXCEPT ![b] = s]
    /\ picked' = [picked EXCEPT ![b] = 0]
    /\ UNCHANGED <<release, answer>>

Next == Publish \/ \E b \in Builders : Ask(b) \/ Answer(b) \/ Fail(b)

Spec == Init /\ [][Next]_vars
=============================================================================
