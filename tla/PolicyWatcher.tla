---------------------------- MODULE PolicyWatcher ----------------------------
(***************************************************************************)
(* auth/rbac: FileWatcherAuthorizer, its refresh goroutine and the         *)
(* requests it authorizes while the policy file changes under it.  A       *)
(* policy is what its rules do: the requests its deny rules and its allow  *)
(* rules match.  The file may be written in place, so that the goroutine   *)
(* reads it half written, or be missing for a while.                       *)
(***************************************************************************)
EXTENDS Naturals

CONSTANTS
  Policies,    \* contents of the file that parse and have a name
  Requests,
  Denied,      \* Denied[p]: requests a deny rule of p matches
  Allowed,     \* Allowed[p]: requests an allow rule of p matches
  First,       \* the policy the constructor read
  Broken,      \* content that does not parse, or has no name
  Missing,     \* no file, or one that cannot be read
  MaxWrites    \* bound: changes of the file

ASSUME WatcherAssumption ==
  /\ First \in Policies
  /\ Broken \notin Policies /\ Missing \notin Policies /\ Broken # Missing
  /\ Denied \in [Policies -> SUBSET Requests]
  /\ Allowed \in [Policies -> SUBSET Requests]
  /\ MaxWrites \in Nat

VARIABLES
  file,      \* what the file holds
  writes,    \* changes of the file so far
  closed,    \* "yes" once Close was called
  tick,      \* the ticker's one-slot channel: "empty" or "full"
  loop,      \* run: "waiting", "reading", "parsing", "notifying", "exited"
  read,      \* what the last ReadFile returned
  last,      \* a.last: the content of the policy in force
  current,   \* a.current
  pc,        \* where each request is in IsAuthorized
  seen,      \* the policy it loaded
  verdict,   \* its answer: "none", "allowed" or "rejected"
  during     \* history: the policies in force since the request began

watch    == <<closed, tick, loop, read, last, current>>
requests == <<pc, seen, verdict>>
vars     == <<file, writes, watch, requests, during>>

Contents == Policies \cup {Broken, Missing}

Init ==
  /\ file = First
  /\ writes = 0
  /\ closed = "no"
  /\ tick = "empty"
  /\ loop = "waiting"
  /\ read = First
  /\ last = First
  /\ current = First
  /\ pc = [r \in Requests |-> "idle"]
  /\ seen = [r \in Requests |-> First]
  /\ verdict = [r \in Requests |-> "none"]
  /\ during = [r \in Requests |-> {}]

WriteFile ==
  /\ writes < MaxWrites
  /\ writes' = writes + 1
  /\ file' \in Contents \ {file}
  /\ UNCHANGED <<watch, requests, during>>

-----------------------------------------------------------------------------
(* The refresh goroutine *)

\* A tick is dropped when the last one has not been taken.
Tick ==
  /\ tick' = "full"
  /\ UNCHANGED <<file, writes, closed, loop, read, last, current, requests, during>>

TakeTick ==
  /\ loop = "waiting" /\ tick = "full"
  /\ tick' = "empty"
  /\ loop' = "reading"
  /\ UNCHANGED <<file, writes, closed, read, last, current, requests, during>>

\* The context is only looked at when no tick is waiting.
Exit_WhenIdle ==
  /\ loop = "waiting" /\ closed = "yes"
  /\ tick = "empty"
  /\ loop' = "exited"
  /\ UNCHANGED <<file, writes, closed, tick, read, last, current, requests, during>>

\* select picks at random when the context is done and a tick is ready.
Exit ==
  /\ loop = "waiting" /\ closed = "yes"
  /\ loop' = "exited"
  /\ UNCHANGED <<file, writes, closed, tick, read, last, current, requests, during>>

ReadFile ==
  /\ loop = "reading"
  /\ read' = file
  /\ loop' = IF file = Missing THEN "waiting" ELSE "parsing"
  /\ UNCHANGED <<file, writes, closed, tick, last, current, requests, during>>

\* The policy in force is added to the history of the requests in progress.
Install(p) ==
  /\ last' = p
  /\ current' = p
  /\ during' = [r \in Requests |-> IF pc[r] \in {"deny", "allow"} THEN during[r] \cup {p}
                                   ELSE during[r]]

\* Content that does not parse is installed all the same.
Reload_Unchecked ==
  /\ loop = "parsing"
  /\ IF read = last
     THEN loop' = "waiting" /\ UNCHANGED <<last, current, during>>
     ELSE loop' = "notifying" /\ Install(read)
  /\ UNCHANGED <<file, writes, closed, tick, read, requests>>

\* A failed reload ends the refresh loop.
Reload_GiveUp ==
  /\ loop = "parsing"
  /\ \/ /\ read \in {last, Broken}
        /\ loop' = IF read = Broken THEN "exited" ELSE "waiting"
        /\ UNCHANGED <<last, current, during>>
     \/ read \notin {last, Broken} /\ loop' = "notifying" /\ Install(read)
  /\ UNCHANGED <<file, writes, closed, tick, read, requests>>

\* Nothing new, or nothing that parses: the previous policy stays.  Any
\* other content is installed, whether or not Close was called meanwhile.
Reload ==
  /\ loop = "parsing"
  /\ \/ read \in {last, Broken} /\ loop' = "waiting" /\ UNCHANGED <<last, current, during>>
     \/ read \notin {last, Broken} /\ loop' = "notifying" /\ Install(read)
  /\ UNCHANGED <<file, writes, closed, tick, read, requests>>

\* OnPolicyUpdate, synchronously.
Notify ==
  /\ loop = "notifying"
  /\ loop' = "waiting"
  /\ UNCHANGED <<file, writes, closed, tick, read, last, current, requests, during>>

\* Close cancels the context and does not wait.
Close ==
  /\ closed' = "yes"
  /\ UNCHANGED <<file, writes, tick, loop, read, last, current, requests, during>>

-----------------------------------------------------------------------------
(* A request: load the policy once, then deny rules, then allow rules *)

Goto(r, label) == pc' = [pc EXCEPT ![r] = label]

Load(r) ==
  /\ pc[r] = "idle"
  /\ Goto(r, "deny")
  /\ seen' = [seen EXCEPT ![r] = current]
  /\ verdict' = [verdict EXCEPT ![r] = "none"]
  /\ during' = [during EXCEPT ![r] = {current}]
  /\ UNCHANGED <<file, writes, watch>>

CheckDeny(r) ==
  /\ pc[r] = "deny"
  /\ IF r \in Denied[seen[r]]
     THEN Goto(r, "idle") /\ verdict' = [verdict EXCEPT ![r] = "rejected"]
     ELSE Goto(r, "allow") /\ UNCHANGED verdict
  /\ UNCHANGED <<file, writes, watch, seen, during>>

\* The pointer is loaded again for the allow rules.
CheckAllow_Reloaded(r) ==
  /\ pc[r] = "allow"
  /\ Goto(r, "idle")
  /\ verdict' = [verdict EXCEPT ![r] = IF r \in Allowed[current] THEN "allowed" ELSE "rejected"]
  /\ UNCHANGED <<file, writes, watch, seen, during>>

CheckAllow(r) ==
  /\ pc[r] = "allow"
  /\ Goto(r, "idle")
  /\ verdict' = [verdict EXCEPT ![r] = IF r \in Allowed[seen[r]] THEN "allowed" ELSE "rejected"]
  /\ UNCHANGED <<file, writes, watch, seen, during>>

-----------------------------------------------------------------------------
LoopStep == ReadFile \/ Reload \/ Notify

Next ==
  \/ WriteFile \/ Tick \/ TakeTick \/ Exit \/ LoopStep \/ Close
  \/ \E r \in Requests : Load(r) \/ CheckDeny(r) \/ CheckAllow(r)

Spec == Init /\ [][Next]_vars

\* The ticker ticks, the goroutine runs (OnPolicyUpdate returns), and a
\* select that finds the context done again and again takes that branch.
Fairness ==
  /\ WF_vars(Tick)
  /\ WF_vars(TakeTick)
  /\ WF_vars(LoopStep)
  /\ SF_vars(Exit)

FairSpec == Spec /\ Fairness

-----------------------------------------------------------------------------
(* Properties *)

\* Every variable stays within its type; in particular only a policy that
\* parses is ever in force.
TypeOK ==
  /\ file \in Contents
  /\ writes \in 0..MaxWrites
  /\ closed \in {"no", "yes"}
  /\ tick \in {"empty", "full"}
  /\ loop \in {"waiting", "reading", "parsing", "notifying", "exited"}
  /\ read \in Contents
  /\ last \in Policies
  /\ current \in Policies
  /\ pc \in [Requests -> {"idle", "deny", "allow"}]
  /\ seen \in [Requests -> Policies]
  /\ verdict \in [Requests -> {"none", "allowed", "rejected"}]
  /\ during \in [Requests -> SUBSET Policies]

\* "In-flight requests always see a consistent policy": a request is allowed
\* or rejected as one policy, in force at some moment of the request, would
\* decide it on its own, and never by the rules of two.
ConsistentDecisions ==
  \A r \in Requests :
    verdict[r] # "none" =>
      \E p \in during[r] :
        verdict[r] = "allowed" <=> r \in Allowed[p] /\ r \notin Denied[p]

\* A valid file that stops changing is in force in the end, whatever the
\* file went through before, unless the authorizer is closed.
FileTakesEffect ==
  \A p \in Policies : <>[](file = p /\ closed = "no") => <>[](current = p)

\* "Close stops the background reload loop", in the end.
LoopExits == closed = "yes" ~> loop = "exited"
===============================================================================
