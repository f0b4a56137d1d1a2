------------------------- MODULE PolicyWatcherProofs -------------------------
(***************************************************************************)
(* Proofs about PolicyWatcher, for every set of policies and requests.     *)
(***************************************************************************)
EXTENDS PolicyWatcher, TLAPS

USE WatcherAssumption DEF WatcherAssumption

\* What a request that is being evaluated knows: the policy it loaded was in
\* force, has not denied it so far, and has not been decided by anything.
ProgressInv ==
  \A r \in Requests :
    /\ pc[r] # "idle" => seen[r] \in during[r] /\ verdict[r] = "none"
    /\ pc[r] = "allow" => r \notin Denied[seen[r]]

\* A file that could not be read is never parsed.
ReadInv == loop = "parsing" => read # Missing

WatchInv == TypeOK /\ ReadInv /\ ProgressInv /\ ConsistentDecisions

LEMMA WatchInit == Init => WatchInv
  BY DEF Init, WatchInv, ReadInv, TypeOK, Contents, ProgressInv, ConsistentDecisions

LEMMA WatchStep == WatchInv /\ [Next]_vars => WatchInv'
<1> SUFFICES ASSUME WatchInv, [Next]_vars
             PROVE  WatchInv'
  OBVIOUS
<1> USE DEF WatchInv, ReadInv, TypeOK, ProgressInv, ConsistentDecisions, Contents, Goto, watch, requests
<1>1. CASE WriteFile
  BY <1>1 DEF WriteFile
<1>2. CASE Tick
  BY <1>2 DEF Tick
<1>3. CASE TakeTick
  BY <1>3 DEF TakeTick
<1>4. CASE Exit
  BY <1>4 DEF Exit
<1>5. CASE ReadFile
  BY <1>5 DEF ReadFile
<1>6. CASE Reload
  <2>1. CASE read \in {last, Broken}
    BY <1>6, <2>1 DEF Reload
  <2>2. CASE read \notin {last, Broken}
    <3>1. read \in Policies
      BY <1>6, <2>2 DEF Reload
    <3>2. QED
      BY <1>6, <2>2, <3>1 DEF Reload, Install
  <2>3. QED
    BY <2>1, <2>2
<1>7. CASE Notify
  BY <1>7 DEF Notify
<1>8. CASE Close
  BY <1>8 DEF Close
<1>9. ASSUME NEW r \in Requests, Load(r)
      PROVE  WatchInv'
  BY <1>9 DEF Load
<1>10. ASSUME NEW r \in Requests, CheckDeny(r)
       PROVE  WatchInv'
  BY <1>10 DEF CheckDeny
<1>11. ASSUME NEW r \in Requests, CheckAllow(r)
       PROVE  WatchInv'
  BY <1>11 DEF CheckAllow
<1>12. CASE UNCHANGED vars
  BY <1>12 DEF vars
<1>13. QED
  BY <1>1, <1>2, <1>3, <1>4, <1>5, <1>6, <1>7, <1>8, <1>9, <1>10, <1>11, <1>12 DEF Next, LoopStep

\* Only a policy that parses is ever in force.
THEOREM TypeCorrect == Spec => []TypeOK
<1>1. WatchInv => TypeOK
  BY DEF WatchInv
<1>2. QED
  BY <1>1, WatchInit, WatchStep, PTL DEF Spec

\* Every decision is the decision of one policy that was in force while the
\* request was being decided.
THEOREM DecisionsAreConsistent == Spec => []ConsistentDecisions
<1>1. WatchInv => ConsistentDecisions
  BY DEF WatchInv
<1>2. QED
  BY <1>1, WatchInit, WatchStep, PTL DEF Spec
===============================================================================
