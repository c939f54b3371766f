------------------------- MODULE TriggerLoop_proofs -------------------------
(***************************************************************************)
(* Proofs about TriggerLoop, for any number of handlers and any bounds.    *)
(***************************************************************************)
EXTENDS TriggerLoop, TLAPS

LEMMA VersionsAreNaturals ==
    /\ Versions \subseteq Nat
    /\ 0 \in Versions
    /\ \A v \in Versions : v < MaxVersion => v + 1 \in Versions
BY BoundsAreNaturals DEF Versions

LEMMA InitTypeOK == Init => TypeOK
<1> SUFFICES ASSUME Init
             PROVE  TypeOK
  OBVIOUS
<1>1. client \in BOOLEAN /\ cancelled \in BOOLEAN
  BY Zenon DEF Init
<1>2. restarts \in 0..MaxRestarts
  BY BoundsAreNaturals DEF Init
<1>3. owes \in [Handlers -> Versions]
  BY VersionsAreNaturals DEF Init
<1>4. QED
  BY <1>1, <1>2, <1>3, VersionsAreNaturals DEF Init, TypeOK

LEMMA NextTypeOK == TypeOK /\ [Next]_vars => TypeOK'
<1> SUFFICES ASSUME TypeOK, [Next]_vars
             PROVE  TypeOK'
  OBVIOUS
<1> USE VersionsAreNaturals DEF TypeOK, storeVars, wakeVars, runVars, hostVars
<1>1. ASSUME NEW h \in Handlers, Commit(h)
      PROVE  TypeOK'
  BY <1>1 DEF Commit
<1>2. ASSUME NEW h \in Handlers, Trigger(h)
      PROVE  TypeOK'
  BY <1>2 DEF Trigger, FillTrigger
<1>3. CASE CommitSilently
  BY <1>3 DEF CommitSilently
<1>4. CASE SyncNow
  BY <1>4 DEF SyncNow, FillTrigger
<1>5. CASE Start
  BY <1>5 DEF Start
<1>6. CASE Tick
  BY <1>6 DEF Tick
<1>7. CASE WakeOnDone \/ WakeOnTick \/ WakeOnTrigger
  BY <1>7 DEF WakeOnDone, WakeOnTick, WakeOnTrigger
<1>8. CASE ReadStore \/ ReadFails
  BY <1>8 DEF ReadStore, ReadFails
<1>9. CASE Push \/ PushFails
  BY <1>9 DEF Push, PushFails
<1>10. CASE TargetRestarts
  BY <1>10, BoundsAreNaturals DEF TargetRestarts
<1>11. CASE Cancel
  BY <1>11 DEF Cancel
<1>12. CASE UNCHANGED vars
  BY <1>12 DEF vars
<1>13. QED
  BY <1>1, <1>2, <1>3, <1>4, <1>5, <1>6, <1>7, <1>8, <1>9, <1>10, <1>11,
     <1>12 DEF Next

\* Type correctness: among others, the trigger channel never holds more than
\* one token (reconcile.go:114-119, kea/sync.go:68-76).
THEOREM TypeCorrect == Spec => []TypeOK
BY InitTypeOK, NextTypeOK, PTL DEF Spec

-----------------------------------------------------------------------------
\* Nothing runs ahead of the store, and the target never ahead of the reads.
Ordered ==
    /\ \A h \in Handlers : owes[h] <= version
    /\ triggered <= version
    /\ loaded <= version
    /\ applied <= loaded

\* A triggered mutation was in what the last read saw, or a run is ahead of it:
\* the token in the channel, a run that has not read yet or, after a failed
\* run, the one that the ticker starts.
NotLost ==
    phase = "pushing" \/ (phase = "select" /\ status = "ok") =>
        trigger = 1 \/ triggered <= loaded

\* Only a loop without a client ends without ever serving a trigger.
Serving == phase \in {"select", "reading", "pushing"} => client

IInv == TypeOK /\ Ordered /\ NotLost /\ Serving

LEMMA InitIInv == Init => IInv
<1> SUFFICES ASSUME Init
             PROVE  Ordered /\ NotLost /\ Serving
  BY InitTypeOK DEF IInv
<1>1. Ordered
  BY DEF Init, Ordered
<1>2. NotLost /\ Serving
  BY DEF Init, NotLost, Serving
<1>3. QED
  BY <1>1, <1>2

LEMMA NextIInv == IInv /\ [Next]_vars => IInv'
<1> SUFFICES ASSUME IInv, [Next]_vars
             PROVE  IInv'
  OBVIOUS
<1>1. TypeOK'
  BY NextTypeOK DEF IInv
<1>2. Ordered'
  <2> USE VersionsAreNaturals DEF IInv, TypeOK, Ordered, storeVars, wakeVars,
          runVars, hostVars
  <2>0. ASSUME version' = version + 1,
               \A h \in Handlers : owes'[h] \in {owes[h], version'},
               UNCHANGED <<triggered, loaded, applied>>
        PROVE  Ordered'
    <3>1. version \in Nat /\ triggered \in Nat /\ loaded \in Nat
      OBVIOUS
    <3>2. \A h \in Handlers : owes[h] \in Nat
      OBVIOUS
    <3>3. \A h \in Handlers : owes'[h] <= version'
      BY <2>0, <3>1, <3>2
    <3>4. QED
      BY <2>0, <3>1, <3>3
  <2>1. ASSUME NEW h \in Handlers, Commit(h)
        PROVE  Ordered'
    BY <2>0, <2>1 DEF Commit
  <2>2. ASSUME NEW h \in Handlers, Trigger(h)
        PROVE  Ordered'
    BY <2>2 DEF Trigger
  <2>3. CASE CommitSilently
    BY <2>0, <2>3 DEF CommitSilently
  <2>4. CASE SyncNow \/ Start \/ Tick
    BY <2>4 DEF SyncNow, Start, Tick
  <2>5. CASE WakeOnDone \/ WakeOnTick \/ WakeOnTrigger
    BY <2>5 DEF WakeOnDone, WakeOnTick, WakeOnTrigger
  <2>6. CASE ReadStore \/ ReadFails
    BY <2>6 DEF ReadStore, ReadFails
  <2>7. CASE Push \/ PushFails
    BY <2>7 DEF Push, PushFails
  <2>8. CASE TargetRestarts \/ Cancel
    BY <2>8 DEF TargetRestarts, Cancel
  <2>9. CASE UNCHANGED vars
    BY <2>9 DEF vars
  <2>10. QED
    BY <2>1, <2>2, <2>3, <2>4, <2>5, <2>6, <2>7, <2>8, <2>9 DEF Next
<1>3. NotLost' /\ Serving'
  <2> USE VersionsAreNaturals DEF IInv, TypeOK, Ordered, NotLost, Serving,
          storeVars, wakeVars, runVars, hostVars
  <2>1. ASSUME NEW h \in Handlers, Commit(h)
        PROVE  NotLost' /\ Serving'
    BY <2>1 DEF Commit
  <2>2. ASSUME NEW h \in Handlers, Trigger(h)
        PROVE  NotLost' /\ Serving'
    BY <2>2 DEF Trigger, FillTrigger
  <2>3. CASE CommitSilently
    BY <2>3 DEF CommitSilently
  <2>4. CASE SyncNow
    BY <2>4 DEF SyncNow, FillTrigger
  <2>5. CASE Start \/ Tick
    BY <2>5 DEF Start, Tick
  <2>6. CASE WakeOnDone \/ WakeOnTick \/ WakeOnTrigger
    BY <2>6 DEF WakeOnDone, WakeOnTick, WakeOnTrigger
  <2>7. CASE ReadStore \/ ReadFails
    BY <2>7 DEF ReadStore, ReadFails
  <2>8. CASE Push \/ PushFails
    BY <2>8 DEF Push, PushFails
  <2>9. CASE TargetRestarts \/ Cancel
    BY <2>9 DEF TargetRestarts, Cancel
  <2>10. CASE UNCHANGED vars
    BY <2>10 DEF vars
  <2>11. QED
    BY <2>1, <2>2, <2>3, <2>4, <2>5, <2>6, <2>7, <2>8, <2>9, <2>10 DEF Next
<1>4. QED
  BY <1>1, <1>2, <1>3 DEF IInv

THEOREM Invariance == Spec => []IInv
BY InitIInv, NextIInv, PTL DEF Spec

\* No trigger is lost to the run it arrives during, whatever the number of
\* handlers: the non-blocking send into a channel of capacity one is enough.
THEOREM StatusIsHonest == Spec => []StatusHonest
<1>1. IInv => StatusHonest
  BY DEF IInv, NotLost, StatusHonest
<1>2. QED
  BY <1>1, Invariance, PTL

-----------------------------------------------------------------------------
\* Each step of the loop is a step of the mirror or leaves it unchanged.
LEMMA StepRefines ==
    IInv /\ [Next]_vars => [MirrorOfStore!Next]_(MirrorOfStore!mirrorVars)
<1> SUFFICES ASSUME IInv, [Next]_vars
             PROVE  [MirrorOfStore!Next]_(MirrorOfStore!mirrorVars)
  OBVIOUS
<1> USE VersionsAreNaturals DEF IInv, TypeOK, Ordered, storeVars, wakeVars,
        runVars, hostVars, MirrorOfStore!Next, MirrorOfStore!mirrorVars,
        MirrorOfStore!Mutate, MirrorOfStore!Advance, MirrorOfStore!Lose,
        MirrorOfStore!Close
<1>1. ASSUME NEW h \in Handlers, Commit(h)
      PROVE  MirrorOfStore!Mutate
  BY <1>1 DEF Commit
<1>2. ASSUME NEW h \in Handlers, Trigger(h)
      PROVE  UNCHANGED MirrorOfStore!mirrorVars
  BY <1>2 DEF Trigger
<1>3. CASE CommitSilently
  BY <1>3 DEF CommitSilently
<1>4. CASE SyncNow \/ Tick \/ Cancel
  BY <1>4 DEF SyncNow, Tick, Cancel
<1>5. CASE Start \/ WakeOnDone
  BY <1>5 DEF Start, WakeOnDone
<1>6. CASE WakeOnTick \/ WakeOnTrigger
  BY <1>6 DEF WakeOnTick, WakeOnTrigger
<1>7. CASE ReadStore \/ ReadFails
  BY <1>7 DEF ReadStore, ReadFails
<1>8. CASE Push \/ PushFails
  <2>1. applied' = applied \/ applied' = loaded
    BY <1>8 DEF Push, PushFails
  <2>2. version' = version /\ restarts' = restarts /\ phase = "pushing" /\ phase' = "select"
    BY <1>8 DEF Push, PushFails
  <2>3. applied' # applied => applied' \in (applied + 1)..version
    BY <2>1
  <2>4. QED
    BY <2>2, <2>3
<1>9. CASE TargetRestarts
  BY <1>9 DEF TargetRestarts
<1>10. CASE UNCHANGED vars
  BY <1>10 DEF vars
<1>11. QED
  BY <1>1, <1>2, <1>3, <1>4, <1>5, <1>6, <1>7, <1>8, <1>9, <1>10 DEF Next

\* The loop implements the mirror: apart from a restart of the target, its
\* content only moves forward, to a version the store has held.
THEOREM LoopIsMirror == Spec => MirrorIsSafe
<1>1. Init => MirrorOfStore!Init
  BY DEF Init, MirrorOfStore!Init
<1>2. QED
  BY <1>1, StepRefines, Invariance, PTL
     DEF Spec, MirrorIsSafe, MirrorOfStore!Safe

=============================================================================
