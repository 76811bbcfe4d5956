--------------------------- MODULE DeliveryProofs ---------------------------
(***************************************************************************)
(* Proofs about Delivery, for any set of listings, any of the modes and    *)
(* any bounds: type correctness, no unexplained duplicate, the honesty of  *)
(* the audit table, and the implementation of AlertLedger.                 *)
(***************************************************************************)
EXTENDS Delivery, FiniteSetTheorems, TLAPS

-----------------------------------------------------------------------------
(* Type correctness.                                                       *)

\* The outcomes of a call keep the budget's types.
LEMMA OutcomeTypes ==
  ASSUME TypeOK, Answered \/ NoEffect \/ Unanswered
  PROVE  /\ stopping' \in BOOLEAN
         /\ faults' \in Nat
         /\ stops' \in Nat
         /\ crashes' \in Nat
<1>1. CASE UNCHANGED budget
  BY <1>1 DEF TypeOK, budget
<1>2. CASE Fault
  <2>1. stopping' = stopping /\ stops' = stops /\ crashes' = crashes
    BY <1>2 DEF Fault
  <2>2. faults' \in Nat
    BY <1>2 DEF Fault, TypeOK
  <2> QED
    BY <2>1, <2>2 DEF TypeOK
<1>3. CASE Cancel
  <2>1. stopping' = TRUE /\ faults' = faults /\ crashes' = crashes
    BY <1>3 DEF Cancel
  <2>2. stops' \in Nat
    BY <1>3 DEF Cancel, TypeOK
  <2> QED
    BY <2>1, <2>2 DEF TypeOK
<1> QED
  BY <1>1, <1>2, <1>3 DEF Answered, NoEffect, Unanswered

\* A counter of the listings stays one when it is bumped.
LEMMA BumpType ==
  ASSUME NEW f \in [Items -> Nat], NEW i \in Items
  PROVE  /\ Bump(f, i) \in [Items -> Nat]
         /\ Bump(f, i)[i] = f[i] + 1
         /\ \A j \in Items : j # i => Bump(f, i)[j] = f[j]
  BY DEF Bump

LEMMA InitType == Init => TypeOK
<1> SUFFICES ASSUME Init
             PROVE  TypeOK
  OBVIOUS
<1>1. listingID \in BOOLEAN /\ sendErr \in BOOLEAN /\ stopping \in BOOLEAN
  BY DEF Init
<1>2. /\ successes \in [Items -> Nat]
      /\ posted \in [Items -> Nat]
      /\ lapsed \in [Items -> Nat]
      /\ blurred \in [Items -> Nat]
  BY DEF Init
<1>3. faults \in Nat /\ stops \in Nat /\ crashes \in Nat
  BY DEF Init
<1>4. pc \in PCs /\ (pc \in Busy => cur \in Items)
  BY DEF Init, PCs, Busy, InFlight
<1> QED
  BY <1>1, <1>2, <1>3, <1>4 DEF Init, TypeOK

LEMMA StepType == TypeOK /\ [Next]_vars => TypeOK'
<1> SUFFICES ASSUME TypeOK, [Next]_vars
             PROVE  TypeOK'
  OBVIOUS
<1> USE DEF TypeOK, PCs, Busy, InFlight
<1>1. CASE Poll
  BY <1>1, OutcomeTypes DEF Poll, NoEffect, Answered, redis, db, discord, budget, Fault
<1>2. CASE NextEntry
  BY <1>2 DEF NextEntry, redis, db, discord, budget
<1>3. CASE EndOfBatch
  BY <1>3 DEF EndOfBatch, redis, db, discord, budget
<1>4. CASE Persist
  BY <1>4, OutcomeTypes DEF Persist, redis, discord
<1>5. CASE Evaluate
  BY <1>5 DEF Evaluate, redis, db, discord, budget
<1>6. CASE Claim
  BY <1>6, OutcomeTypes DEF Claim, NoEffect, Commands, redis, db, discord
<1>7. CASE Send
  <2>1. stopping' \in BOOLEAN /\ faults' \in Nat /\ stops' \in Nat /\ crashes' \in Nat
    BY <1>7, OutcomeTypes DEF Send
  <2>2. cur \in Items
    BY <1>7 DEF Send
  <2>3. posted' \in [Items -> Nat] /\ blurred' \in [Items -> Nat]
    BY <1>7, <2>2, BumpType DEF Send
  <2>4. sendErr' \in BOOLEAN
    BY <1>7 DEF Send
  <2>5. pc' \in PCs
    BY <1>7 DEF Send
  <2> QED
    BY <1>7, <2>1, <2>2, <2>3, <2>4, <2>5 DEF Send, redis, db
<1>8. CASE RecordFailure
  BY <1>8, OutcomeTypes DEF RecordFailure, redis, discord
<1>9. CASE Release
  BY <1>9, OutcomeTypes DEF Release, NoEffect, Commands, redis, db, discord
<1>10. CASE RecordSuccess
  BY <1>10, OutcomeTypes, BumpType DEF RecordSuccess, redis, discord
<1>11. CASE Pause
  BY <1>11 DEF Pause, redis, db, discord, budget
<1>12. CASE Exit
  BY <1>12 DEF Exit, Die, redis, db, discord, budget
<1>13. CASE Stop
  BY <1>13, OutcomeTypes DEF Stop, Unanswered, worker, redis, db, discord
<1>14. CASE Crash
  <2>1. crashes' \in Nat
    BY <1>14 DEF Crash
  <2>2. listingID' \in BOOLEAN /\ sendErr' \in BOOLEAN /\ stopping' \in BOOLEAN
    BY <1>14 DEF Crash, Die
  <2> QED
    BY <1>14, <2>1, <2>2 DEF Crash, Die, redis, db, discord
<1>15. CASE Restart
  BY <1>15 DEF Restart, redis, db, discord
<1>16. ASSUME NEW i \in Items, Lapse(i)
       PROVE  TypeOK'
  BY <1>16, BumpType DEF Lapse, worker, db, budget
<1>17. ASSUME NEW i \in Items, LateSet(i)
       PROVE  TypeOK'
  BY <1>17 DEF LateSet, worker, db, discord, budget
<1>18. ASSUME NEW i \in Items, LateDel(i)
       PROVE  TypeOK'
  BY <1>18, BumpType DEF LateDel, worker, db, budget
<1>19. ASSUME NEW i \in Items, Appear(i) \/ Vanish(i)
       PROVE  TypeOK'
  BY <1>19 DEF Appear, Vanish, worker, redis, db, discord, budget
<1>20. ASSUME NEW c \in late, LateLost(c)
       PROVE  TypeOK'
  BY <1>20 DEF LateLost, worker, db, discord, budget
<1>21. CASE UNCHANGED vars
  BY <1>21 DEF vars, worker, redis, db, discord, budget
<1> QED
  BY <1>1, <1>2, <1>3, <1>4, <1>5, <1>6, <1>7, <1>8, <1>9, <1>10, <1>11, <1>12,
     <1>13, <1>14, <1>15, <1>16, <1>17, <1>18, <1>19, <1>20, <1>21
  DEF Next, Deliver, Environment

\* Every variable keeps its type; in particular the worker never works on a
\* listing it does not have in hand.
THEOREM TypeCorrect == Spec => []TypeOK
  BY InitType, StepType, PTL DEF Spec

-----------------------------------------------------------------------------
(* No unexplained duplicate: Backed is inductive.                          *)

LEMMA InitBacked == Init => Backed
  BY DEF Init, Backed, Pending, Held, InFlight

\* A step that touches no claim and no message, and starts no delivery.
LEMMA Calm ==
  ASSUME TypeOK, Backed,
         UNCHANGED <<claims, posted, lapsed, blurred>>,
         pc' \in InFlight => pc \in InFlight /\ cur' = cur
  PROVE  Backed'
<1> SUFFICES ASSUME NEW i \in Items
             PROVE  (posted[i] + Pending(i) <= Held(i) + lapsed[i] + blurred[i])'
  BY DEF Backed
<1>1. posted[i] + Pending(i) <= Held(i) + lapsed[i] + blurred[i]
  BY DEF Backed
<1>2. posted[i] \in Nat /\ lapsed[i] \in Nat /\ blurred[i] \in Nat
  BY DEF TypeOK
<1> QED
  BY <1>1, <1>2 DEF Pending, Held

LEMMA StepBacked == TypeOK /\ Backed /\ [Next]_vars => Backed'
<1> SUFFICES ASSUME TypeOK, Backed, [Next]_vars
             PROVE  Backed'
  OBVIOUS
<1> USE DEF InFlight
<1>1. CASE Poll \/ NextEntry \/ EndOfBatch \/ Evaluate \/ Pause
  BY <1>1, Calm DEF Poll, NextEntry, EndOfBatch, Evaluate, Pause, redis, discord
<1>2. CASE Persist \/ RecordFailure \/ RecordSuccess
  BY <1>2, Calm DEF Persist, RecordFailure, RecordSuccess, redis, discord
<1>3. CASE Exit \/ Stop \/ Crash \/ Restart
  BY <1>3, Calm DEF Exit, Stop, Crash, Restart, Die, worker, redis, discord
<1>4. ASSUME NEW i \in Items, Appear(i) \/ Vanish(i)
      PROVE  Backed'
  BY <1>4, Calm DEF Appear, Vanish, worker, redis, discord
<1>5. ASSUME NEW c \in late, LateLost(c)
      PROVE  Backed'
  BY <1>5, Calm DEF LateLost, worker, discord
<1>6. CASE UNCHANGED vars
  BY <1>6, Calm DEF vars, worker, redis, discord
<1> DEFINE BackedFor(i) == posted[i] + Pending(i) <= Held(i) + lapsed[i] + blurred[i]
<1>7. \A i \in Items : /\ BackedFor(i)
                       /\ posted[i] \in Nat /\ lapsed[i] \in Nat /\ blurred[i] \in Nat
  BY DEF Backed, TypeOK
<1>8. ASSUME \A i \in Items : BackedFor(i)'
      PROVE  Backed'
  BY <1>8 DEF Backed
<1>9. CASE Claim
  <2> SUFFICES ASSUME NEW i \in Items PROVE BackedFor(i)'
    BY <1>8
  <2>1. UNCHANGED <<posted, lapsed, blurred>> /\ cur' = cur
    BY <1>9 DEF Claim, discord
  <2>2. \/ pc' = "send" /\ cur \notin claims /\ claims' = claims \cup {cur}
        \/ pc' = "next" /\ (claims' = claims \/ claims' = claims \cup {cur})
    BY <1>9 DEF Claim, redis
  <2> QED
    BY <1>7, <1>9, <2>1, <2>2 DEF Claim, Pending, Held
<1>10. CASE Send
  <2> SUFFICES ASSUME NEW i \in Items PROVE BackedFor(i)'
    BY <1>8
  <2>1. pc = "send" /\ cur' = cur /\ claims' = claims /\ lapsed' = lapsed /\ cur \in Items
    BY <1>10 DEF Send, redis, TypeOK, Busy
  <2>2. \/ /\ posted' = Bump(posted, cur)
           /\ pc' \in {"recordSuccess", "pause"}
           /\ UNCHANGED blurred
        \/ /\ pc' \in {"recordFailure", "release"}
           /\ UNCHANGED <<posted, blurred>>
        \/ /\ posted' = Bump(posted, cur)
           /\ pc' \in {"recordFailure", "release"}
           /\ blurred' = Bump(blurred, cur)
    BY <1>10 DEF Send
  <2>3. /\ Bump(posted, cur)[i] = posted[i] + (IF cur = i THEN 1 ELSE 0)
        /\ Bump(blurred, cur)[i] = blurred[i] + (IF cur = i THEN 1 ELSE 0)
    BY <2>1, <1>7, BumpType DEF TypeOK
  <2> QED
    BY <1>7, <2>1, <2>2, <2>3 DEF Pending, Held
<1>11. CASE Release
  <2> SUFFICES ASSUME NEW i \in Items PROVE BackedFor(i)'
    BY <1>8
  <2>1. /\ pc = "release" /\ pc' = "pause" /\ cur' = cur
        /\ UNCHANGED <<posted, lapsed, blurred>>
        /\ claims' = claims \/ claims' = claims \ {cur}
    BY <1>11 DEF Release, redis, discord
  <2> QED
    BY <1>7, <2>1 DEF Pending, Held
<1>12. ASSUME NEW j \in Items, Lapse(j)
       PROVE  Backed'
  <2> SUFFICES ASSUME NEW i \in Items PROVE BackedFor(i)'
    BY <1>8
  <2>1. /\ j \in claims /\ claims' = claims \ {j}
        /\ lapsed' = Bump(lapsed, j)
        /\ UNCHANGED <<pc, cur, posted, blurred>>
    BY <1>12 DEF Lapse, worker
  <2>2. lapsed'[i] = lapsed[i] + (IF j = i THEN 1 ELSE 0)
    BY <2>1, <1>7, BumpType DEF TypeOK
  <2> QED
    BY <1>7, <2>1, <2>2 DEF Pending, Held
<1>13. ASSUME NEW j \in Items, LateSet(j)
       PROVE  Backed'
  <2> SUFFICES ASSUME NEW i \in Items PROVE BackedFor(i)'
    BY <1>8
  <2>1. /\ claims' = claims \cup {j}
        /\ UNCHANGED <<pc, cur, posted, lapsed, blurred>>
    BY <1>13 DEF LateSet, worker, discord
  <2> QED
    BY <1>7, <2>1 DEF Pending, Held
<1>14. ASSUME NEW j \in Items, LateDel(j)
       PROVE  Backed'
  <2> SUFFICES ASSUME NEW i \in Items PROVE BackedFor(i)'
    BY <1>8
  <2>1. /\ claims' = claims \ {j}
        /\ blurred' = IF j \in claims THEN Bump(blurred, j) ELSE blurred
        /\ UNCHANGED <<pc, cur, posted, lapsed>>
    BY <1>14 DEF LateDel, worker
  <2>2. blurred'[i] = blurred[i] + (IF j = i /\ j \in claims THEN 1 ELSE 0)
    BY <2>1, <1>7, BumpType DEF TypeOK
  <2> QED
    BY <1>7, <2>1, <2>2 DEF Pending, Held
<1> QED
  BY <1>1, <1>2, <1>3, <1>4, <1>5, <1>6, <1>9, <1>10, <1>11, <1>12, <1>13, <1>14
  DEF Next, Deliver, Environment

\* Every message, and the one being sent, stands on a claim that is held or
\* on an excuse.
THEOREM AlwaysBacked == Spec => []Backed
  BY InitType, StepType, InitBacked, StepBacked, PTL DEF Spec

LEMMA BackedSuffices == TypeOK /\ Backed => NoUnexplainedDuplicate
<1> SUFFICES ASSUME TypeOK, Backed, NEW i \in Items
             PROVE  posted[i] <= 1 + lapsed[i] + blurred[i]
  BY DEF NoUnexplainedDuplicate
<1>1. posted[i] + Pending(i) <= Held(i) + lapsed[i] + blurred[i]
  BY DEF Backed
<1>2. posted[i] \in Nat /\ lapsed[i] \in Nat /\ blurred[i] \in Nat
  BY DEF TypeOK
<1> QED
  BY <1>1, <1>2 DEF Pending, Held

\* No listing is told more often than once, plus once for each time its
\* claim lapsed or the worker lost sight of its message.
THEOREM NoDuplicate == Spec => []NoUnexplainedDuplicate
  BY TypeCorrect, AlwaysBacked, BackedSuffices, PTL

-----------------------------------------------------------------------------
(* Delivery implements AlertLedger.                                        *)

Excused == [i \in Items |-> lapsed[i] + blurred[i]]

LEMMA LedgerInit == Init => Ledger!Init
  BY DEF Init, Ledger!Init

\* A step that neither sends a message nor loses a claim is a stutter.
LEMMA LedgerStutter ==
  ASSUME UNCHANGED <<posted, lapsed, blurred>>
  PROVE  UNCHANGED Ledger!vars
  BY DEF Ledger!vars

\* One more excuse for i, by a lapse or by a blur, is Excuse(i).
LEMMA LedgerExcuse ==
  ASSUME TypeOK, NEW i \in Items, posted' = posted,
         \/ lapsed' = Bump(lapsed, i) /\ blurred' = blurred
         \/ blurred' = Bump(blurred, i) /\ lapsed' = lapsed
  PROVE  Ledger!Excuse(i)
<1>1. Excused' = [Excused EXCEPT ![i] = @ + 1]
  <2> SUFFICES ASSUME NEW j \in Items
               PROVE  lapsed'[j] + blurred'[j] =
                        IF j = i THEN lapsed[i] + blurred[i] + 1 ELSE lapsed[j] + blurred[j]
    BY DEF Excused
  <2>1. /\ lapsed[j] \in Nat /\ blurred[j] \in Nat /\ lapsed[i] \in Nat /\ blurred[i] \in Nat
        /\ lapsed \in [Items -> Nat] /\ blurred \in [Items -> Nat]
    BY DEF TypeOK
  <2>2. /\ Bump(lapsed, i)[j] = IF j = i THEN lapsed[i] + 1 ELSE lapsed[j]
        /\ Bump(blurred, i)[j] = IF j = i THEN blurred[i] + 1 ELSE blurred[j]
    BY <2>1, BumpType
  <2> QED
    BY <2>1, <2>2
<1> QED
  BY <1>1 DEF Ledger!Excuse, Excused

\* A step of the ledger for one listing is a step of the ledger.
LEMMA LedgerNext ==
  ASSUME NEW i \in Items, Ledger!Tell(i) \/ Ledger!TellUnheard(i) \/ Ledger!Excuse(i)
  PROVE  Ledger!Next
  BY DEF Ledger!Next

LEMMA LedgerStep == TypeOK /\ Backed /\ [Next]_vars => [Ledger!Next]_(Ledger!vars)
<1> SUFFICES ASSUME TypeOK, Backed, [Next]_vars
             PROVE  Ledger!Next \/ UNCHANGED Ledger!vars
  OBVIOUS
<1>1. CASE Poll \/ NextEntry \/ EndOfBatch \/ Evaluate \/ Pause \/ Claim \/ Release
  BY <1>1, LedgerStutter DEF Poll, NextEntry, EndOfBatch, Evaluate, Pause, Claim, Release, discord
<1>2. CASE Persist \/ RecordFailure \/ RecordSuccess \/ Exit \/ Stop \/ Crash \/ Restart
  BY <1>2, LedgerStutter DEF Persist, RecordFailure, RecordSuccess, Exit, Stop, Crash, Restart, discord
<1>3. ASSUME NEW i \in Items, Appear(i) \/ Vanish(i) \/ LateSet(i)
      PROVE  UNCHANGED Ledger!vars
  BY <1>3, LedgerStutter DEF Appear, Vanish, LateSet, discord
<1>4. ASSUME NEW c \in late, LateLost(c)
      PROVE  UNCHANGED Ledger!vars
  BY <1>4, LedgerStutter DEF LateLost, discord
<1>5. CASE UNCHANGED vars
  BY <1>5, LedgerStutter DEF vars, discord
<1>6. CASE Send
  <2>1. pc = "send" /\ cur \in Items /\ lapsed' = lapsed
    BY <1>6 DEF Send, TypeOK, Busy, InFlight
  <2>2. /\ posted[cur] \in Nat /\ lapsed[cur] \in Nat /\ blurred[cur] \in Nat
        /\ posted[cur] + Pending(cur) <= Held(cur) + lapsed[cur] + blurred[cur]
    BY <2>1 DEF Backed, TypeOK
  <2>3. posted[cur] <= Excused[cur]
    BY <2>1, <2>2 DEF Pending, Held, InFlight, Excused
  <2>4. CASE UNCHANGED <<posted, blurred>>
    BY <2>1, <2>4, LedgerStutter
  <2>5. CASE posted' = Bump(posted, cur) /\ UNCHANGED blurred
    <3>1. Excused' = Excused
      BY <2>1, <2>5 DEF Excused
    <3>2. Ledger!Tell(cur)
      BY <2>3, <2>5, <3>1 DEF Ledger!Tell, Bump, Excused
    <3> QED
      BY <2>1, <3>2, LedgerNext
  <2>6. CASE posted' = Bump(posted, cur) /\ blurred' = Bump(blurred, cur)
    <3>1. Excused' = [Excused EXCEPT ![cur] = @ + 1]
      <4> SUFFICES ASSUME NEW j \in Items
                   PROVE  lapsed'[j] + blurred'[j] =
                            IF j = cur THEN lapsed[cur] + blurred[cur] + 1
                                       ELSE lapsed[j] + blurred[j]
        BY <2>1 DEF Excused
      <4>1. lapsed[j] \in Nat /\ blurred[j] \in Nat /\ blurred \in [Items -> Nat]
        BY DEF TypeOK
      <4>2. Bump(blurred, cur)[j] = IF j = cur THEN blurred[cur] + 1 ELSE blurred[j]
        BY <2>1, <4>1, BumpType
      <4> QED
        BY <2>1, <2>2, <2>6, <4>1, <4>2
    <3>2. PICK i \in Items : i = cur
      BY <2>1
    <3>3. Ledger!TellUnheard(i)
      BY <2>3, <2>6, <3>1, <3>2 DEF Ledger!TellUnheard, Bump, Excused
    <3> QED
      BY <3>3, LedgerNext
  <2> QED
    BY <1>6, <2>4, <2>5, <2>6 DEF Send
<1>7. ASSUME NEW i \in Items, Lapse(i)
      PROVE  Ledger!Next
  <2>1. Ledger!Excuse(i)
    BY <1>7, LedgerExcuse DEF Lapse
  <2> QED
    BY <2>1, LedgerNext
<1>8. ASSUME NEW i \in Items, LateDel(i)
      PROVE  Ledger!Next \/ UNCHANGED Ledger!vars
  <2>1. CASE i \in claims
    <3>1. Ledger!Excuse(i)
      BY <1>8, <2>1, LedgerExcuse DEF LateDel
    <3> QED
      BY <3>1, LedgerNext
  <2>2. CASE i \notin claims
    BY <1>8, <2>2, LedgerStutter DEF LateDel
  <2> QED
    BY <2>1, <2>2
<1> QED
  BY <1>1, <1>2, <1>3, <1>4, <1>5, <1>6, <1>7, <1>8 DEF Next, Deliver, Environment

\* The worker implements the abstract promise: one message per listing, and
\* one more only for each excuse.
THEOREM ImplementsLedger == Spec => LedgerSpec
<1>1. Spec => [](TypeOK /\ Backed)
  BY TypeCorrect, AlwaysBacked, PTL
<1> QED
  BY <1>1, LedgerInit, LedgerStep, PTL DEF Spec, LedgerSpec, Ledger!Spec

-----------------------------------------------------------------------------
(* Each failure silences one listing at most.  A cancelled worker that has *)
(* a delivery in flight is doomed to leave its claim behind, so the        *)
(* invariant counts that claim from the SIGTERM on.                        *)

Spent  == faults + stops + crashes
Doomed == IF stopping /\ pc \in InFlight THEN 1 ELSE 0

FiniteInv  == IsFiniteSet(claims) /\ IsFiniteSet(late)
SilenceInv == Cardinality(Silenced) + Cardinality(LateSets) + Doomed <= Spent

LEMMA OneMore ==
  ASSUME NEW S, IsFiniteSet(S), NEW x, NEW T, T \subseteq S \cup {x}
  PROVE  /\ IsFiniteSet(T)
         /\ Cardinality(S) \in Nat
         /\ Cardinality(T) \in Nat
         /\ Cardinality(T) <= Cardinality(S) + 1
<1>1. /\ IsFiniteSet(S \cup {x})
      /\ Cardinality(S) \in Nat
      /\ Cardinality(S \cup {x}) <= Cardinality(S) + 1
  <2>1. /\ IsFiniteSet(S \cup {x})
        /\ Cardinality(S \cup {x}) = IF x \in S THEN Cardinality(S) ELSE Cardinality(S) + 1
    BY FS_AddElement
  <2>2. Cardinality(S) \in Nat
    BY FS_CardinalityType
  <2> QED
    BY <2>1, <2>2
<1>2. IsFiniteSet(T) /\ Cardinality(T) <= Cardinality(S \cup {x})
  BY <1>1, FS_Subset
<1>3. Cardinality(T) \in Nat /\ Cardinality(S \cup {x}) \in Nat
  BY <1>1, <1>2, FS_CardinalityType
<1> QED
  BY <1>1, <1>2, <1>3

LEMMA NoMore ==
  ASSUME NEW S, IsFiniteSet(S), NEW T, T \subseteq S
  PROVE  /\ IsFiniteSet(T)
         /\ Cardinality(S) \in Nat
         /\ Cardinality(T) \in Nat
         /\ Cardinality(T) <= Cardinality(S)
  BY FS_Subset, FS_CardinalityType

LEMMA InitFinite == Init => FiniteInv
  BY FS_EmptySet DEF Init, FiniteInv

LEMMA StepFinite == FiniteInv /\ [Next]_vars => FiniteInv'
<1> SUFFICES ASSUME FiniteInv, [Next]_vars
             PROVE  FiniteInv'
  OBVIOUS
<1>1. ASSUME NEW x, claims' \subseteq claims \cup {x},
             NEW y, late' \subseteq late \cup {y}
      PROVE  FiniteInv'
  BY <1>1, OneMore DEF FiniteInv
<1>2. CASE Poll \/ NextEntry \/ EndOfBatch \/ Persist \/ Evaluate \/ Send \/ Pause \/ Exit
  BY <1>1, <1>2 DEF Poll, NextEntry, EndOfBatch, Persist, Evaluate, Send, Pause, Exit, redis
<1>3. CASE RecordFailure \/ RecordSuccess \/ Stop \/ Crash \/ Restart \/ UNCHANGED vars
  BY <1>1, <1>3 DEF RecordFailure, RecordSuccess, Stop, Crash, Restart, vars, redis
<1>4. CASE Claim
  BY <1>1, <1>4 DEF Claim, redis
<1>5. CASE Release
  BY <1>1, <1>5 DEF Release, redis
<1>6. ASSUME NEW i \in Items,
             Lapse(i) \/ LateSet(i) \/ LateDel(i) \/ Appear(i) \/ Vanish(i)
      PROVE  FiniteInv'
  BY <1>1, <1>6 DEF Lapse, LateSet, LateDel, Appear, Vanish, redis
<1>7. ASSUME NEW c \in late, LateLost(c)
      PROVE  FiniteInv'
  BY <1>1, <1>7 DEF LateLost
<1> QED
  BY <1>2, <1>3, <1>4, <1>5, <1>6, <1>7 DEF Next, Deliver, Environment

LEMMA InitSilence == Init => SilenceInv
<1> SUFFICES ASSUME Init
             PROVE  SilenceInv
  OBVIOUS
<1>1. Silenced = {} /\ LateSets = {}
  BY DEF Init, Silenced, Silent, LateSets
<1>2. Doomed = 0 /\ Spent = 0
  BY DEF Init, Doomed, Spent
<1> QED
  BY <1>1, <1>2, FS_EmptySet DEF SilenceInv

\* Silenced and LateSets are finite, and the counts are numbers.
LEMMA SilenceTypes ==
  ASSUME TypeOK, FiniteInv
  PROVE  /\ IsFiniteSet(Silenced) /\ IsFiniteSet(LateSets)
         /\ Cardinality(Silenced) \in Nat /\ Cardinality(LateSets) \in Nat
         /\ Spent \in Nat /\ Doomed \in {0, 1}
<1>1. Silenced \subseteq claims /\ LateSets \subseteq late
  BY DEF Silenced, Silent, LateSets
<1>2. Spent \in Nat
  BY DEF TypeOK, Spent
<1> QED
  BY <1>1, <1>2, NoMore DEF FiniteInv, Doomed

LEMMA SumNat == \A a, b, c \in Nat : a + b + c \in Nat
  OBVIOUS

LEMMA SilenceTypesNext ==
  ASSUME TypeOK'
  PROVE  Spent' \in Nat /\ Doomed' \in {0, 1}
<1>1. faults' \in Nat /\ stops' \in Nat /\ crashes' \in Nat
  BY DEF TypeOK
<1>2. Spent' \in Nat
  BY <1>1, SumNat DEF Spent
<1>3. Doomed' \in {0, 1}
  BY DEF Doomed
<1> QED
  BY <1>2, <1>3

\* Two sets that lose elements, and their count against what was spent.
LEMMA CountQuiet ==
  ASSUME NEW S, IsFiniteSet(S), NEW S2, S2 \subseteq S,
         NEW T, IsFiniteSet(T), NEW T2, T2 \subseteq T,
         NEW d \in Nat, NEW d2 \in Nat, NEW p \in Nat, NEW p2 \in Nat,
         Cardinality(S) + Cardinality(T) + d <= p,
         d2 + p <= d + p2
  PROVE  Cardinality(S2) + Cardinality(T2) + d2 <= p2
<1>1. /\ Cardinality(S) \in Nat /\ Cardinality(S2) \in Nat
      /\ Cardinality(S2) <= Cardinality(S)
  BY NoMore
<1>2. /\ Cardinality(T) \in Nat /\ Cardinality(T2) \in Nat
      /\ Cardinality(T2) <= Cardinality(T)
  BY NoMore
<1> QED
  BY <1>1, <1>2

\* The same when one of them may gain an element.
LEMMA CountPaid ==
  ASSUME NEW S, IsFiniteSet(S), NEW S2, NEW x, S2 \subseteq S \cup {x},
         NEW T, IsFiniteSet(T), NEW T2, T2 \subseteq T,
         NEW d \in Nat, NEW d2 \in Nat, NEW p \in Nat, NEW p2 \in Nat,
         Cardinality(S) + Cardinality(T) + d <= p,
         d2 + 1 + p <= d + p2
  PROVE  Cardinality(S2) + Cardinality(T2) + d2 <= p2
<1>1. /\ Cardinality(S) \in Nat /\ Cardinality(S2) \in Nat
      /\ Cardinality(S2) <= Cardinality(S) + 1
  BY OneMore
<1>2. /\ Cardinality(T) \in Nat /\ Cardinality(T2) \in Nat
      /\ Cardinality(T2) <= Cardinality(T)
  BY NoMore
<1> QED
  BY <1>1, <1>2

\* A step that silences nothing new.
LEMMA Quiet ==
  ASSUME TypeOK, TypeOK', FiniteInv, SilenceInv,
         Silenced' \subseteq Silenced, LateSets' \subseteq LateSets,
         Doomed' + Spent <= Doomed + Spent'
  PROVE  SilenceInv'
<1>1. IsFiniteSet(Silenced) /\ IsFiniteSet(LateSets) /\ Doomed \in Nat /\ Spent \in Nat
  BY SilenceTypes
<1>2. Doomed' \in Nat /\ Spent' \in Nat
  BY SilenceTypesNext
<1>3. Cardinality(Silenced) + Cardinality(LateSets) + Doomed <= Spent
  BY DEF SilenceInv
<1>4. Cardinality(Silenced') + Cardinality(LateSets') + Doomed' <= Spent'
  BY <1>1, <1>2, <1>3, CountQuiet
<1> QED
  BY <1>4 DEF SilenceInv

\* A step that silences one listing, or leaves one SET under way, and pays
\* for it with a failure or with the doom of the delivery in flight.
LEMMA Paid ==
  ASSUME TypeOK, TypeOK', FiniteInv, SilenceInv, NEW x,
         \/ Silenced' \subseteq Silenced \cup {x} /\ LateSets' \subseteq LateSets
         \/ Silenced' \subseteq Silenced /\ LateSets' \subseteq LateSets \cup {x},
         Doomed' + 1 + Spent <= Doomed + Spent'
  PROVE  SilenceInv'
<1>1. IsFiniteSet(Silenced) /\ IsFiniteSet(LateSets) /\ Doomed \in Nat /\ Spent \in Nat
  BY SilenceTypes
<1>2. Doomed' \in Nat /\ Spent' \in Nat
  BY SilenceTypesNext
<1>3. Cardinality(Silenced) + Cardinality(LateSets) + Doomed <= Spent
  BY DEF SilenceInv
<1>4. CASE Silenced' \subseteq Silenced \cup {x} /\ LateSets' \subseteq LateSets
  <2>1. Cardinality(Silenced') + Cardinality(LateSets') + Doomed' <= Spent'
    BY <1>1, <1>2, <1>3, <1>4, CountPaid
  <2> QED
    BY <2>1 DEF SilenceInv
<1>5. CASE Silenced' \subseteq Silenced /\ LateSets' \subseteq LateSets \cup {x}
  <2>1. Cardinality(Silenced) \in Nat /\ Cardinality(LateSets) \in Nat
    BY SilenceTypes
  <2>2. Cardinality(LateSets) + Cardinality(Silenced) + Doomed <= Spent
    BY <1>1, <1>3, <2>1
  <2>3. Cardinality(LateSets') + Cardinality(Silenced') + Doomed' <= Spent'
    BY <1>1, <1>2, <1>5, <2>2, CountPaid
  <2>4. IsFiniteSet(Silenced') /\ IsFiniteSet(LateSets')
    BY <1>1, <1>5, OneMore, NoMore
  <2>5. Cardinality(Silenced') \in Nat /\ Cardinality(LateSets') \in Nat
    BY <2>4, FS_CardinalityType
  <2> QED
    BY <1>2, <2>3, <2>5 DEF SilenceInv
<1> QED
  BY <1>4, <1>5

\* A step that takes no claim, sends no message and keeps the delivery in
\* flight, if there is one, silences nothing.
LEMMA NothingSilenced ==
  ASSUME claims' \subseteq claims, late' \subseteq late, posted' = posted,
         pc \in InFlight => pc' \in InFlight /\ cur' = cur
  PROVE  Silenced' \subseteq Silenced /\ LateSets' \subseteq LateSets
  BY DEF Silenced, Silent, LateSets

\* A step that silences nothing is covered when it adds no doom that it
\* does not pay for.
LEMMA NoDebt ==
  \A d, d2 \in {0, 1} : \A p, p2 \in Nat :
    (\/ p2 = p /\ (d2 = 0 \/ d2 = d)
     \/ p2 = p + 1)
      => d2 + p <= d + p2
  OBVIOUS

\* What a step may do to the budget.
LEMMA Budgets ==
  ASSUME TypeOK
  PROVE  /\ Answered => Spent' = Spent /\ stopping' = FALSE /\ stopping = FALSE
         /\ Fault => Spent' = Spent + 1 /\ stopping' = FALSE /\ stopping = FALSE
         /\ Cancel => Spent' = Spent + 1 /\ stopping = FALSE
         /\ UNCHANGED budget => Spent' = Spent /\ stopping' = stopping
<1>1. faults \in Nat /\ stops \in Nat /\ crashes \in Nat /\ stopping \in BOOLEAN
  BY DEF TypeOK
<1>2. UNCHANGED budget => Spent' = Spent /\ stopping' = stopping
  BY DEF budget, Spent
<1>3. Answered => Spent' = Spent /\ stopping' = FALSE /\ stopping = FALSE
  BY <1>1, <1>2 DEF Answered
<1>4. Fault => Spent' = Spent + 1 /\ stopping' = FALSE /\ stopping = FALSE
  <2>1. Fault => faults' = faults + 1 /\ stops' = stops /\ crashes' = crashes
    BY DEF Fault
  <2>2. Fault => stopping' = FALSE /\ stopping = FALSE
    BY <1>1 DEF Fault
  <2> QED
    BY <1>1, <2>1, <2>2 DEF Spent
<1>5. Cancel => Spent' = Spent + 1 /\ stopping = FALSE
  <2>1. Cancel => faults' = faults /\ stops' = stops + 1 /\ crashes' = crashes
    BY DEF Cancel
  <2>2. Cancel => stopping = FALSE
    BY <1>1 DEF Cancel
  <2> QED
    BY <1>1, <2>1, <2>2 DEF Spent
<1> QED
  BY <1>2, <1>3, <1>4, <1>5

LEMMA StepSilence ==
  TypeOK /\ TypeOK' /\ FiniteInv /\ SilenceInv /\ [Next]_vars => SilenceInv'
<1> SUFFICES ASSUME TypeOK, TypeOK', FiniteInv, SilenceInv, [Next]_vars
             PROVE  SilenceInv'
  OBVIOUS
<1>1. Spent \in Nat /\ Doomed \in {0, 1} /\ Doomed' \in {0, 1} /\ Spent' \in Nat
  BY SilenceTypes, SilenceTypesNext
<1>2. /\ pc' \notin InFlight => Doomed' = 0
      /\ stopping' = FALSE => Doomed' = 0
      /\ stopping = FALSE => Doomed = 0
      /\ stopping /\ pc \in InFlight => Doomed = 1
  BY DEF Doomed
<1>3. CASE Poll \/ NextEntry \/ EndOfBatch \/ Evaluate \/ Pause \/ Persist \/ Exit \/ RecordSuccess
  <2>1. pc \notin InFlight /\ pc' \notin InFlight /\ Doomed' = 0
    BY <1>2, <1>3 DEF Poll, NextEntry, EndOfBatch, Evaluate, Pause, Persist, Exit, Die,
                      RecordSuccess, InFlight
  <2>2. Silenced' \subseteq Silenced /\ LateSets' \subseteq LateSets
    BY <1>3, <2>1, NothingSilenced
    DEF Poll, NextEntry, EndOfBatch, Evaluate, Pause, Persist, Exit, RecordSuccess, redis, discord
  <2>3. Spent' = Spent \/ Spent' = Spent + 1
    BY <1>3, Budgets
    DEF Poll, NextEntry, EndOfBatch, Evaluate, Pause, Persist, Exit, RecordSuccess, NoEffect, Unanswered
  <2>4. Doomed' + Spent <= Doomed + Spent'
    BY <1>1, <2>1, <2>3, NoDebt
  <2> QED
    BY <2>2, <2>4, Quiet
<1>4. CASE Claim
  <2>1. pc = "claim" /\ cur' = cur /\ posted' = posted
    BY <1>4 DEF Claim, discord
  <2>2. CASE Answered /\ cur \notin claims /\ claims' = claims \cup {cur} /\ pc' = "send" /\ late' = late
    <3>1. Silenced' \subseteq Silenced /\ LateSets' \subseteq LateSets
      BY <2>1, <2>2 DEF Silenced, Silent, LateSets, InFlight
    <3> QED
      BY <1>1, <1>2, <2>2, <3>1, Budgets, Quiet
  <2>3. CASE (Answered \/ NoEffect) /\ pc' = "next" /\ claims' = claims /\ late' = late
    <3>1. Silenced' \subseteq Silenced /\ LateSets' \subseteq LateSets
      BY <2>1, <2>3, NothingSilenced DEF InFlight
    <3>2. Spent' = Spent \/ Spent' = Spent + 1
      BY <2>3, Budgets DEF NoEffect
    <3>3. Doomed' = 0
      BY <1>2, <2>3 DEF InFlight
    <3>4. Doomed' + Spent <= Doomed + Spent'
      BY <1>1, <3>2, <3>3, NoDebt
    <3> QED
      BY <3>1, <3>4, Quiet
  <2>4. CASE Fault /\ claims' = claims \cup {cur} /\ pc' = "next" /\ late' = late
    <3>1. Silenced' \subseteq Silenced \cup {cur} /\ LateSets' \subseteq LateSets
      BY <2>1, <2>4 DEF Silenced, Silent, LateSets, InFlight
    <3> QED
      BY <1>1, <1>2, <2>4, <3>1, Budgets, Paid
  <2>5. CASE Fault /\ claims' = claims /\ pc' = "next" /\ late' = late \cup {<<"SET", cur>>}
    <3>1. Silenced' \subseteq Silenced /\ LateSets' \subseteq LateSets \cup {<<"SET", cur>>}
      BY <2>1, <2>5 DEF Silenced, Silent, LateSets, InFlight
    <3> QED
      BY <1>1, <1>2, <2>5, <3>1, Budgets, Paid
  <2> QED
    BY <1>4, <2>2, <2>3, <2>4, <2>5 DEF Claim, redis
<1>5. CASE Send
  <2>1. /\ pc = "send" /\ cur' = cur /\ claims' = claims /\ late' = late
        /\ cur \in Items /\ posted \in [Items -> Nat]
    BY <1>5 DEF Send, redis, TypeOK, Busy, InFlight
  <2>2. CASE /\ posted' = Bump(posted, cur)
             /\ \/ Answered /\ pc' \in {"recordSuccess", "pause"}
                \/ Unanswered
    <3>1. posted'[cur] # 0
      <4>1. posted'[cur] = posted[cur] + 1 /\ posted[cur] \in Nat
        BY <2>1, <2>2, BumpType
      <4> QED
        BY <4>1
    <3>2. \A i \in Items : i # cur => posted'[i] = posted[i]
      BY <2>1, <2>2, BumpType
    <3>3. Silenced' \subseteq Silenced
      <4> SUFFICES ASSUME NEW i \in Items, Silent(i)'
                   PROVE  Silent(i)
        BY DEF Silenced
      <4>1. i # cur
        BY <3>1 DEF Silent
      <4> QED
        BY <2>1, <3>2, <4>1 DEF Silent
    <3>4. LateSets' \subseteq LateSets
      BY <2>1 DEF LateSets
    <3>5. \/ Spent' = Spent /\ Doomed' = 0
          \/ Spent' = Spent + 1
      BY <1>2, <2>2, Budgets DEF Unanswered, InFlight
    <3>6. Doomed' + Spent <= Doomed + Spent'
      BY <1>1, <3>5, NoDebt
    <3> QED
      BY <3>3, <3>4, <3>6, Quiet
  <2>3. CASE posted' = posted /\ (NoEffect \/ Answered) /\ pc' \in {"recordFailure", "release"}
    <3>1. Silenced' \subseteq Silenced /\ LateSets' \subseteq LateSets
      BY <2>1, <2>3, NothingSilenced DEF InFlight
    <3>2. stopping' = stopping /\ (Spent' = Spent \/ Spent' = Spent + 1)
      BY <2>3, Budgets DEF NoEffect
    <3>3. Doomed' = Doomed
      BY <2>1, <2>3, <3>2 DEF Doomed, InFlight
    <3>4. Doomed' + Spent <= Doomed + Spent'
      BY <1>1, <3>2, <3>3, NoDebt
    <3> QED
      BY <3>1, <3>4, Quiet
  <2> QED
    BY <1>5, <2>2, <2>3 DEF Send
<1>6. CASE RecordFailure
  <2>1. pc = "recordFailure" /\ pc' = "release" /\ cur' = cur
    BY <1>6 DEF RecordFailure
  <2>2. Silenced' \subseteq Silenced /\ LateSets' \subseteq LateSets
    BY <1>6, <2>1, NothingSilenced DEF RecordFailure, redis, discord, InFlight
  <2>3. stopping' = stopping /\ (Spent' = Spent \/ Spent' = Spent + 1)
    BY <1>6, Budgets DEF RecordFailure, NoEffect
  <2>4. Doomed' = Doomed
    BY <2>1, <2>3 DEF Doomed, InFlight
  <2>5. Doomed' + Spent <= Doomed + Spent'
    BY <1>1, <2>3, <2>4, NoDebt
  <2> QED
    BY <2>2, <2>5, Quiet
<1>7. CASE Release
  <2>1. pc = "release" /\ pc' = "pause" /\ cur' = cur /\ posted' = posted /\ Doomed' = 0
    BY <1>2, <1>7 DEF Release, discord, InFlight
  <2>2. CASE Answered /\ claims' = claims \ {cur} /\ late' = late
    <3>1. Silenced' \subseteq Silenced /\ LateSets' \subseteq LateSets
      BY <2>1, <2>2 DEF Silenced, Silent, LateSets, InFlight
    <3>2. Doomed' + Spent <= Doomed + Spent'
      BY <1>1, <2>1, <2>2, Budgets, NoDebt
    <3> QED
      BY <3>1, <3>2, Quiet
  <2>3. CASE (NoEffect \/ Fault) /\ claims' = claims /\ late' \subseteq late \cup {<<"DEL", cur>>}
    <3>1. Silenced' \subseteq Silenced \cup {cur} /\ LateSets' \subseteq LateSets
      BY <2>1, <2>3 DEF Silenced, Silent, LateSets, InFlight
    <3>2. \/ Spent' = Spent + 1
          \/ Spent' = Spent /\ Doomed = 1
      BY <1>2, <2>1, <2>3, Budgets DEF NoEffect, InFlight
    <3>3. Doomed' + 1 + Spent <= Doomed + Spent'
      <4>1. \A d \in {0, 1} : \A p \in Nat :
              /\ 0 + 1 + p <= d + (p + 1)
              /\ d = 1 => 0 + 1 + p <= d + p
        OBVIOUS
      <4> QED
        BY <1>1, <2>1, <3>2, <4>1
    <3> QED
      BY <3>1, <3>3, Paid
  <2> QED
    BY <1>7, <2>2, <2>3 DEF Release, redis
<1>8. CASE Stop
  <2>1. Spent' = Spent + 1 /\ Doomed = 0
    BY <1>2, <1>8, Budgets DEF Stop
  <2>2. Silenced' \subseteq Silenced /\ LateSets' \subseteq LateSets
    BY <1>8, NothingSilenced DEF Stop, worker, redis, discord
  <2>3. Doomed' + Spent <= Doomed + Spent'
    BY <1>1, <2>1, NoDebt
  <2> QED
    BY <2>2, <2>3, Quiet
<1>9. CASE Crash
  <2>1. pc' = "down" /\ claims' = claims /\ late' = late /\ posted' = posted
    BY <1>9 DEF Crash, Die, redis, discord
  <2>2. Silenced' \subseteq Silenced \cup {cur} /\ LateSets' \subseteq LateSets
    BY <2>1 DEF Silenced, Silent, LateSets, InFlight
  <2>3. Spent' = Spent + 1
    BY <1>9 DEF Crash, Spent, TypeOK
  <2>4. Doomed' + 1 + Spent <= Doomed + Spent'
    BY <1>1, <1>2, <2>1, <2>3 DEF InFlight
  <2> QED
    BY <2>2, <2>4, Paid
<1>10. CASE Restart
  <2>1. pc = "down" /\ pc' = "idle" /\ Spent' = Spent /\ Doomed' = 0
    BY <1>2, <1>10 DEF Restart, Spent, InFlight
  <2>2. Silenced' \subseteq Silenced /\ LateSets' \subseteq LateSets
    BY <1>10, <2>1, NothingSilenced DEF Restart, redis, discord, InFlight
  <2>3. Doomed' + Spent <= Doomed + Spent'
    BY <1>1, <2>1, NoDebt
  <2> QED
    BY <2>2, <2>3, Quiet
<1>11. ASSUME UNCHANGED <<pc, cur, budget>>
       PROVE  Doomed' + Spent <= Doomed + Spent'
  <2>1. Spent' = Spent /\ Doomed' = Doomed
    BY <1>11 DEF Spent, Doomed, budget
  <2> QED
    BY <1>1, <2>1, NoDebt
<1>12. ASSUME NEW i \in Items, Lapse(i) \/ LateDel(i) \/ Appear(i) \/ Vanish(i)
       PROVE  SilenceInv'
  <2>1. UNCHANGED <<pc, cur, budget>>
    BY <1>12 DEF Lapse, LateDel, Appear, Vanish, worker
  <2>2. claims' \subseteq claims /\ late' \subseteq late /\ posted' = posted
    BY <1>12 DEF Lapse, LateDel, Appear, Vanish, redis, discord
  <2>3. Silenced' \subseteq Silenced /\ LateSets' \subseteq LateSets
    BY <2>1, <2>2, NothingSilenced
  <2> QED
    BY <1>11, <2>1, <2>3, Quiet
<1>13. ASSUME NEW c \in late, LateLost(c)
       PROVE  SilenceInv'
  <2>1. UNCHANGED <<pc, cur, budget>>
    BY <1>13 DEF LateLost, worker
  <2>2. claims' \subseteq claims /\ late' \subseteq late /\ posted' = posted
    BY <1>13 DEF LateLost, discord
  <2>3. Silenced' \subseteq Silenced /\ LateSets' \subseteq LateSets
    BY <2>1, <2>2, NothingSilenced
  <2> QED
    BY <1>11, <2>1, <2>3, Quiet
<1>14. CASE UNCHANGED vars
  <2>1. UNCHANGED <<pc, cur, budget>>
    BY <1>14 DEF vars, worker
  <2>2. Silenced' \subseteq Silenced /\ LateSets' \subseteq LateSets
    BY <1>14, <2>1, NothingSilenced DEF vars, redis, discord
  <2> QED
    BY <1>11, <2>1, <2>2, Quiet
<1>15. ASSUME NEW i \in Items, LateSet(i)
       PROVE  SilenceInv'
  <2>1. /\ <<"SET", i>> \in late /\ late' = late \ {<<"SET", i>>}
        /\ claims' = claims \cup {i}
        /\ UNCHANGED <<pc, cur, posted, budget>>
    BY <1>15 DEF LateSet, worker, discord
  <2>2. /\ Silenced' \subseteq Silenced \cup {i}
        /\ <<"SET", i>> \in LateSets
        /\ LateSets' \subseteq LateSets \ {<<"SET", i>>}
    BY <2>1 DEF Silenced, Silent, LateSets
  <2>3. Doomed' = Doomed /\ Spent' = Spent
    BY <2>1 DEF Doomed, Spent, budget
  <2>4. IsFiniteSet(Silenced) /\ IsFiniteSet(LateSets)
    BY SilenceTypes
  <2>5. /\ Cardinality(Silenced') \in Nat /\ Cardinality(Silenced) \in Nat
        /\ Cardinality(Silenced') <= Cardinality(Silenced) + 1
    BY <2>2, <2>4, OneMore
  <2>6. /\ Cardinality(LateSets') \in Nat /\ Cardinality(LateSets) \in Nat
        /\ Cardinality(LateSets') <= Cardinality(LateSets) - 1
    <3>1. /\ IsFiniteSet(LateSets \ {<<"SET", i>>})
          /\ Cardinality(LateSets \ {<<"SET", i>>}) = Cardinality(LateSets) - 1
      BY <2>2, <2>4, FS_RemoveElement
    <3> QED
      BY <2>2, <2>4, <3>1, NoMore, FS_CardinalityType
  <2>7. Cardinality(Silenced) + Cardinality(LateSets) + Doomed <= Spent
    BY DEF SilenceInv
  <2>8. Cardinality(Silenced') + Cardinality(LateSets') + Doomed <= Spent
    BY <1>1, <2>5, <2>6, <2>7
  <2> QED
    BY <2>3, <2>8 DEF SilenceInv
<1> QED
  BY <1>3, <1>4, <1>5, <1>6, <1>7, <1>8, <1>9, <1>10, <1>12, <1>13, <1>14, <1>15
  DEF Next, Deliver, Environment

LEMMA SilenceSuffices == TypeOK /\ FiniteInv /\ SilenceInv => SilenceAccounted
  BY SilenceTypes DEF SilenceInv, SilenceAccounted, Spent

\* The listings silenced by abandoned claims never outnumber the failures,
\* stops and crashes.
THEOREM SilenceIsAccounted == Spec => []SilenceAccounted
<1>1. Spec => [](FiniteInv /\ SilenceInv)
  <2>1. Init => FiniteInv /\ SilenceInv
    BY InitFinite, InitSilence
  <2>2. TypeOK /\ TypeOK' /\ (FiniteInv /\ SilenceInv) /\ [Next]_vars
          => (FiniteInv /\ SilenceInv)'
    BY StepFinite, StepSilence
  <2> QED
    BY <2>1, <2>2, TypeCorrect, PTL DEF Spec
<1> QED
  BY <1>1, TypeCorrect, SilenceSuffices, PTL

-----------------------------------------------------------------------------
(* The audit table overstates nothing.                                     *)

\* A success row still to be written stands for a message already accepted,
\* and a listing ID in hand for a persisted listing.
AuditInv ==
  /\ AuditHonest
  /\ pc = "recordSuccess" => successes[cur] < posted[cur]
  /\ pc \in Busy /\ listingID => cur \in listings
  /\ pc \in {"recordFailure", "recordSuccess"} => listingID

LEMMA InitAudit == Init => AuditInv
  BY DEF Init, AuditInv, AuditHonest, Busy, InFlight

\* A step that writes nothing, sends nothing and enters no recording.
LEMMA AuditCalm ==
  ASSUME AuditInv,
         UNCHANGED <<successes, posted, failures, listings>>,
         pc' \in Busy => pc \in Busy /\ cur' = cur /\ listingID' = listingID,
         pc' \notin {"recordFailure", "recordSuccess"}
  PROVE  AuditInv'
  BY DEF AuditInv, AuditHonest

LEMMA StepAudit == TypeOK /\ AuditInv /\ [Next]_vars => AuditInv'
<1> SUFFICES ASSUME TypeOK, AuditInv, [Next]_vars
             PROVE  AuditInv'
  OBVIOUS
<1>1. CASE Poll \/ EndOfBatch \/ Evaluate \/ Claim \/ Release \/ Pause
  BY <1>1, AuditCalm
  DEF Poll, EndOfBatch, Evaluate, Claim, Release, Pause, db, discord, Busy, InFlight
<1>2. CASE Exit \/ Crash \/ Restart
  BY <1>2, AuditCalm DEF Exit, Crash, Restart, Die, db, discord, Busy, InFlight
<1>3. CASE NextEntry
  <2>1. /\ pc' \in {"persist", "evaluate"} /\ listingID' = FALSE
        /\ UNCHANGED <<successes, posted, failures, listings>>
    BY <1>3 DEF NextEntry, db, discord
  <2> QED
    BY <2>1 DEF AuditInv, AuditHonest
<1>4. CASE Persist
  <2>1. /\ pc' = "evaluate" /\ cur' = cur /\ cur \in Items
        /\ UNCHANGED <<successes, posted, failures>>
        /\ listings \subseteq listings'
        /\ pc \in Busy
    BY <1>4 DEF Persist, discord, TypeOK, Busy
  <2>2. (listingID' = TRUE /\ cur \in listings') \/ listingID' = listingID
    BY <1>4 DEF Persist
  <2> QED
    BY <2>1, <2>2 DEF AuditInv, AuditHonest
<1>5. CASE Send
  <2>1. /\ pc = "send" /\ cur' = cur /\ listingID' = listingID /\ cur \in Items
        /\ UNCHANGED <<successes, failures, listings>>
    BY <1>5 DEF Send, db, TypeOK, Busy, InFlight
  <2>2. \A i \in Items : successes[i] \in Nat /\ posted[i] \in Nat /\ successes[i] <= posted[i]
    BY DEF AuditInv, AuditHonest, TypeOK
  <2>3. \A i \in Items : successes[i] <= posted'[i]
    <3>1. CASE posted' = posted
      BY <2>2, <3>1
    <3>2. CASE posted' = Bump(posted, cur)
      <4>1. \A i \in Items : posted'[i] = posted[i] + 1 \/ posted'[i] = posted[i]
        BY <2>1, <3>2, BumpType DEF TypeOK
      <4> QED
        BY <2>2, <4>1
    <3> QED
      BY <1>5, <3>1, <3>2 DEF Send
  <2>4. pc' = "recordSuccess" => successes[cur] < posted'[cur]
    <3> SUFFICES ASSUME pc' = "recordSuccess"
                 PROVE  successes[cur] < posted'[cur]
      OBVIOUS
    <3>1. posted' = Bump(posted, cur)
      BY <1>5 DEF Send
    <3>2. posted'[cur] = posted[cur] + 1
      BY <2>1, <3>1, BumpType DEF TypeOK
    <3> QED
      BY <2>1, <2>2, <3>2
  <2>5. pc' \in {"recordFailure", "recordSuccess"} => listingID
    BY <1>5 DEF Send
  <2>6. listingID => cur \in listings
    BY <2>1 DEF AuditInv, Busy, InFlight
  <2>7. AuditHonest'
    BY <2>1, <2>3 DEF AuditHonest, AuditInv
  <2> QED
    BY <2>1, <2>4, <2>5, <2>6, <2>7 DEF AuditInv
<1>6. CASE RecordFailure
  <2>1. /\ pc = "recordFailure" /\ pc' = "release" /\ cur' = cur /\ listingID' = listingID
        /\ failures' \subseteq failures \cup {cur}
        /\ UNCHANGED <<successes, posted, listings>>
    BY <1>6 DEF RecordFailure, discord
  <2>2. cur \in listings
    BY <2>1 DEF AuditInv, Busy, InFlight
  <2> QED
    BY <2>1, <2>2 DEF AuditInv, AuditHonest
<1>7. CASE RecordSuccess
  <2>1. /\ pc = "recordSuccess" /\ pc' = "pause" /\ cur' = cur /\ listingID' = listingID
        /\ successes' = Bump(successes, cur) \/ successes' = successes
        /\ UNCHANGED <<posted, failures, listings>>
        /\ cur \in Items
    BY <1>7 DEF RecordSuccess, discord, TypeOK, Busy, InFlight
  <2>2. cur \in listings /\ successes[cur] < posted[cur]
    BY <2>1 DEF AuditInv, Busy, InFlight
  <2>3. \A i \in Items : /\ successes[i] \in Nat /\ posted[i] \in Nat
                         /\ successes[i] <= posted[i]
    BY DEF AuditInv, AuditHonest, TypeOK
  <2>4. \A i \in Items : /\ successes'[i] <= posted[i]
                         /\ i # cur => successes'[i] = successes[i]
    <3>1. CASE successes' = successes
      BY <2>3, <3>1
    <3>2. CASE successes' = Bump(successes, cur)
      <4>1. /\ successes'[cur] = successes[cur] + 1
            /\ \A i \in Items : i # cur => successes'[i] = successes[i]
        BY <2>1, <3>2, BumpType DEF TypeOK
      <4>2. successes'[cur] <= posted[cur]
        BY <2>1, <2>2, <2>3, <4>1
      <4> QED
        BY <2>3, <4>1, <4>2
    <3> QED
      BY <2>1, <3>1, <3>2
  <2>5. AuditHonest'
    BY <2>1, <2>2, <2>4 DEF AuditHonest, AuditInv
  <2> QED
    BY <2>1, <2>2, <2>5 DEF AuditInv
<1>8. ASSUME UNCHANGED <<pc, cur, listingID, successes, posted, failures, listings>>
      PROVE  AuditInv'
  BY <1>8 DEF AuditInv, AuditHonest
<1>9. CASE Stop \/ UNCHANGED vars
  BY <1>8, <1>9 DEF Stop, vars, worker, db, discord
<1>10. ASSUME NEW i \in Items,
              Lapse(i) \/ LateSet(i) \/ LateDel(i) \/ Appear(i) \/ Vanish(i)
       PROVE  AuditInv'
  BY <1>8, <1>10 DEF Lapse, LateSet, LateDel, Appear, Vanish, worker, db, discord
<1>11. ASSUME NEW c \in late, LateLost(c)
       PROVE  AuditInv'
  BY <1>8, <1>11 DEF LateLost, worker, db, discord
<1> QED
  BY <1>1, <1>2, <1>3, <1>4, <1>5, <1>6, <1>7, <1>9, <1>10, <1>11
  DEF Next, Deliver, Environment

\* No success row without a message Discord accepted, and no row without a
\* persisted listing.
THEOREM AuditIsHonest == Spec => []AuditHonest
<1>1. TypeOK /\ AuditInv /\ [Next]_vars => AuditInv'
  BY StepAudit
<1>2. AuditInv => AuditHonest
  BY DEF AuditInv
<1> QED
  BY <1>1, <1>2, InitAudit, TypeCorrect, PTL DEF Spec

=============================================================================
