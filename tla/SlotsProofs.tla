----------------------------- MODULE SlotsProofs -----------------------------
(***************************************************************************)
(* Proofs about the slots of a key, for every number of requests and every *)
(* limit.  RequestLifecycle: they are taken and given back once, and what  *)
(* a release on a pool thread overwrites is all that they are miscounted   *)
(* by.  RedisSlots: what the shared and the local counters say of them,    *)
(* for any number of workers, failed calls and crashes.                    *)
(***************************************************************************)
EXTENDS RequestLifecycle, RedisSlots, FiniteSetTheorems, TLAPS

-----------------------------------------------------------------------------
(* Types.                                                                  *)

\* The clamp at zero does nothing to a count that is not zero.
LEMMA DecType == \A n \in Nat : /\ Dec(n) \in Nat
                                /\ n > 0 => Dec(n) = n - 1
                                /\ n = 0 => Dec(n) = 0
BY DEF Dec

\* Counting one more call keeps a counter typed.
LEMMA BumpType ==
  ASSUME NEW f \in [Req -> Nat], NEW r \in Req
  PROVE  [f EXCEPT ![r] = @ + 1] \in [Req -> Nat]
OBVIOUS

\* Closing a tracker keeps the trackers typed.
LEMMA CloseType ==
  ASSUME TypeOK, NEW r \in Req
  PROVE  [tracker EXCEPT ![r] = "finished"] \in [Req -> {"none", "open", "finished"}]
BY DEF TypeOK

\* The limiter's part of the state.
SlotsTyped ==
  /\ count \in Nat
  /\ flag \in [Req -> BOOLEAN]
  /\ op \in [Req -> {"none", "taking", "giving"}]
  /\ seen \in [Req -> Nat]
  /\ missed \in [Req -> Nat]
  /\ lost \in Nat

\* A read of the limiter keeps it typed.
LEMMA ReadsType ==
  ASSUME TypeOK, NEW r \in Req, NEW what \in {"taking", "giving"}, Reads(r, what)
  PROVE  /\ count' \in Nat
         /\ op' \in [Req -> {"none", "taking", "giving"}]
         /\ seen' \in [Req -> Nat]
         /\ missed' \in [Req -> Nat]
         /\ lost' \in Nat
BY DEF TypeOK, Reads

\* So does a write.
LEMMA WritesType ==
  ASSUME TypeOK, NEW r \in Req, NEW n \in Nat, Writes(r, n)
  PROVE  /\ count' \in Nat
         /\ op' \in [Req -> {"none", "taking", "giving"}]
         /\ seen' \in [Req -> Nat]
         /\ missed' \in [Req -> Nat]
         /\ lost' \in Nat
BY DEF TypeOK, Writes

\* Giving the slot back keeps the limiter typed.
LEMMA ReleaseType ==
  ASSUME TypeOK, NEW r \in Req, Release(r) \/ UNCHANGED slotVars
  PROVE  SlotsTyped'
<1>1. CASE UNCHANGED slotVars
  BY <1>1 DEF TypeOK, slotVars, opVars, SlotsTyped
<1>2. CASE Release(r) /\ flag[r]
  <2>1. Reads(r, "giving") /\ flag' = [flag EXCEPT ![r] = FALSE]
    BY <1>2 DEF Release
  <2>2. flag' \in [Req -> BOOLEAN]
    BY <2>1 DEF TypeOK
  <2> QED
    BY <2>1, <2>2, ReadsType DEF SlotsTyped
<1> QED
  BY <1>1, <1>2 DEF Release

\* So do the callback and the error handlers.
LEMMA ReleasesType ==
  ASSUME TypeOK, NEW r \in Req, ReleaseOnError(r) \/ ReleaseOnComplete(r)
  PROVE  SlotsTyped'
BY ReleaseType DEF ReleaseOnError, ReleaseOnComplete

\* The accounting at the end of a body keeps what it writes typed.
LEMMA FinalizeType ==
  ASSUME TypeOK, NEW r \in Req, Finalize(r)
  PROVE  /\ SlotsTyped'
         /\ finalized' \in [Req -> BOOLEAN]
         /\ metrics' \in [Req -> Nat]
         /\ completes' \in [Req -> Nat]
         /\ tracker' \in [Req -> {"none", "open", "finished"}]
<1>1. SlotsTyped'
  BY ReleasesType DEF Finalize
<1>2. metrics \in [Req -> Nat] /\ completes \in [Req -> Nat]
      /\ finalized \in [Req -> BOOLEAN]
  BY DEF TypeOK
<1>3. /\ finalized' = [finalized EXCEPT ![r] = TRUE]
      /\ metrics' = [metrics EXCEPT ![r] = @ + 1]
      /\ tracker' = [tracker EXCEPT ![r] = "finished"]
      /\ completes' = [completes EXCEPT ![r] = @ + 1]
  BY DEF Finalize
<1>4. finalized' \in [Req -> BOOLEAN]
  BY <1>2, <1>3
<1> QED
  BY <1>1, <1>2, <1>3, <1>4, BumpType, CloseType

\* Every step of a handler keeps the state well typed.
LEMMA HandlerType ==
  ASSUME TypeOK, NEW r \in Req, HandlerStep(r)
  PROVE  TypeOK'
<1> USE DEF Phase, Go, slotVars, opVars, bookVars, SlotsTyped
<1>1. CASE Reply(r)
  <2>1. SlotsTyped'
    BY <1>1, ReleaseType DEF Reply
  <2> QED
    BY <1>1, <2>1 DEF Reply, TypeOK
<1>2. CASE HandlerFails(r)
  <2>1. SlotsTyped'
    BY <1>2, ReleaseType DEF HandlerFails
  <2> QED
    BY <1>2, <2>1 DEF HandlerFails, TypeOK
<1>3. CASE Dispatch(r)
  BY <1>3 DEF Dispatch, TypeOK
<1>4. ASSUME FailDispatched(r)
      PROVE  /\ SlotsTyped'
             /\ metrics' \in [Req -> Nat]
             /\ tracker' \in [Req -> {"none", "open", "finished"}]
             /\ phase' \in [Req -> Phase]
  <2>1. SlotsTyped'
    BY <1>4, ReleasesType DEF FailDispatched
  <2>2. phase' \in [Req -> Phase]
    BY <1>4 DEF FailDispatched, TypeOK
  <2>3. metrics \in [Req -> Nat]
        /\ tracker \in [Req -> {"none", "open", "finished"}]
    BY DEF TypeOK
  <2>4. CASE tracker[r] = "open"
    BY <1>4, <2>1, <2>2, <2>3, <2>4, BumpType, CloseType DEF FailDispatched
  <2>5. CASE tracker[r] # "open"
    BY <1>4, <2>1, <2>2, <2>3, <2>5 DEF FailDispatched
  <2> QED
    BY <2>4, <2>5
<1>5. CASE UpstreamRefuses(r)
  BY <1>4, <1>5 DEF UpstreamRefuses, TypeOK
<1>6. CASE UpstreamAnswers(r)
  BY <1>6 DEF UpstreamAnswers, TypeOK
<1>7. CASE AnswerFails(r)
  BY <1>4, <1>7 DEF AnswerFails, TypeOK
<1>8. CASE Buffered(r)
  <2>1. SlotsTyped'
    BY <1>8, ReleasesType DEF Buffered
  <2>2. metrics \in [Req -> Nat] /\ completes \in [Req -> Nat]
    BY DEF TypeOK
  <2>3. metrics' \in [Req -> Nat] /\ completes' \in [Req -> Nat]
    BY <1>8, <2>2, BumpType DEF Buffered
  <2>4. tracker' \in [Req -> {"none", "open", "finished"}]
    BY <1>8, CloseType DEF Buffered
  <2> QED
    BY <1>8, <2>1, <2>3, <2>4 DEF Buffered, TypeOK
<1>9. CASE Settle(r)
  BY <1>9 DEF Settle, TypeOK
<1>10. CASE Respond(r)
  BY <1>10 DEF Respond, TypeOK
<1> QED
  BY <1>1, <1>2, <1>3, <1>5, <1>6, <1>7, <1>8, <1>9, <1>10 DEF HandlerStep

\* Every step of a body keeps the state well typed.
LEMMA BodyType ==
  ASSUME TypeOK, NEW r \in Req, BodyStep(r)
  PROVE  TypeOK'
<1> USE DEF Phase, Go, slotVars, opVars, bookVars, SlotsTyped
<1>1. CASE StartBody(r)
  BY <1>1 DEF StartBody, TypeOK
<1>2. CASE EndTelemetry(r)
  BY <1>2, FinalizeType DEF EndTelemetry, TypeOK
<1>3. CASE EndSpeech(r)
  BY <1>3 DEF EndSpeech, EndBody, TypeOK
<1>4. CASE LeaveAtYield(r)
  BY <1>4 DEF LeaveAtYield, TypeOK
<1>5. CASE LeaveEarly(r)
  BY <1>5 DEF LeaveEarly, TypeOK
<1>6. CASE BodyFails(r)
  <2>1. CASE kind[r] = "speech"
    BY <1>6, <2>1 DEF BodyFails, TypeOK
  <2>2. CASE kind[r] # "speech"
    <3>1. metrics \in [Req -> Nat]
      BY DEF TypeOK
    <3>2. metrics' \in [Req -> Nat]
          /\ tracker' \in [Req -> {"none", "open", "finished"}]
      BY <1>6, <2>2, <3>1, BumpType, CloseType DEF BodyFails
    <3> QED
      BY <1>6, <2>2, <3>2 DEF BodyFails, TypeOK
  <2> QED
    BY <2>1, <2>2
<1>7. CASE CommitSpend(r)
  BY <1>7 DEF CommitSpend, EndBody, TypeOK
<1>8. CASE CutSpending(r)
  <2>1. CASE finalized[r]
    BY <1>8, <2>1 DEF CutSpending, EndBody, TypeOK
  <2>2. CASE ~finalized[r]
    BY <1>8, <2>2, FinalizeType DEF CutSpending, EndBody, TypeOK
  <2> QED
    BY <2>1, <2>2
<1>9. CASE Collect(r)
  <2>1. CASE kind[r] = "speech"
    BY <1>9, <2>1 DEF Collect, TypeOK
  <2>2. CASE kind[r] # "speech"
    BY <1>9, <2>2, FinalizeType DEF Collect, TypeOK
  <2> QED
    BY <2>1, <2>2
<1> QED
  BY <1>1, <1>2, <1>3, <1>4, <1>5, <1>6, <1>7, <1>8, <1>9 DEF BodyStep

\* A step of the limiter keeps the state well typed.
LEMMA LimiterType ==
  ASSUME TypeOK, NEW r \in Req, LimiterStep(r)
  PROVE  TypeOK'
<1> USE DEF Phase, Go, bookVars
<1>1. CASE Taken(r)
  <2>1. seen[r] + 1 \in Nat /\ Writes(r, seen[r] + 1)
    BY <1>1 DEF Taken, TypeOK
  <2>2. /\ count' \in Nat
        /\ op' \in [Req -> {"none", "taking", "giving"}]
        /\ seen' \in [Req -> Nat]
        /\ missed' \in [Req -> Nat]
        /\ lost' \in Nat
    BY <2>1, WritesType
  <2> QED
    BY <1>1, <2>2 DEF Taken, TypeOK
<1>2. CASE Given(r)
  <2>1. Dec(seen[r]) \in Nat /\ Writes(r, Dec(seen[r]))
    <3>1. Dec(seen[r]) \in Nat
      <4>1. seen[r] \in Nat
        BY DEF TypeOK
      <4> QED
        BY <4>1 DEF Dec
    <3>2. Writes(r, Dec(seen[r]))
      BY <1>2, Zenon DEF Given
    <3> QED
      BY <3>1, <3>2
  <2>2. /\ count' \in Nat
        /\ op' \in [Req -> {"none", "taking", "giving"}]
        /\ seen' \in [Req -> Nat]
        /\ missed' \in [Req -> Nat]
        /\ lost' \in Nat
    BY <2>1, WritesType
  <2> QED
    BY <1>2, <2>2 DEF Given, TypeOK
<1> QED
  BY <1>1, <1>2 DEF LimiterStep

\* Every step keeps the state well typed.
LEMMA TypeStep == TypeOK /\ [Next]_vars => TypeOK'
<1> SUFFICES ASSUME TypeOK, [Next]_vars
             PROVE  TypeOK'
  OBVIOUS
<1> USE DEF Phase, Go, bookVars
<1>1. ASSUME NEW r \in Req, Admit(r)
      PROVE  TypeOK'
  <2>1. /\ count' \in Nat
        /\ op' \in [Req -> {"none", "taking", "giving"}]
        /\ seen' \in [Req -> Nat]
        /\ missed' \in [Req -> Nat]
        /\ lost' \in Nat
    BY <1>1, ReadsType DEF Admit
  <2> QED
    BY <1>1, <2>1 DEF Admit, TypeOK
<1>2. ASSUME NEW r \in Req, Refuse(r)
      PROVE  TypeOK'
  BY <1>2 DEF Refuse, TypeOK, slotVars, opVars
<1>3. ASSUME NEW r \in Req, RunBackground(r)
      PROVE  TypeOK'
  <2>1. SlotsTyped'
    BY <1>3, ReleaseType DEF RunBackground
  <2> QED
    BY <1>3, <2>1 DEF RunBackground, TypeOK, SlotsTyped
<1>4. CASE UNCHANGED vars
  BY <1>4 DEF vars, slotVars, opVars, TypeOK
<1> QED
  BY <1>1, <1>2, <1>3, <1>4, HandlerType, BodyType, LimiterType DEF Next, LoopStep

\* The initial state is well typed.
LEMMA TypeInit == Init => TypeOK
BY LifecycleAssumption DEF Init, TypeOK, Phase

\* Every reachable state is well typed; in particular the limiter's count is
\* never negative, also when a pool thread's release and the loop overlap.
THEOREM TypeCorrect == Spec => []TypeOK
BY TypeInit, TypeStep, PTL DEF Spec

-----------------------------------------------------------------------------
(* What the steps do to the slot.                                          *)

Outside == {"new", "refused"}
OtherStep(r) == (LoopIdle /\ (Refuse(r) \/ HandlerStep(r) \/ BodyStep(r))) \/ RunBackground(r)

\* Apart from admission and the limiter's writes, a step starts to give back one
\* slot or leaves the limiter alone; it moves one request, and takes it neither
\* out of the outside phases nor back into them; a request that gives its slot
\* back stops working.
LEMMA OtherShape ==
  ASSUME IInv, NEW r \in Req, OtherStep(r)
  PROVE  /\ Release(r) \/ UNCHANGED slotVars
         /\ phase' = [phase EXCEPT ![r] = phase'[r]]
         /\ phase'[r] \in Outside <=> phase[r] \in Outside
         /\ phase'[r] # "new"
         /\ op[r] # "taking"
         /\ Working(r)' => UNCHANGED slotVars /\ Working(r)
         /\ background' = [background EXCEPT ![r] = background'[r]]
         /\ background'[r] = "writing" => op'[r] = "giving"
         /\ background'[r] # "none" => phase'[r] \in {"gone", "suspended"}
<1> USE DEF Outside, Working, Go, slotVars, opVars, bookVars
<1>0. /\ phase \in [Req -> Phase]
      /\ background \in [Req -> {"none", "due", "writing", "done"}]
      /\ background[r] # "none" => phase[r] \in {"gone", "suspended"}
      /\ background[r] = "writing" => op[r] = "giving"
      /\ op[r] = "taking" => phase[r] = "new"
  BY DEF IInv, TypeOK, OperationsInPlace, BackgroundLast
<1>a. ASSUME LoopIdle, op[r] = "taking"
      PROVE  FALSE
  BY <1>0, <1>a DEF LoopIdle
<1>b. OtherStep(r) => op[r] # "taking"
  BY <1>0, <1>a DEF OtherStep, RunBackground
<1>1. CASE Refuse(r)
  BY <1>0, <1>b, <1>1 DEF Refuse
<1>2. CASE Reply(r)
  BY <1>0, <1>2 DEF Reply
<1>3. CASE HandlerFails(r)
  BY <1>0, <1>3 DEF HandlerFails
<1>4. CASE Dispatch(r)
  BY <1>0, <1>4 DEF Dispatch
<1>5. CASE UpstreamRefuses(r)
  BY <1>0, <1>5 DEF UpstreamRefuses, FailDispatched, ReleaseOnError
<1>6. CASE UpstreamAnswers(r)
  BY <1>0, <1>6 DEF UpstreamAnswers
<1>7. CASE AnswerFails(r)
  BY <1>0, <1>7 DEF AnswerFails, FailDispatched, ReleaseOnError
<1>8. CASE Buffered(r)
  BY <1>0, <1>8 DEF Buffered, ReleaseOnComplete
<1>9. CASE Settle(r)
  BY <1>0, <1>9 DEF Settle
<1>10. CASE Respond(r)
  BY <1>0, <1>10 DEF Respond
<1>11. CASE StartBody(r)
  BY <1>0, <1>11 DEF StartBody
<1>12. CASE EndTelemetry(r)
  BY <1>0, <1>12 DEF EndTelemetry, Finalize, ReleaseOnComplete
<1>13. CASE EndSpeech(r)
  BY <1>0, <1>13 DEF EndSpeech, EndBody
<1>14. CASE LeaveAtYield(r)
  BY <1>0, <1>14 DEF LeaveAtYield
<1>15. CASE LeaveEarly(r)
  BY <1>0, <1>15 DEF LeaveEarly
<1>16. CASE BodyFails(r)
  BY <1>0, <1>16 DEF BodyFails
<1>17. CASE CommitSpend(r)
  BY <1>0, <1>17 DEF CommitSpend, EndBody
<1>18. CASE CutSpending(r)
  BY <1>0, <1>18 DEF CutSpending, EndBody, Finalize, ReleaseOnComplete
<1>19. CASE Collect(r)
  BY <1>0, <1>19 DEF Collect, Finalize, ReleaseOnComplete
<1>20. CASE RunBackground(r)
  <2>1. phase' = phase /\ phase[r] \in {"gone", "suspended"}
    BY <1>0, <1>20 DEF RunBackground
  <2>2. /\ background' = [background EXCEPT ![r] = background'[r]]
        /\ background'[r] = "writing" => op'[r] = "giving"
    BY <1>0, <1>20 DEF RunBackground
  <2>3. Release(r) \/ UNCHANGED slotVars
    BY <1>20 DEF RunBackground
  <2> QED
    BY <1>0, <2>1, <2>2, <2>3
<1> QED
  BY <1>b, <1>1, <1>2, <1>3, <1>4, <1>5, <1>6, <1>7, <1>8, <1>9, <1>10, <1>11, <1>12,
     <1>13, <1>14, <1>15, <1>16, <1>17, <1>18, <1>19, <1>20
  DEF OtherStep, HandlerStep, BodyStep

-----------------------------------------------------------------------------
(* The holders.                                                            *)

Past == {r \in Req : phase[r] \notin {"new", "refused"} /\ ~Holding(r)}
Refused == {r \in Req : phase[r] = "refused"}

\* The requests that hold a slot are finitely many.
LEMMA HoldersFinite == IsFiniteSet(Holders) /\ Cardinality(Holders) \in Nat
<1>1. Holders \in SUBSET Req
  BY DEF Holders
<1> QED
  BY <1>1, LifecycleAssumption, FS_Subset, FS_CardinalityType

\* A request that takes its slot is new to the semaphore, and becomes a holder.
LEMMA TakenHolders ==
  ASSUME IInv, NEW r \in Req, Taken(r)
  PROVE  /\ r \notin Holders \cup Past \cup Refused
         /\ Holders' = Holders \cup {r}
         /\ Past' = Past /\ Refused' = Refused
         /\ Cardinality(Holders') = Cardinality(Holders) + 1
<1>1. /\ phase[r] = "new" /\ phase' = [phase EXCEPT ![r] = "handler"]
      /\ flag' = [flag EXCEPT ![r] = TRUE]
      /\ op' = [op EXCEPT ![r] = "none"]
  BY DEF Taken, Go, Writes, IInv, OperationsInPlace
<1>2. /\ phase \in [Req -> Phase] /\ flag \in [Req -> BOOLEAN]
      /\ op \in [Req -> {"none", "taking", "giving"}]
  BY DEF IInv, TypeOK
<1>3. ~Holding(r)
  BY <1>1 DEF IInv, OutsideHoldsNone
<1>4. r \notin Holders \cup Past \cup Refused
  BY <1>1, <1>3 DEF Holders, Past, Outside, Refused
<1>5. Holders' = Holders \cup {r}
  BY <1>1, <1>2 DEF Holders, Holding
<1>6. Past' = Past /\ Refused' = Refused
  BY <1>1, <1>2, <1>3 DEF Past, Holding, Outside, Refused
<1>7. Cardinality(Holders \cup {r}) = Cardinality(Holders) + 1
  BY <1>4, HoldersFinite, FS_AddElement
<1> QED
  BY <1>4, <1>5, <1>6, <1>7

\* A request that has given its slot back was a holder, and is past.
LEMMA GivenHolders ==
  ASSUME IInv, NEW r \in Req, Given(r)
  PROVE  /\ r \in Holders
         /\ Holders' = Holders \ {r}
         /\ Past' = Past \cup {r} /\ Refused' = Refused
         /\ Cardinality(Holders) > 0
         /\ Cardinality(Holders') = Cardinality(Holders) - 1
<1>1. /\ op[r] = "giving" /\ op' = [op EXCEPT ![r] = "none"]
      /\ UNCHANGED <<flag, phase>> /\ ~flag[r]
  BY DEF Given, Writes, IInv, OperationsInPlace
<1>2. op \in [Req -> {"none", "taking", "giving"}]
  BY DEF IInv, TypeOK
<1>3. r \in Holders
  BY <1>1 DEF Holders, Holding
<1>4. Holders' = Holders \ {r}
  BY <1>1, <1>2 DEF Holders, Holding
<1>5. phase[r] \notin Outside
  BY <1>1 DEF IInv, OutsideHoldsNone, Outside, Holding
<1>6. Past' = Past \cup {r} /\ Refused' = Refused
  BY <1>1, <1>2, <1>5 DEF Past, Holding, Outside, Refused
<1>7. Cardinality(Holders \ {r}) = Cardinality(Holders) - 1 /\ Cardinality(Holders) # 0
  BY <1>3, HoldersFinite, FS_RemoveElement, FS_EmptySet
<1> QED
  BY <1>3, <1>4, <1>6, <1>7, HoldersFinite

\* A request that asks for a slot, and has not got it yet, changes no holder.
LEMMA AdmitHolders ==
  ASSUME IInv, NEW r \in Req, LoopIdle, Admit(r)
  PROVE  /\ op[r] = "none" /\ ~flag[r]
         /\ UNCHANGED <<Holders, Past, Refused>>
<1>0. op \in [Req -> {"none", "taking", "giving"}]
  BY DEF IInv, TypeOK
<1>1. /\ phase[r] = "new" /\ UNCHANGED <<phase, flag>>
      /\ op' = [op EXCEPT ![r] = "taking"]
  BY DEF Admit, Reads
<1>2. ~Holding(r) /\ background[r] # "writing"
  BY <1>1 DEF IInv, OutsideHoldsNone, BackgroundLast
<1>3. op[r] = "none" /\ ~flag[r]
  BY <1>2 DEF LoopIdle, Holding
<1>4. \A q \in Req : Holding(q)' <=> Holding(q)
  BY <1>0, <1>1, <1>3 DEF Holding
<1> QED
  BY <1>1, <1>3, <1>4 DEF Holders, Past, Refused

\* Nor does any other step; a release is only begun by a request that does nothing
\* else to the count.
LEMMA OtherHolders ==
  ASSUME IInv, NEW r \in Req, OtherStep(r)
  PROVE  /\ UNCHANGED <<count, lost, missed, Holders, Past>>
         /\ \/ UNCHANGED slotVars
            \/ /\ op[r] = "none" /\ flag[r]
               /\ op' = [op EXCEPT ![r] = "giving"]
               /\ seen' = [seen EXCEPT ![r] = count]
               /\ flag' = [flag EXCEPT ![r] = FALSE]
<1>1. /\ phase \in [Req -> Phase] /\ flag \in [Req -> BOOLEAN]
      /\ op \in [Req -> {"none", "taking", "giving"}]
  BY DEF IInv, TypeOK
<1>2. /\ Release(r) \/ UNCHANGED slotVars
      /\ phase' = [phase EXCEPT ![r] = phase'[r]]
      /\ phase'[r] \in Outside <=> phase[r] \in Outside
  BY OtherShape
<1>3. \A q \in Req : phase'[q] \in Outside <=> phase[q] \in Outside
  BY <1>1, <1>2
<1>4. CASE flag[r] /\ Release(r)
  <2>1. /\ op' = [op EXCEPT ![r] = "giving"]
        /\ seen' = [seen EXCEPT ![r] = count]
        /\ flag' = [flag EXCEPT ![r] = FALSE]
        /\ UNCHANGED <<count, missed, lost>>
    BY <1>4 DEF Release, Reads
  <2>2. op[r] = "none"
    <3>1. op[r] # "taking"
      BY <1>4 DEF IInv, OperationsInPlace, OutsideHoldsNone, Holding
    <3>2. op[r] # "giving"
      BY <1>4 DEF IInv, OperationsInPlace
    <3> QED
      BY <1>1, <3>1, <3>2
  <2>3. \A q \in Req : Holding(q)' <=> Holding(q)
    BY <1>1, <1>4, <2>1 DEF Holding
  <2>4. Holders' = Holders /\ Past' = Past
    BY <1>3, <2>3 DEF Holders, Past, Outside
  <2> QED
    BY <1>4, <2>1, <2>2, <2>4
<1>5. CASE ~(flag[r] /\ Release(r))
  <2>1. UNCHANGED slotVars
    BY <1>2, <1>5 DEF Release
  <2>2. \A q \in Req : Holding(q)' <=> Holding(q)
    BY <2>1 DEF Holding, slotVars, opVars
  <2>3. Holders' = Holders /\ Past' = Past
    BY <1>3, <2>2 DEF Holders, Past, Outside
  <2> QED
    BY <2>1, <2>3 DEF slotVars, opVars
<1> QED
  BY <1>4, <1>5

-----------------------------------------------------------------------------
(* The count.                                                              *)

\* A write leaves the count, and what others have read of it, as near to the
\* holders as what was read for it, when it moves both by one.
LEMMA WritesNear ==
  ASSUME IInv, NEW r \in Req, NEW n \in Nat, Writes(r, n),
         Near(seen[r], lost + missed[r]),
         \/ n = seen[r] + 1 /\ Cardinality(Holders') = Cardinality(Holders) + 1
         \/ /\ n = Dec(seen[r]) /\ Cardinality(Holders) > 0
            /\ Cardinality(Holders') = Cardinality(Holders) - 1
  PROVE  SlotsCounted' /\ ReadsNear' /\ lost' \in Nat /\ lost' >= lost
                       /\ lost' = lost + missed[r]
<1> DEFINE h == Cardinality(Holders)
           hh == Cardinality(Holders')
<1>1. /\ h \in Nat /\ hh \in Nat /\ lost \in Nat
      /\ \A q \in Req : missed[q] \in Nat /\ seen[q] \in Nat
  <2>1. /\ missed \in [Req -> Nat] /\ seen \in [Req -> Nat] /\ lost \in Nat
    BY DEF IInv, TypeOK
  <2>2. h \in Nat
    BY HoldersFinite
  <2> QED
    BY <2>1, <2>2
<1>2. /\ seen[r] - (lost + missed[r]) <= h
      /\ h <= seen[r] + (lost + missed[r])
  BY DEF Near
<1>3. /\ count' = n /\ lost' = lost + missed[r]
      /\ op' = [op EXCEPT ![r] = "none"]
      /\ seen' = [seen EXCEPT ![r] = 0]
      /\ missed' = [q \in Req |-> IF q = r \/ op[q] = "none" THEN 0 ELSE missed[q] + 1]
  BY DEF Writes
<1>4. (n = seen[r] + 1 /\ hh = h + 1) \/ (h > 0 /\ hh = h - 1 /\ n = Dec(seen[r]))
  OBVIOUS
<1>5. Dec(seen[r]) = IF seen[r] > 1 THEN seen[r] - 1 ELSE 0
  BY DEF Dec
<1> HIDE DEF h, hh
<1>6. n - (lost + missed[r]) <= hh /\ hh <= n + (lost + missed[r])
  BY <1>1, <1>2, <1>4, <1>5
<1>7. SlotsCounted'
  BY <1>3, <1>6 DEF SlotsCounted, Near, hh
<1>8. ASSUME NEW q \in Req, op'[q] # "none"
      PROVE  Near(seen[q], lost + missed[q])'
  <2>1. q # r /\ op[q] # "none"
    BY <1>3, <1>8 DEF IInv, TypeOK
  <2>2. seen'[q] = seen[q] /\ missed'[q] = missed[q] + 1
    BY <1>3, <2>1 DEF IInv, TypeOK
  <2>3. seen[q] - (lost + missed[q]) <= h /\ h <= seen[q] + (lost + missed[q])
    BY <2>1 DEF IInv, ReadsNear, Near, h
  <2>4. hh <= h + 1 /\ h <= hh + 1
    BY <1>1, <1>4
  <2>5. /\ seen'[q] - (lost' + missed'[q]) <= hh
        /\ hh <= seen'[q] + (lost' + missed'[q])
    <3>1. seen[q] \in Nat /\ missed[q] \in Nat /\ missed[r] \in Nat
      BY <1>1
    <3> QED
      BY <1>1, <1>3, <2>2, <2>3, <2>4, <3>1
  <2> QED
    BY <2>5 DEF Near, hh
<1>9. ReadsNear'
  BY <1>8 DEF ReadsNear
<1> QED
  BY <1>1, <1>3, <1>7, <1>9

\* The invariant holds before any request came.
LEMMA InvInit == Init => IInv
<1> SUFFICES ASSUME Init PROVE IInv
  OBVIOUS
<1>1. TypeOK
  BY TypeInit
<1>2. Holders = {}
  BY DEF Init, Holders, Holding
<1>3. Cardinality(Holders) = 0
  BY <1>2, FS_EmptySet
<1>4. SlotsCounted /\ Cardinality(Holders) <= MaxConcurrent + lost
  BY <1>3, LifecycleAssumption DEF Init, SlotsCounted, Near
<1>5. \A r \in Req : op[r] = "none" /\ background[r] = "none" /\ ~flag[r] /\ phase[r] = "new"
  BY DEF Init
<1> QED
  BY <1>1, <1>4, <1>5
  DEF IInv, OutsideHoldsNone, BackgroundLast, WorkingHoldsSlot, OperationsInPlace, ReadsNear,
      Holding, Working

\* Every step keeps the invariant.
LEMMA InvStep == IInv /\ [Next]_vars => IInv'
<1> SUFFICES ASSUME IInv, [Next]_vars
             PROVE  IInv'
  OBVIOUS
<1>0. /\ TypeOK' /\ phase \in [Req -> Phase] /\ flag \in [Req -> BOOLEAN]
      /\ count \in Nat /\ lost \in Nat /\ Cardinality(Holders) \in Nat
      /\ op \in [Req -> {"none", "taking", "giving"}]
      /\ seen \in [Req -> Nat] /\ missed \in [Req -> Nat]
      /\ background \in [Req -> {"none", "due", "writing", "done"}]
      /\ MaxConcurrent \in Nat
      /\ Cardinality(Holders) <= MaxConcurrent + lost
  BY TypeStep, HoldersFinite, LifecycleAssumption DEF IInv, TypeOK
<1>1. ASSUME NEW r \in Req, LoopIdle, Admit(r)
      PROVE  IInv'
  <2>1. /\ phase[r] = "new" /\ op' = [op EXCEPT ![r] = "taking"]
        /\ seen' = [seen EXCEPT ![r] = count] /\ count < MaxConcurrent
        /\ UNCHANGED <<count, flag, phase, background, missed, lost>>
    BY <1>1 DEF Admit, Reads
  <2>2. op[r] = "none" /\ ~flag[r] /\ Holders' = Holders
    BY <1>1, AdmitHolders
  <2>3. SlotsCounted' /\ (Cardinality(Holders) <= MaxConcurrent + lost)'
    BY <1>0, <2>1, <2>2 DEF IInv, SlotsCounted, Near
  <2>4. ReadsNear'
    <3>1. ASSUME NEW q \in Req, op'[q] # "none"
          PROVE  Near(seen[q], lost + missed[q])'
      <4>1. CASE q = r
        BY <1>0, <2>1, <2>2, <4>1 DEF IInv, SlotsCounted, Near
      <4>2. CASE q # r
        BY <1>0, <2>1, <2>2, <3>1, <4>2 DEF IInv, ReadsNear, Near
      <4> QED
        BY <4>1, <4>2
    <3> QED
      BY <3>1 DEF ReadsNear
  <2>5. OutsideHoldsNone' /\ BackgroundLast' /\ WorkingHoldsSlot' /\ OperationsInPlace'
    BY <1>0, <2>1, <2>2
    DEF IInv, OutsideHoldsNone, BackgroundLast, WorkingHoldsSlot, OperationsInPlace, Holding, Working
  <2> QED
    BY <1>0, <2>3, <2>4, <2>5 DEF IInv
<1>2. ASSUME NEW r \in Req, OtherStep(r)
      PROVE  IInv'
  <2>1. /\ phase' = [phase EXCEPT ![r] = phase'[r]]
        /\ phase'[r] \in Outside <=> phase[r] \in Outside
        /\ op[r] # "taking"
        /\ Working(r)' => UNCHANGED slotVars /\ Working(r)
        /\ background' = [background EXCEPT ![r] = background'[r]]
        /\ background'[r] = "writing" => op'[r] = "giving"
        /\ background'[r] # "none" => phase'[r] \in {"gone", "suspended"}
    BY <1>2, OtherShape
  <2>2. /\ UNCHANGED <<count, lost, missed, Holders>>
        /\ \/ UNCHANGED slotVars
           \/ /\ op[r] = "none" /\ flag[r]
              /\ op' = [op EXCEPT ![r] = "giving"]
              /\ seen' = [seen EXCEPT ![r] = count]
              /\ flag' = [flag EXCEPT ![r] = FALSE]
    BY <1>2, OtherHolders
  <2>3. SlotsCounted' /\ (Cardinality(Holders) <= MaxConcurrent + lost)'
    BY <1>0, <2>2 DEF IInv, SlotsCounted, Near
  <2>4. ReadsNear'
    <3>1. ASSUME NEW q \in Req, op'[q] # "none"
          PROVE  Near(seen[q], lost + missed[q])'
      <4>1. CASE op[q] = "none"
        <5>1. q = r /\ seen'[q] = count
          BY <1>0, <2>2, <3>1, <4>1 DEF slotVars, opVars
        <5> QED
          BY <1>0, <2>2, <5>1 DEF IInv, SlotsCounted, Near
      <4>2. CASE op[q] # "none"
        <5>1. seen'[q] = seen[q]
          BY <1>0, <2>2, <4>2 DEF slotVars, opVars
        <5> QED
          BY <1>0, <2>2, <4>2, <5>1 DEF IInv, ReadsNear, Near
      <4> QED
        BY <4>1, <4>2
    <3> QED
      BY <3>1 DEF ReadsNear
  <2>5. BackgroundLast'
    BY <1>0, <2>1 DEF IInv, BackgroundLast
  <2>6. \A q \in Req : Working(q)' => Working(q) /\ flag'[q] = flag[q]
    BY <1>0, <2>1, <2>2 DEF Working, slotVars
  <2>7. WorkingHoldsSlot'
    BY <2>6 DEF IInv, WorkingHoldsSlot
  <2>8. OutsideHoldsNone'
    <3>1. \A q \in Req : Holding(q)' => Holding(q)
      BY <1>0, <2>2 DEF Holding, slotVars, opVars
    <3>2. \A q \in Req : phase'[q] \in Outside => phase[q] \in Outside
      BY <1>0, <2>1
    <3> QED
      BY <3>1, <3>2 DEF IInv, OutsideHoldsNone, Outside
  <2>9. OperationsInPlace'
    <3>1. ASSUME NEW q \in Req, q # r
          PROVE  /\ op'[q] = op[q] /\ phase'[q] = phase[q] /\ flag'[q] = flag[q]
                 /\ seen'[q] = seen[q] /\ background'[q] = background[q]
      BY <1>0, <2>1, <2>2, <3>1 DEF slotVars, opVars
    <3>2. ASSUME NEW q \in Req, q # r
          PROVE  /\ op'[q] = "taking" => phase'[q] = "new" /\ seen'[q] < MaxConcurrent
                 /\ op'[q] = "giving" => ~Working(q)' /\ ~flag'[q]
                 /\ background'[q] = "writing" => op'[q] = "giving"
      BY <3>1, <3>2 DEF IInv, OperationsInPlace, Working
    <3>3. CASE UNCHANGED slotVars
      <4>1. op'[r] = op[r] /\ flag'[r] = flag[r]
        BY <3>3 DEF slotVars, opVars
      <4>2. op'[r] = "giving" => ~Working(r)' /\ ~flag'[r]
        BY <2>1, <4>1 DEF IInv, OperationsInPlace
      <4> QED
        BY <2>1, <3>2, <4>1, <4>2 DEF OperationsInPlace
    <3>4. CASE /\ op[r] = "none" /\ flag[r]
               /\ op' = [op EXCEPT ![r] = "giving"]
               /\ flag' = [flag EXCEPT ![r] = FALSE]
      <4>1. op'[r] = "giving" /\ ~flag'[r]
        BY <1>0, <3>4
      <4>2. ~Working(r)'
        BY <2>1, <3>4, <4>1 DEF slotVars
      <4> QED
        BY <2>1, <3>2, <4>1, <4>2 DEF OperationsInPlace
    <3> QED
      BY <2>2, <3>3, <3>4
  <2> QED
    BY <1>0, <2>3, <2>4, <2>5, <2>7, <2>8, <2>9 DEF IInv
<1>3. ASSUME NEW r \in Req, Taken(r)
      PROVE  IInv'
  <2>1. /\ op[r] = "taking" /\ Writes(r, seen[r] + 1)
        /\ op' = [op EXCEPT ![r] = "none"]
        /\ seen' = [seen EXCEPT ![r] = 0]
        /\ flag' = [flag EXCEPT ![r] = TRUE]
        /\ phase[r] = "new" /\ phase' = [phase EXCEPT ![r] = "handler"]
        /\ seen[r] < MaxConcurrent
        /\ UNCHANGED background
    BY <1>3 DEF Taken, Writes, Go, IInv, OperationsInPlace
  <2>2. Cardinality(Holders') = Cardinality(Holders) + 1
    BY <1>3, TakenHolders
  <2>3. Near(seen[r], lost + missed[r]) /\ seen[r] + 1 \in Nat
    BY <1>0, <2>1 DEF IInv, ReadsNear
  <2>4. SlotsCounted' /\ ReadsNear' /\ lost' = lost + missed[r]
    BY <2>1, <2>2, <2>3, WritesNear
  <2>5. (Cardinality(Holders) <= MaxConcurrent + lost)'
    <3>1. Cardinality(Holders) <= seen[r] + (lost + missed[r])
      BY <2>3 DEF Near
    <3>2. seen[r] \in Nat /\ missed[r] \in Nat
      BY <1>0
    <3> QED
      BY <1>0, <2>1, <2>2, <2>4, <3>1, <3>2
  <2>6. OutsideHoldsNone' /\ BackgroundLast' /\ WorkingHoldsSlot' /\ OperationsInPlace'
    BY <1>0, <2>1
    DEF IInv, OutsideHoldsNone, BackgroundLast, WorkingHoldsSlot, OperationsInPlace, Holding, Working
  <2> QED
    BY <1>0, <2>4, <2>5, <2>6 DEF IInv
<1>4. ASSUME NEW r \in Req, Given(r)
      PROVE  IInv'
  <2>1. /\ op[r] = "giving" /\ Writes(r, Dec(seen[r]))
        /\ op' = [op EXCEPT ![r] = "none"]
        /\ seen' = [seen EXCEPT ![r] = 0]
        /\ UNCHANGED <<flag, phase>>
        /\ background' = [background EXCEPT ![r] = IF @ = "writing" THEN "done" ELSE @]
    BY <1>4, Zenon DEF Given, Writes
  <2>2. Cardinality(Holders) > 0 /\ Cardinality(Holders') = Cardinality(Holders) - 1
    BY <1>4, GivenHolders
  <2>3. Near(seen[r], lost + missed[r])
    BY <2>1 DEF IInv, ReadsNear
  <2>4. Dec(seen[r]) \in Nat
    <3>1. seen[r] \in Nat
      BY <1>0
    <3> QED
      BY <3>1 DEF Dec
  <2>5. SlotsCounted' /\ ReadsNear' /\ lost' \in Nat /\ lost' >= lost
    BY <2>1, <2>2, <2>3, <2>4, WritesNear
  <2>6. (Cardinality(Holders) <= MaxConcurrent + lost)'
    BY <1>0, <2>2, <2>5
  <2>7. OutsideHoldsNone' /\ BackgroundLast' /\ WorkingHoldsSlot' /\ OperationsInPlace'
    BY <1>0, <2>1
    DEF IInv, OutsideHoldsNone, BackgroundLast, WorkingHoldsSlot, OperationsInPlace, Holding, Working
  <2> QED
    BY <1>0, <2>5, <2>6, <2>7 DEF IInv
<1>5. CASE UNCHANGED vars
  BY <1>0, <1>5 DEF vars, slotVars, opVars, IInv, OutsideHoldsNone, BackgroundLast,
     WorkingHoldsSlot, OperationsInPlace, SlotsCounted, ReadsNear, Near, Holders, Holding, Working
<1> QED
  BY <1>1, <1>2, <1>3, <1>4, <1>5 DEF Next, OtherStep, LoopStep, LimiterStep

-----------------------------------------------------------------------------
(* The theorems.                                                           *)

\* In every reachable state, for every endpoint, whatever fails, whenever clients
\* leave and however the pool threads' releases and the loop's operations fall
\* between each other's read and write: the limiter's count is the number of
\* requests that hold a slot, off by the changes overwritten at most; requests
\* hold theirs while they are worked for, as of the error handlers, the
\* on_complete callback and the background task one at most releases, and none
\* before the body has ended; and those that do exceed the limit by no more than
\* the changes overwritten (rate_limit.py:74-98, proxy_helpers.py:226-260).
THEOREM SlotsCorrect == Spec => []SlotAccounting
<1>1. IInv => SlotAccounting
  <2> SUFFICES ASSUME IInv PROVE BoundRespected
    BY DEF IInv, SlotAccounting
  <2>1. {r \in Req : Holding(r) \/ Working(r)} = Holders
    BY DEF IInv, WorkingHoldsSlot, Holders, Holding
  <2> QED
    BY <2>1 DEF IInv, BoundRespected
<1> QED
  BY InvInit, InvStep, <1>1, PTL DEF Spec

\* Only a refusal refuses.
LEMMA OtherPhase ==
  ASSUME IInv, NEW r \in Req, OtherStep(r), ~Refuse(r)
  PROVE  \A q \in Req : phase'[q] = "refused" <=> phase[q] = "refused"
<1> USE DEF Go, EndBody, FailDispatched
<1>1. phase \in [Req -> Phase]
  BY DEF IInv, TypeOK
<1>2. \/ HandlerStep(r) \/ BodyStep(r) \/ RunBackground(r)
  BY DEF OtherStep
<1>3. CASE HandlerStep(r)
  BY <1>1, <1>3 DEF HandlerStep, Reply, HandlerFails, Dispatch, UpstreamRefuses, UpstreamAnswers,
     AnswerFails, Buffered, Settle, Respond
<1>4. CASE BodyStep(r)
  BY <1>1, <1>4 DEF BodyStep, StartBody, EndTelemetry, EndSpeech, LeaveAtYield, LeaveEarly,
     BodyFails, CommitSpend, CutSpending, Collect
<1>5. CASE RunBackground(r)
  BY <1>5 DEF RunBackground
<1> QED
  BY <1>2, <1>3, <1>4, <1>5

\* The semaphore counts its holders as the limiter's properties do.
LEMMA SameCount == Semaphore!Cardinality(Holders) = Cardinality(Holders)
BY Zenon DEF Semaphore!Cardinality, Cardinality, Semaphore!IsFiniteSet, IsFiniteSet

\* The slots implement a semaphore that slips once at most for each change that
\* was overwritten: a request takes a slot only when it was new and one was free
\* but for the slips, it is refused only when none was, it gives back the slot it
\* holds, once, and no other step touches the semaphore.
THEOREM ImplementsSemaphore == Spec => SemaphoreSpec
<1> DEFINE semVars == <<lost, Holders, Past, Refused>>
<1>1. Init => Semaphore!Init
  BY DEF Init, Semaphore!Init, Holders, Holding
<1>2. ASSUME IInv, [Next]_vars
      PROVE  [Semaphore!Next]_semVars
  <2>0. /\ count \in Nat /\ lost \in Nat /\ MaxConcurrent \in Nat
        /\ Cardinality(Holders) \in Nat
        /\ missed \in [Req -> Nat] /\ seen \in [Req -> Nat] /\ phase \in [Req -> Phase]
    BY <1>2, LifecycleAssumption, HoldersFinite DEF IInv, TypeOK
  <2>1. ASSUME NEW r \in Req, LoopIdle, Admit(r)
        PROVE  UNCHANGED semVars
    <3>1. UNCHANGED <<Holders, Past, Refused>>
      BY <1>2, <2>1, AdmitHolders
    <3>2. lost' = lost
      BY <2>1 DEF Admit, Reads
    <3> QED
      BY <3>1, <3>2
  <2>2. ASSUME NEW r \in Req, Taken(r)
        PROVE  Semaphore!Acquire(r)
    <3>1. /\ r \notin Holders \cup Past \cup Refused
          /\ Holders' = Holders \cup {r} /\ Past' = Past /\ Refused' = Refused
      BY <1>2, <2>2, TakenHolders
    <3>2. lost' = lost + missed[r] /\ seen[r] < MaxConcurrent
          /\ Cardinality(Holders) <= seen[r] + (lost + missed[r])
      BY <1>2, <2>2 DEF Taken, Writes, IInv, OperationsInPlace, ReadsNear, Near
    <3>3. missed[r] \in Nat /\ seen[r] \in Nat
      BY <2>0
    <3>4. lost' \in Nat /\ lost' >= lost /\ Cardinality(Holders) < MaxConcurrent + lost'
      BY <2>0, <3>2, <3>3
    <3> QED
      BY <3>1, <3>4, SameCount, Zenon DEF Semaphore!Acquire, Semaphore!Slip, Past, Refused
  <2>3. ASSUME NEW r \in Req, Given(r)
        PROVE  Semaphore!Release(r)
    <3>1. /\ r \in Holders /\ Holders' = Holders \ {r}
          /\ Past' = Past \cup {r} /\ Refused' = Refused
      BY <1>2, <2>3, GivenHolders
    <3>2. lost' = lost + missed[r]
      BY <2>3 DEF Given, Writes
    <3>3. missed[r] \in Nat
      BY <2>0
    <3>4. lost' \in Nat /\ lost' >= lost
      BY <2>0, <3>2, <3>3
    <3> QED
      BY <3>1, <3>4, Zenon DEF Semaphore!Release, Semaphore!Slip, Past, Refused
  <2>4. ASSUME NEW r \in Req, LoopIdle, Refuse(r)
        PROVE  Semaphore!Refuse(r)
    <3>1. OtherStep(r)
      BY <2>4 DEF OtherStep
    <3>2. UNCHANGED <<lost, Holders, Past>>
      BY <1>2, <3>1, OtherHolders
    <3>3. /\ phase[r] = "new" /\ phase' = [phase EXCEPT ![r] = "refused"]
          /\ count >= MaxConcurrent
      BY <2>4 DEF Refuse, Go
    <3>4. r \notin Holders \cup Past \cup Refused
      BY <1>2, <3>3 DEF IInv, OutsideHoldsNone, Holders, Past, Outside, Refused
    <3>5. Refused' = Refused \cup {r}
      BY <2>0, <3>3 DEF Refused
    <3>6. Cardinality(Holders) + lost >= MaxConcurrent
      BY <1>2, <2>0, <3>3 DEF IInv, SlotsCounted, Near
    <3> QED
      BY <3>2, <3>4, <3>5, <3>6, SameCount, Zenon DEF Semaphore!Refuse, Past, Refused
  <2>5. ASSUME NEW r \in Req, OtherStep(r), ~Refuse(r)
        PROVE  UNCHANGED semVars
    <3>1. UNCHANGED <<lost, Holders, Past>>
      BY <1>2, <2>5, OtherHolders
    <3>2. Refused' = Refused
      BY <1>2, <2>0, <2>5, OtherPhase DEF Refused
    <3> QED
      BY <3>1, <3>2
  <2>6. CASE UNCHANGED vars
    BY <2>6 DEF vars, slotVars, opVars, Holders, Past, Refused, Holding
  <2>7. ASSUME NEW r \in Req, LoopStep(r) \/ RunBackground(r) \/ LimiterStep(r)
        PROVE  Semaphore!Next \/ UNCHANGED semVars
    <3>1. CASE LimiterStep(r)
      BY <2>2, <2>3, <3>1, Zenon DEF LimiterStep, Semaphore!Next
    <3>2. CASE LoopIdle /\ Admit(r)
      BY <2>1, <3>2
    <3>3. CASE LoopIdle /\ Refuse(r)
      BY <2>4, <3>3, Zenon DEF Semaphore!Next
    <3>4. CASE OtherStep(r) /\ ~Refuse(r)
      BY <2>5, <3>4
    <3>5. OtherStep(r) /\ Refuse(r) => (LoopIdle /\ Refuse(r)) \/ RunBackground(r)
      BY Zenon DEF OtherStep
    <3>6. ~(RunBackground(r) /\ Refuse(r))
      BY <1>2 DEF RunBackground, Refuse, IInv, BackgroundLast
    <3> QED
      BY <2>7, <3>1, <3>2, <3>3, <3>4, <3>5, <3>6, Zenon DEF LoopStep, OtherStep
  <2> QED
    BY <1>2, <2>6, <2>7, Zenon DEF Next
<1>4. Semaphore!Spec <=> Semaphore!Init /\ [][Semaphore!Next]_semVars
  BY DEF Semaphore!Spec, Past, Refused
<1> QED
  BY InvInit, InvStep, <1>1, <1>2, <1>4, PTL DEF Spec, SemaphoreSpec

-----------------------------------------------------------------------------
(* What is recorded of a request.                                          *)

AnyStep(r) == Admit(r) \/ Refuse(r) \/ HandlerStep(r) \/ BodyStep(r) \/ RunBackground(r) \/ LimiterStep(r)

\* A step changes what is kept about its own request alone.
LEMMA OwnBooks ==
  ASSUME TypeOK, NEW r \in Req, AnyStep(r)
  PROVE  /\ phase' = [phase EXCEPT ![r] = phase'[r]]
         /\ background' = [background EXCEPT ![r] = background'[r]]
         /\ tracker' = [tracker EXCEPT ![r] = tracker'[r]]
         /\ upstream' = [upstream EXCEPT ![r] = upstream'[r]]
         /\ finalized' = [finalized EXCEPT ![r] = finalized'[r]]
         /\ metrics' = [metrics EXCEPT ![r] = metrics'[r]]
         /\ completes' = [completes EXCEPT ![r] = completes'[r]]
         /\ spend' = [spend EXCEPT ![r] = spend'[r]]
         /\ UNCHANGED kind
<1> USE DEF Go, slotVars, opVars, bookVars
<1>0. /\ phase \in [Req -> Phase]
      /\ background \in [Req -> {"none", "due", "writing", "done"}]
      /\ tracker \in [Req -> {"none", "open", "finished"}]
      /\ upstream \in [Req -> {"none", "open", "closed"}]
      /\ finalized \in [Req -> BOOLEAN]
      /\ metrics \in [Req -> Nat] /\ completes \in [Req -> Nat] /\ spend \in [Req -> Nat]
  BY DEF TypeOK
<1>1. CASE Admit(r)
  BY <1>0, <1>1 DEF Admit
<1>2. CASE Refuse(r)
  BY <1>0, <1>2 DEF Refuse
<1>3. CASE Reply(r)
  BY <1>0, <1>3 DEF Reply
<1>4. CASE HandlerFails(r)
  BY <1>0, <1>4 DEF HandlerFails
<1>5. CASE Dispatch(r)
  BY <1>0, <1>5 DEF Dispatch
<1>6. CASE UpstreamRefuses(r)
  BY <1>0, <1>6 DEF UpstreamRefuses, FailDispatched
<1>7. CASE UpstreamAnswers(r)
  BY <1>0, <1>7 DEF UpstreamAnswers
<1>8. CASE AnswerFails(r)
  BY <1>0, <1>8 DEF AnswerFails, FailDispatched
<1>9. CASE Buffered(r)
  BY <1>0, <1>9 DEF Buffered
<1>10. CASE Settle(r)
  BY <1>0, <1>10 DEF Settle
<1>11. CASE Respond(r)
  BY <1>0, <1>11 DEF Respond
<1>12. CASE StartBody(r)
  BY <1>0, <1>12 DEF StartBody
<1>13. CASE EndTelemetry(r)
  BY <1>0, <1>13 DEF EndTelemetry, Finalize
<1>14. CASE EndSpeech(r)
  BY <1>0, <1>14 DEF EndSpeech, EndBody
<1>15. CASE LeaveAtYield(r)
  BY <1>0, <1>15 DEF LeaveAtYield
<1>16. CASE LeaveEarly(r)
  BY <1>0, <1>16 DEF LeaveEarly
<1>17. CASE BodyFails(r)
  BY <1>0, <1>17 DEF BodyFails
<1>18. CASE CommitSpend(r)
  BY <1>0, <1>18 DEF CommitSpend, EndBody
<1>19. CASE CutSpending(r)
  BY <1>0, <1>19 DEF CutSpending, EndBody, Finalize
<1>20. CASE Collect(r)
  BY <1>0, <1>20 DEF Collect, Finalize
<1>21. CASE RunBackground(r)
  BY <1>0, <1>21 DEF RunBackground
<1>22. CASE Taken(r)
  BY <1>0, <1>22 DEF Taken
<1>23. CASE Given(r)
  BY <1>0, <1>23 DEF Given
<1> QED
  BY <1>1, <1>2, <1>3, <1>4, <1>5, <1>6, <1>7, <1>8, <1>9, <1>10, <1>11, <1>12,
     <1>13, <1>14, <1>15, <1>16, <1>17, <1>18, <1>19, <1>20, <1>21, <1>22, <1>23
  DEF AnyStep, HandlerStep, BodyStep, LimiterStep

\* A step keeps the account of its own request.
LEMMA OwnAccount ==
  ASSUME TypeOK, NEW r \in Req, Account(r), AnyStep(r), op[r] = "taking" => phase[r] = "new"
  PROVE  Account(r)'
<1> USE DEF Go, slotVars, opVars, bookVars
<1>0. /\ phase \in [Req -> Phase]
      /\ background \in [Req -> {"none", "due", "writing", "done"}]
      /\ tracker \in [Req -> {"none", "open", "finished"}]
      /\ upstream \in [Req -> {"none", "open", "closed"}]
      /\ finalized \in [Req -> BOOLEAN]
      /\ metrics \in [Req -> Nat] /\ completes \in [Req -> Nat] /\ spend \in [Req -> Nat]
      /\ WorkedFor(r) /\ AwaitsSpend(r) /\ LeftAtYield(r) /\ Over(r)
  BY DEF TypeOK, Account
<1> USE DEF Account, WorkedFor, AwaitsSpend, LeftAtYield, Over, Unrecorded
<1>1. CASE Admit(r)
  BY <1>0, <1>1 DEF Admit
<1>2. CASE Refuse(r)
  BY <1>0, <1>2 DEF Refuse
<1>3. CASE Reply(r)
  BY <1>0, <1>3 DEF Reply
<1>4. CASE HandlerFails(r)
  BY <1>0, <1>4 DEF HandlerFails
<1>5. CASE Dispatch(r)
  BY <1>0, <1>5 DEF Dispatch
<1>6. CASE UpstreamRefuses(r)
  BY <1>0, <1>6 DEF UpstreamRefuses, FailDispatched
<1>7. CASE UpstreamAnswers(r)
  BY <1>0, <1>7 DEF UpstreamAnswers
<1>8. CASE AnswerFails(r)
  BY <1>0, <1>8 DEF AnswerFails, FailDispatched
<1>9. CASE Buffered(r)
  BY <1>0, <1>9 DEF Buffered
<1>10. CASE Settle(r)
  BY <1>0, <1>10 DEF Settle
<1>11. CASE Respond(r)
  BY <1>0, <1>11 DEF Respond
<1>12. CASE StartBody(r)
  BY <1>0, <1>12 DEF StartBody
<1>13. CASE EndTelemetry(r)
  BY <1>0, <1>13 DEF EndTelemetry, Finalize
<1>14. CASE EndSpeech(r)
  BY <1>0, <1>14 DEF EndSpeech, EndBody
<1>15. CASE LeaveAtYield(r)
  BY <1>0, <1>15 DEF LeaveAtYield
<1>16. CASE LeaveEarly(r)
  BY <1>0, <1>16 DEF LeaveEarly
<1>17. CASE BodyFails(r)
  <2>1. CASE kind[r] = "speech"
    <3>1. /\ phase[r] = "streaming" /\ phase'[r] = "broken"
          /\ UNCHANGED <<kind, tracker, finalized, metrics, completes, spend, background>>
      BY <1>0, <1>17, <2>1 DEF BodyFails
    <3> QED
      BY <1>0, <2>1, <3>1
  <2>2. CASE kind[r] # "speech"
    BY <1>0, <1>17, <2>2 DEF BodyFails
  <2> QED
    BY <2>1, <2>2
<1>18. CASE CommitSpend(r)
  BY <1>0, <1>18 DEF CommitSpend, EndBody
<1>19. CASE CutSpending(r)
  BY <1>0, <1>19 DEF CutSpending, EndBody, Finalize
<1>20. CASE Collect(r)
  BY <1>0, <1>20 DEF Collect, Finalize
<1>21. CASE RunBackground(r)
  BY <1>0, <1>21 DEF RunBackground
<1>22. CASE Taken(r)
  BY <1>0, <1>22 DEF Taken
<1>23. CASE Given(r)
  BY <1>0, <1>23 DEF Given
<1> QED
  BY <1>1, <1>2, <1>3, <1>4, <1>5, <1>6, <1>7, <1>8, <1>9, <1>10, <1>11, <1>12,
     <1>13, <1>14, <1>15, <1>16, <1>17, <1>18, <1>19, <1>20, <1>21, <1>22, <1>23
  DEF AnyStep, HandlerStep, BodyStep, LimiterStep

\* Every step keeps every account.
LEMMA OutcomeStep == IInv /\ OutcomeInv /\ [Next]_vars => OutcomeInv'
<1> SUFFICES ASSUME IInv, OutcomeInv, [Next]_vars
             PROVE  OutcomeInv'
  OBVIOUS
<1> USE DEF OutcomeInv
<1>1. TypeOK'
  BY TypeStep
<1>2. ASSUME NEW r \in Req, AnyStep(r), NEW q \in Req
      PROVE  Account(q)'
  <2>1. CASE q = r
    BY <1>2, <2>1, OwnAccount DEF IInv, OperationsInPlace
  <2>2. CASE q # r
    <3>1. /\ phase'[q] = phase[q] /\ background'[q] = background[q]
          /\ tracker'[q] = tracker[q] /\ upstream'[q] = upstream[q]
          /\ finalized'[q] = finalized[q] /\ metrics'[q] = metrics[q]
          /\ completes'[q] = completes[q] /\ spend'[q] = spend[q]
          /\ kind'[q] = kind[q]
      BY <1>2, <2>2, OwnBooks DEF TypeOK
    <3> QED
      BY <3>1 DEF Account, WorkedFor, AwaitsSpend, LeftAtYield, Over, Unrecorded
  <2> QED
    BY <2>1, <2>2
<1>3. CASE UNCHANGED vars
  BY <1>1, <1>3 DEF vars, bookVars, Account, WorkedFor, AwaitsSpend, LeftAtYield,
     Over, Unrecorded
<1> QED
  BY <1>1, <1>2, <1>3 DEF Next, AnyStep, LoopStep

\* Before any request came nothing is recorded.
LEMMA OutcomeInit == Init => OutcomeInv
BY TypeInit DEF Init, OutcomeInv, Account, WorkedFor, AwaitsSpend, LeftAtYield, Over, Unrecorded

\* In every reachable state, for every endpoint, whatever fails and whenever
\* clients leave, however the pool threads' releases fall: metrics, the
\* callback and the spend of a request are recorded once at most, the spend only
\* by a callback.
THEOREM NothingTwice == Spec => []NeverTwice
<1>1. OutcomeInv => NeverTwice
  <2> SUFFICES ASSUME OutcomeInv, NEW r \in Req
               PROVE  metrics[r] <= 1 /\ completes[r] <= 1 /\ spend[r] <= completes[r]
    BY DEF NeverTwice
  <2>1. phase[r] \in Phase /\ Account(r)
    BY DEF OutcomeInv, TypeOK
  <2> QED
    BY <2>1 DEF Phase, Account, WorkedFor, AwaitsSpend, LeftAtYield, Over, Unrecorded
<1> QED
  BY InvInit, InvStep, OutcomeInit, OutcomeStep, <1>1, PTL DEF Spec

\* Under the same conditions a request that is over has closed its tracker, and
\* the upstream of a body that was started.
THEOREM AllClosed == Spec => []NothingLeftOpen
<1>1. OutcomeInv => NothingLeftOpen
  <2> SUFFICES ASSUME OutcomeInv, NEW r \in Req, Ended(r)
               PROVE  tracker[r] # "open" /\ (finalized[r] => upstream[r] = "closed")
    BY DEF NothingLeftOpen, TrackerClosed, UpstreamClosed
  <2>1. Account(r)
    BY DEF OutcomeInv
  <2> QED
    BY <2>1 DEF Ended, Account, WorkedFor, Over, Unrecorded
<1> QED
  BY InvInit, InvStep, OutcomeInit, OutcomeStep, <1>1, PTL DEF Spec

\* Metrics and callback have run once for every body that was started and is over,
\* unless its upstream failed in the middle of it.
THEOREM OutcomesRecorded == Spec => []OutcomeRecorded
<1>1. OutcomeInv => OutcomeRecorded
  <2> SUFFICES ASSUME OutcomeInv, NEW r \in Req, Ended(r), finalized[r], phase[r] # "broken"
               PROVE  metrics[r] = 1 /\ completes[r] = 1
    BY DEF OutcomeRecorded, Recorded
  <2>1. Account(r)
    BY DEF OutcomeInv
  <2> QED
    BY <2>1 DEF Ended, Account, WorkedFor, Over, Unrecorded
<1> QED
  BY InvInit, InvStep, OutcomeInit, OutcomeStep, <1>1, PTL DEF Spec

-----------------------------------------------------------------------------
(* Counting the requests of a key that Redis is asked about.               *)

\* One more is one more to count, and one less one less.
LEMMA Count ==
  ASSUME NEW S, IsFiniteSet(S), NEW r
  PROVE  /\ Cardinality(S) \in Nat
         /\ r \notin S => Cardinality(S \cup {r}) = Cardinality(S) + 1
         /\ r \in S => /\ Cardinality(S) > 0
                       /\ Cardinality(S \ {r}) = Cardinality(S) - 1
<1>1. Cardinality(S) \in Nat
  BY FS_CardinalityType
<1>2. r \in S => Cardinality(S) # 0
  BY FS_EmptySet
<1>3. r \notin S => Cardinality(S \cup {r}) = Cardinality(S) + 1
  BY FS_AddElement
<1>4. r \in S => Cardinality(S \ {r}) = Cardinality(S) - 1
  BY FS_RemoveElement
<1> QED
  BY <1>1, <1>2, <1>3, <1>4

\* A set that two others cover is no larger than they are together.
LEMMA Cover ==
  ASSUME NEW S, NEW T, NEW U, IsFiniteSet(T), IsFiniteSet(U), S \in SUBSET (T \cup U)
  PROVE  Cardinality(S) <= Cardinality(T) + Cardinality(U)
<1>1. /\ IsFiniteSet(T \cup U)
      /\ Cardinality(T \cup U)
           = Cardinality(T) + Cardinality(U) - Cardinality(T \cap U)
  BY FS_Union
<1>2. IsFiniteSet(S) /\ Cardinality(S) <= Cardinality(T \cup U)
  BY <1>1, FS_Subset
<1>3. IsFiniteSet(T \cap U)
  BY FS_Subset
<1>4. /\ Cardinality(S) \in Nat /\ Cardinality(T) \in Nat /\ Cardinality(U) \in Nat
      /\ Cardinality(T \cap U) \in Nat /\ Cardinality(T \cup U) \in Nat
  BY <1>1, <1>2, <1>3, FS_CardinalityType
<1> QED
  BY <1>1, <1>2, <1>4

\* The requests of a worker at some places of the limiter.
AtPlaces(w, P) == {q \in Caller : at[q] = w /\ pc[q] \in P}

\* Any set of callers is finite.
LEMMA CallersFinite ==
  ASSUME NEW S \in SUBSET Caller
  PROVE  IsFiniteSet(S) /\ Cardinality(S) \in Nat
BY RedisAssumption, FS_Subset, FS_CardinalityType

\* A request that moves changes the number of requests at some places by one at
\* most.
LEMMA PlacesMove ==
  ASSUME RedisTypeOK, NEW r \in Caller, NEW p, Goes(r, p), at' = at, NEW w, NEW P
  PROVE  /\ Cardinality(AtPlaces(w, P)) \in Nat /\ Cardinality(AtPlaces(w, P)') \in Nat
         /\ at[r] # w \/ (pc[r] \in P <=> p \in P) =>
              Cardinality(AtPlaces(w, P)') = Cardinality(AtPlaces(w, P))
         /\ at[r] = w /\ pc[r] \notin P /\ p \in P =>
              Cardinality(AtPlaces(w, P)') = Cardinality(AtPlaces(w, P)) + 1
         /\ at[r] = w /\ pc[r] \in P /\ p \notin P =>
              Cardinality(AtPlaces(w, P)') = Cardinality(AtPlaces(w, P)) - 1
<1> DEFINE S == AtPlaces(w, P)
           T == AtPlaces(w, P)'
<1>1. S \in SUBSET Caller /\ T \in SUBSET Caller
  BY DEF AtPlaces
<1>2. /\ IsFiniteSet(S) /\ Cardinality(S) \in Nat /\ Cardinality(T) \in Nat
  BY <1>1, CallersFinite
<1>3. \A q \in Caller : pc'[q] = IF q = r THEN p ELSE pc[q]
  BY DEF Goes, RedisTypeOK
<1>4. \A q \in Caller : q \in S <=> at[q] = w /\ pc[q] \in P
  BY DEF AtPlaces
<1>5. \A q \in Caller : q \in T <=> at[q] = w /\ pc'[q] \in P
  BY DEF AtPlaces
<1> HIDE DEF S, T
<1>6. at[r] # w \/ (pc[r] \in P <=> p \in P) => T = S
  BY <1>1, <1>3, <1>4, <1>5
<1>7. ASSUME at[r] = w, pc[r] \notin P, p \in P
      PROVE  Cardinality(T) = Cardinality(S) + 1
  <2>1. T = S \cup {r} /\ r \notin S
    BY <1>1, <1>3, <1>4, <1>5, <1>7
  <2> QED
    BY <1>2, <2>1, Count
<1>8. ASSUME at[r] = w, pc[r] \in P, p \notin P
      PROVE  Cardinality(T) = Cardinality(S) - 1
  <2>1. T = S \ {r} /\ r \in S
    BY <1>1, <1>3, <1>4, <1>5, <1>8
  <2> QED
    BY <1>2, <2>1, Count
<1> QED
  BY <1>2, <1>6, <1>7, <1>8 DEF S, T

-----------------------------------------------------------------------------
(* Types.                                                                  *)

Placed == RedisTypeOK /\ StepsInPlace

\* What a call to Redis does, if it does anything.
Called(r) == INCR(r) \/ DECR(r) \/ EXPIRE \/ DELETE \/ UNCHANGED redisVars

\* A deletion forgets as many requests as there are.
LEMMA DeleteType ==
  ASSUME RedisTypeOK, DELETE
  PROVE  /\ conc' = 0 /\ exists' \in BOOLEAN /\ expires' \in BOOLEAN
         /\ forgotten' \in Nat /\ forgotten' >= forgotten
         /\ forgotten' >= Cardinality(InCounter)
         /\ counted' = counted
<1>1. InCounter \in SUBSET Caller
  BY DEF InCounter
<1>2. Cardinality(InCounter) \in Nat /\ forgotten \in Nat
  BY <1>1, CallersFinite DEF RedisTypeOK
<1>3. /\ forgotten' = IF Cardinality(InCounter) > forgotten THEN Cardinality(InCounter)
                                                         ELSE forgotten
      /\ conc' = 0 /\ exists' = FALSE /\ expires' = FALSE /\ counted' = counted
  BY DEF DELETE
<1>4. exists' \in BOOLEAN /\ expires' \in BOOLEAN
  BY <1>3, Zenon
<1> QED
  BY <1>2, <1>3, <1>4

\* Each call leaves the counter in Redis well typed, and changes what is counted
\* for its own request alone.
LEMMA CallType ==
  ASSUME RedisTypeOK, NEW r \in Caller, Called(r)
  PROVE  /\ conc' \in Int /\ exists' \in BOOLEAN /\ expires' \in BOOLEAN
         /\ counted' \in [Caller -> BOOLEAN]
         /\ forgotten' \in Nat /\ forgotten' >= forgotten
         /\ \A q \in Caller : q # r => counted'[q] = counted[q]
<1>1. /\ conc \in Int /\ exists \in BOOLEAN /\ expires \in BOOLEAN
      /\ counted \in [Caller -> BOOLEAN] /\ forgotten \in Nat
  BY DEF RedisTypeOK
<1>2. CASE INCR(r)
  BY <1>1, <1>2 DEF INCR
<1>3. CASE DECR(r)
  BY <1>1, <1>3 DEF DECR
<1>4. CASE EXPIRE
  BY <1>1, <1>4 DEF EXPIRE
<1>5. CASE DELETE
  BY <1>1, <1>5, DeleteType
<1>6. CASE UNCHANGED redisVars
  BY <1>1, <1>6 DEF redisVars
<1> QED
  BY <1>2, <1>3, <1>4, <1>5, <1>6 DEF Called

\* The initial state is well typed.
LEMMA PlacedInit == RedisInit => Placed
<1> SUFFICES ASSUME RedisInit PROVE Placed
  OBVIOUS
<1>1. limit \in Nat
  BY RedisAssumption DEF RedisInit
<1>2. RedisTypeOK
  <2>1. "idle" \in PC /\ 0 \in 0..limit /\ 0 \in 0..MaxMishaps
    BY <1>1, RedisAssumption DEF PC
  <2>2. /\ exists \in BOOLEAN /\ expires \in BOOLEAN
        /\ healthy \in [Worker -> BOOLEAN] /\ counted \in [Caller -> BOOLEAN]
    BY Zenon DEF RedisInit
  <2>3. /\ local \in [Worker -> 0..limit] /\ read \in [Caller -> 0..limit]
        /\ overtaken \in [Caller -> 0..MaxMishaps] /\ slips \in [Worker -> Nat]
        /\ pc \in [Caller -> PC] /\ mishaps \in 0..MaxMishaps
        /\ conc \in Int /\ forgotten \in Nat
    BY <2>1 DEF RedisInit
  <2> QED
    BY <2>2, <2>3 DEF RedisInit, RedisTypeOK
<1> QED
  BY <1>2 DEF RedisInit, Placed, StepsInPlace

\* The parts of the state that every step of a request leaves typed.
LEMMA RedisStepType ==
  ASSUME Placed, NEW r \in Caller, RedisStep(r)
  PROVE  Placed'
<1> USE DEF Placed, PC, Acquiring, Calling, Leaving, Goes
<1>0. pc \in [Caller -> PC] /\ counted \in [Caller -> BOOLEAN]
  BY DEF RedisTypeOK
<1>1. CASE TurnToRedis(r)
  BY <1>0, <1>1 DEF TurnToRedis, RedisTypeOK, StepsInPlace, redisVars, localVars, given
<1>2. CASE Take(r)
  <2>1. Called(r) /\ counted' = [counted EXCEPT ![r] = TRUE]
    BY <1>2 DEF Take, Called, INCR
  <2>2. /\ pc' = [pc EXCEPT ![r] = pc'[r]] /\ pc'[r] \in {"undo", "arm"}
        /\ UNCHANGED <<healthy, localVars, given, mishaps>>
    BY <1>0, <1>2 DEF Take
  <2> QED
    BY <1>0, <2>1, <2>2, CallType DEF RedisTypeOK, StepsInPlace, localVars, given
<1>3. CASE Undo(r) \/ Leave(r)
  <2>1. Called(r) /\ counted' = [counted EXCEPT ![r] = FALSE]
    BY <1>3 DEF Undo, Leave, Called, DECR
  <2>2. /\ pc' = [pc EXCEPT ![r] = pc'[r]] /\ pc'[r] \in {"idle", "delete"}
        /\ UNCHANGED <<healthy, localVars, given, mishaps>>
    BY <1>0, <1>3 DEF Undo, Leave
  <2> QED
    BY <1>0, <2>1, <2>2, CallType DEF RedisTypeOK, StepsInPlace, localVars, given
<1>4. CASE Arm(r) \/ Delete(r)
  <2>1. Called(r) /\ counted' = counted
    BY <1>4 DEF Arm, Delete, Called, EXPIRE, DELETE
  <2>2. /\ pc' = [pc EXCEPT ![r] = pc'[r]]
        /\ \/ pc[r] = "arm" /\ pc'[r] = "holding"
           \/ pc[r] = "delete" /\ pc'[r] = "idle"
        /\ UNCHANGED <<healthy, localVars, given, mishaps>>
    BY <1>0, <1>4 DEF Arm, Delete
  <2> QED
    BY <1>0, <2>1, <2>2, CallType DEF RedisTypeOK, StepsInPlace, localVars, given
<1> QED
  BY <1>1, <1>2, <1>3, <1>4 DEF RedisStep

\* The steps of the fallback limiter.
LEMMA LocalStepType ==
  ASSUME Placed, NEW r \in Caller, LocalStep(r)
  PROVE  Placed'
<1> USE DEF Placed, PC, Acquiring, Calling, Leaving, Goes
<1>0. /\ pc \in [Caller -> PC] /\ counted \in [Caller -> BOOLEAN]
      /\ local \in [Worker -> 0..limit] /\ read \in [Caller -> 0..limit]
      /\ at \in [Caller -> Worker] /\ limit \in Nat
      /\ overtaken \in [Caller -> 0..MaxMishaps] /\ slips \in [Worker -> Nat]
      /\ mishaps \in 0..MaxMishaps /\ MaxMishaps \in Nat
  BY RedisAssumption DEF RedisTypeOK
<1>1. CASE RefuseLocal(r)
  BY <1>0, <1>1 DEF RefuseLocal, RedisTypeOK, StepsInPlace, localVars, given
<1>2. CASE ReadToTake(r) \/ ReadToGive(r)
  <2>1. /\ pc' = [pc EXCEPT ![r] = pc'[r]]
        /\ read' = [read EXCEPT ![r] = local[at[r]]]
        /\ \/ pc'[r] = "taking" /\ local[at[r]] < limit
           \/ pc'[r] = "giving"
        /\ UNCHANGED <<redisVars, healthy, local, overtaken, slips, given, mishaps>>
    BY <1>0, <1>2 DEF ReadToTake, ReadToGive, ReadsLocal
  <2>2. read' \in [Caller -> 0..limit]
    BY <1>0, <2>1
  <2> QED
    BY <1>0, <2>1, <2>2 DEF RedisTypeOK, StepsInPlace, redisVars, given
<1>3. ASSUME NEW n \in 0..limit, NEW p \in {"holdingLocal", "idle"}, WritesLocal(r, n, p)
      PROVE  Placed'
  <2>1. /\ pc' = [pc EXCEPT ![r] = p] /\ local' = [local EXCEPT ![at[r]] = n]
        /\ read' = [read EXCEPT ![r] = 0]
        /\ counted' = [counted EXCEPT ![r] = @ /\ p # "idle"]
        /\ UNCHANGED <<conc, exists, expires, forgotten, healthy, given>>
        /\ mishaps' = mishaps + overtaken[r] /\ mishaps' <= MaxMishaps
        /\ slips' = [slips EXCEPT ![at[r]] = @ + overtaken[r]]
    BY <1>3 DEF WritesLocal
  <2>2. overtaken' \in [Caller -> 0..MaxMishaps]
    <3>1. ASSUME NEW q \in Caller
          PROVE  overtaken'[q] \in 0..MaxMishaps
      <4>1. overtaken'[q] <= MaxMishaps
        BY <1>3 DEF WritesLocal
      <4>2. overtaken'[q] \in {0, overtaken[q] + 1, overtaken[q]}
        BY <1>3 DEF WritesLocal
      <4>3. overtaken[q] \in Nat
        BY <1>0
      <4> QED
        BY <1>0, <4>1, <4>2, <4>3
    <3>2. overtaken' = [q \in Caller |-> overtaken'[q]]
      BY <1>3 DEF WritesLocal
    <3> QED
      BY <3>1, <3>2
  <2>3. mishaps' \in 0..MaxMishaps
    <3>1. overtaken[r] \in Nat
      BY <1>0
    <3> QED
      BY <1>0, <2>1, <3>1
  <2>4. slips' \in [Worker -> Nat] /\ local' \in [Worker -> 0..limit]
        /\ read' \in [Caller -> 0..limit] /\ pc' \in [Caller -> PC]
        /\ counted' \in [Caller -> BOOLEAN]
    <3>1. slips[at[r]] + overtaken[r] \in Nat
      BY <1>0
    <3> QED
      BY <1>0, <2>1, <3>1
  <2>5. RedisTypeOK'
    BY <2>1, <2>2, <2>3, <2>4 DEF RedisTypeOK, given
  <2>6. StepsInPlace'
    BY <1>0, <2>1 DEF StepsInPlace, given
  <2> QED
    BY <2>5, <2>6
<1>4. CASE WriteTaken(r)
  <2>1. read[r] + 1 \in 0..limit
    <3>1. read[r] \in 0..limit /\ read[r] < limit
      BY <1>0, <1>4 DEF WriteTaken, StepsInPlace
    <3> QED
      BY <1>0, <3>1
  <2> QED
    BY <1>3, <1>4, <2>1 DEF WriteTaken
<1>5. CASE WriteGiven(r)
  <2> DEFINE n == IF read[r] > 1 THEN read[r] - 1 ELSE 0
  <2>1. n \in 0..limit
    <3>1. read[r] \in 0..limit
      BY <1>0
    <3> QED
      BY <1>0, <3>1
  <2>2. WritesLocal(r, n, "idle")
    BY <1>5, Zenon DEF WriteGiven
  <2> HIDE DEF n
  <2> QED
    BY <1>3, <2>1, <2>2
<1> QED
  BY <1>1, <1>2, <1>4, <1>5 DEF LocalStep

\* A call that fails.
LEMMA FailType ==
  ASSUME Placed, NEW r \in Caller, Fail(r)
  PROVE  /\ Placed'
         /\ Called(r)
         /\ pc' = [pc EXCEPT ![r] = pc'[r]]
         /\ \/ pc[r] \in Calling /\ pc'[r] = "turned"
            \/ pc[r] \in {"decr", "delete"} /\ pc'[r] = "returned"
<1> USE DEF Placed, PC, Acquiring, Calling, Leaving, Goes
<1>0. pc \in [Caller -> PC]
  BY DEF RedisTypeOK
<1>1. /\ pc' = [pc EXCEPT ![r] = pc'[r]]
      /\ \/ pc[r] \in Calling /\ pc'[r] = "turned"
         \/ pc[r] \in {"decr", "delete"} /\ pc'[r] = "returned"
  BY <1>0 DEF Fail
<1>2. Called(r)
  BY DEF Fail, Called
<1>3. /\ healthy' \in [Worker -> BOOLEAN] /\ slips' \in [Worker -> Nat]
      /\ mishaps' \in 0..MaxMishaps
  <2>1. healthy' \in [Worker -> BOOLEAN]
    BY DEF Fail, RedisTypeOK
  <2>2. slips' \in [Worker -> Nat]
    BY DEF Fail, RedisTypeOK
  <2>3. mishaps' \in 0..MaxMishaps
    BY RedisAssumption DEF Fail, RedisTypeOK
  <2> QED
    BY <2>1, <2>2, <2>3
<1>4. UNCHANGED <<local, read, overtaken, given>>
  BY DEF Fail
<1>5. RedisTypeOK'
  BY <1>0, <1>1, <1>2, <1>3, <1>4, CallType DEF RedisTypeOK, given
<1>6. StepsInPlace'
  BY <1>0, <1>1, <1>2, <1>4, CallType DEF StepsInPlace, given
<1> QED
  BY <1>1, <1>2, <1>5, <1>6

\* A worker that is killed.
LEMMA KillType ==
  ASSUME Placed, NEW w \in Worker, Kill(w)
  PROVE  /\ Placed'
         /\ UNCHANGED <<conc, forgotten, at, limit>>
         /\ \A q \in Caller : pc'[q] = IF at[q] = w THEN "idle" ELSE pc[q]
         /\ \A q \in Caller : counted'[q] = (counted[q] /\ at[q] # w)
<1> USE DEF Placed, PC, Acquiring, Calling, Leaving
<1>1. /\ pc' = [r \in Caller |-> IF at[r] = w THEN "idle" ELSE pc[r]]
      /\ read' = [r \in Caller |-> IF at[r] = w THEN 0 ELSE read[r]]
      /\ overtaken' = [r \in Caller |-> IF at[r] = w THEN 0 ELSE overtaken[r]]
      /\ counted' = [r \in Caller |-> counted[r] /\ ~(at[r] = w)]
      /\ healthy' = [healthy EXCEPT ![w] = TRUE]
      /\ local' = [local EXCEPT ![w] = 0]
      /\ slips' = [slips EXCEPT ![w] = 0]
      /\ mishaps' = mishaps + 1 /\ mishaps < MaxMishaps
      /\ UNCHANGED <<conc, exists, expires, forgotten, given>>
  BY DEF Kill
<1>2. limit \in Nat /\ MaxMishaps \in Nat
  BY RedisAssumption DEF RedisTypeOK
<1>3. RedisTypeOK'
  BY <1>1, <1>2 DEF RedisTypeOK, given
<1>4. StepsInPlace'
  BY <1>1 DEF RedisTypeOK, StepsInPlace, given
<1> QED
  BY <1>1, <1>3, <1>4 DEF given

\* Every step keeps the state well typed, and the requests in their places.
LEMMA PlacedStep == Placed /\ [RedisNext]_limiterVars => Placed'
<1> SUFFICES ASSUME Placed, [RedisNext]_limiterVars
             PROVE  Placed'
  OBVIOUS
<1>1. CASE HourEnds
  <2>1. DELETE /\ UNCHANGED <<healthy, localVars, given, pc, mishaps>>
    BY <1>1 DEF HourEnds
  <2> QED
    BY <2>1, DeleteType DEF Placed, RedisTypeOK, StepsInPlace, localVars, given
<1>2. CASE UNCHANGED limiterVars
  BY <1>2 DEF limiterVars, redisVars, localVars, given, Placed, RedisTypeOK, StepsInPlace
<1> QED
  BY <1>1, <1>2, RedisStepType, LocalStepType, FailType, KillType DEF RedisNext

\* The state is well typed: in particular a worker's own counter stays between
\* zero and the limit, whatever its Redis does and whichever of its changes are
\* overwritten.
THEOREM RedisTypeCorrect == RedisSpec => []RedisTypeOK
<1>1. Placed => RedisTypeOK
  BY DEF Placed
<1> QED
  BY PlacedInit, PlacedStep, <1>1, PTL DEF RedisSpec

-----------------------------------------------------------------------------
(* The shared counter.                                                     *)

\* The requests counted in Redis are those it counted before, and the one that
\* moves or not.
LEMMA CountedMoves ==
  ASSUME NEW r \in Caller, NEW b \in BOOLEAN, RedisTypeOK,
         counted'[r] = b, \A q \in Caller : q # r => counted'[q] = counted[q]
  PROVE  /\ Cardinality(InCounter) \in Nat /\ Cardinality(InCounter') \in Nat
         /\ counted[r] /\ b => Cardinality(InCounter') = Cardinality(InCounter)
         /\ ~counted[r] /\ ~b => Cardinality(InCounter') = Cardinality(InCounter)
         /\ ~counted[r] /\ b => Cardinality(InCounter') = Cardinality(InCounter) + 1
         /\ counted[r] /\ ~b => Cardinality(InCounter') = Cardinality(InCounter) - 1
<1> DEFINE S == InCounter
           T == InCounter'
<1>1. S \in SUBSET Caller /\ T \in SUBSET Caller
  BY DEF InCounter
<1>2. IsFiniteSet(S) /\ Cardinality(S) \in Nat /\ Cardinality(T) \in Nat
  BY <1>1, CallersFinite
<1>3. /\ \A q \in Caller : (q \in S <=> counted[q]) /\ (q \in T <=> counted'[q])
  BY DEF InCounter
<1> HIDE DEF S, T
<1>4. (counted[r] <=> b) => T = S
  BY <1>1, <1>3
<1>5. ~counted[r] /\ b => T = S \cup {r} /\ r \notin S
  BY <1>1, <1>3
<1>6. counted[r] /\ ~b => T = S \ {r} /\ r \in S
  BY <1>1, <1>3
<1> QED
  BY <1>2, <1>4, <1>5, <1>6, Count DEF S, T

\* The invariant holds initially: nobody is counted.
LEMMA SharedInit == RedisInit => SharedInv
<1> SUFFICES ASSUME RedisInit PROVE SharedInv
  OBVIOUS
<1>1. InCounter = {}
  BY DEF RedisInit, InCounter
<1>2. conc <= Cardinality(InCounter)
  BY <1>1, FS_EmptySet DEF RedisInit
<1>3. (\A w \in Worker : healthy[w]) /\ (\A r \in Caller : pc[r] = "idle")
  BY DEF RedisInit
<1> QED
  BY <1>2, <1>3, PlacedInit DEF SharedInv, Placed, InRedis

\* Before the first mishap each call changes the counter no further up than the
\* requests it stands for.
LEMMA CallsKeep ==
  ASSUME Placed, InRedis, mishaps = 0, NEW r \in Caller, RedisStep(r)
  PROVE  conc' <= Cardinality(InCounter') /\ UNCHANGED healthy
<1>0. /\ conc \in Int /\ conc <= Cardinality(InCounter) /\ counted \in [Caller -> BOOLEAN]
      /\ RedisTypeOK
  BY DEF Placed, InRedis, RedisTypeOK
<1>1. CASE TurnToRedis(r) \/ Arm(r)
  <2>1. UNCHANGED <<conc, counted, healthy>>
    BY <1>1 DEF TurnToRedis, Arm, EXPIRE, redisVars
  <2> QED
    BY <1>0, <2>1 DEF InCounter
<1>2. CASE Take(r)
  <2>1. /\ conc' = conc + 1 /\ counted' = [counted EXCEPT ![r] = TRUE]
        /\ ~counted[r] /\ UNCHANGED healthy
    BY <1>2 DEF Take, INCR, Placed, StepsInPlace
  <2>2. Cardinality(InCounter) \in Nat /\ Cardinality(InCounter') = Cardinality(InCounter) + 1
    BY <1>0, <2>1, CountedMoves
  <2> QED
    BY <1>0, <2>1, <2>2
<1>3. CASE Undo(r) \/ Leave(r)
  <2>1. /\ conc' = conc - 1 /\ counted' = [counted EXCEPT ![r] = FALSE]
        /\ counted[r] /\ UNCHANGED healthy
    BY <1>3 DEF Undo, Leave, DECR, Placed, StepsInPlace
  <2>2. Cardinality(InCounter) \in Nat /\ Cardinality(InCounter') = Cardinality(InCounter) - 1
    BY <1>0, <2>1, CountedMoves
  <2> QED
    BY <1>0, <2>1, <2>2
<1>4. CASE Delete(r)
  <2>1. conc' = 0 /\ UNCHANGED <<counted, healthy>>
    BY <1>4 DEF Delete, DELETE
  <2>2. InCounter' \in SUBSET Caller
    BY DEF InCounter
  <2>3. Cardinality(InCounter') \in Nat
    BY <2>2, CallersFinite
  <2> QED
    BY <2>1, <2>3
<1> QED
  BY <1>1, <1>2, <1>3, <1>4 DEF RedisStep

\* No step breaks the invariant: a failed call and a crash are the first mishap,
\* and nothing else turns a request to a worker's own counter.
LEMMA SharedStep == SharedInv /\ [RedisNext]_limiterVars => SharedInv'
<1> SUFFICES ASSUME SharedInv, [RedisNext]_limiterVars, mishaps' = 0
             PROVE  InRedis'
  BY PlacedStep DEF SharedInv, Placed, InRedis
<1> USE DEF InRedis
<1>0. Placed /\ InRedis /\ mishaps \in Nat /\ pc \in [Caller -> PC]
      /\ at \in [Caller -> Worker] /\ overtaken \in [Caller -> 0..MaxMishaps]
  BY RedisAssumption DEF SharedInv, Placed, RedisTypeOK
<1>1. ASSUME NEW r \in Caller, RedisStep(r)
      PROVE  InRedis'
  <2>1. mishaps = 0
    BY <1>1 DEF RedisStep, TurnToRedis, Take, Undo, Arm, Leave, Delete
  <2>2. conc' <= Cardinality(InCounter') /\ healthy' = healthy
    BY <1>0, <1>1, <2>1, CallsKeep
  <2>3. /\ pc' = [pc EXCEPT ![r] = pc'[r]]
        /\ pc'[r] \in {"incr", "undo", "arm", "holding", "decr", "delete", "idle"}
    BY <1>0, <1>1 DEF RedisStep, TurnToRedis, Take, Undo, Arm, Leave, Delete, Goes
  <2> QED
    BY <1>0, <2>1, <2>2, <2>3
<1>2. ASSUME NEW r \in Caller, LocalStep(r)
      PROVE  FALSE
  <2>1. mishaps = 0
    <3>1. mishaps' = mishaps \/ mishaps' = mishaps + overtaken[r]
      BY <1>2 DEF LocalStep, RefuseLocal, ReadToTake, ReadToGive, ReadsLocal, WriteTaken,
         WriteGiven, WritesLocal
    <3>2. overtaken[r] \in Nat
      BY <1>0
    <3> QED
      BY <1>0, <3>1, <3>2
  <2>2. /\ healthy[at[r]]
        /\ pc[r] \in {"idle", "incr", "undo", "arm", "holding", "decr", "delete"}
    BY <1>0, <2>1
  <2> QED
    BY <1>2, <2>2 DEF LocalStep, RefuseLocal, ReadToTake, ReadToGive, Turned, Returned,
       WriteTaken, WriteGiven
<1>3. ASSUME NEW r \in Caller, Fail(r)
      PROVE  FALSE
  BY <1>0, <1>3 DEF Fail
<1>4. ASSUME NEW w \in Worker, Kill(w)
      PROVE  FALSE
  BY <1>0, <1>4 DEF Kill
<1>5. CASE HourEnds
  <2>1. DELETE /\ UNCHANGED <<healthy, pc, mishaps>>
    BY <1>5 DEF HourEnds
  <2>2. InCounter' \in SUBSET Caller
    BY DEF InCounter
  <2>3. Cardinality(InCounter') \in Nat
    BY <2>2, CallersFinite
  <2> QED
    BY <1>0, <2>1, <2>3 DEF DELETE
<1>6. CASE UNCHANGED limiterVars
  BY <1>0, <1>6 DEF limiterVars, redisVars, InCounter
<1> QED
  BY <1>1, <1>2, <1>3, <1>4, <1>5, <1>6 DEF RedisNext

\* Until a call fails or a worker is killed, the shared counter never exceeds the
\* requests it stands for, in any interleaving of any number of workers, for
\* requests of any length, with releases on pool threads: no slot of the key is
\* lost for good (rate_limit.py:216-253).
THEOREM SharedCounterKeepsSlots == RedisSpec => []NoLostSlot
<1>1. SharedInv => NoLostSlot
  BY DEF SharedInv, InRedis, NoLostSlot
<1> QED
  BY SharedInit, SharedStep, <1>1, PTL DEF RedisSpec

-----------------------------------------------------------------------------
(* The workers' own counters.                                              *)

InHand == {"holdingLocal", "giving"}

\* The requests a worker's own counter stands for.
LEMMA LocalHoldersAre ==
  \A w : LocalHolders(w) = AtPlaces(w, InHand)
BY DEF LocalHolders, AtPlaces, InHand

\* The facts that each step of a request starts from.
LEMMA LocalTypes ==
  ASSUME Placed, NEW r \in Caller
  PROVE  /\ at[r] \in Worker /\ pc \in [Caller -> PC]
         /\ local \in [Worker -> Nat] /\ read \in [Caller -> Nat]
         /\ overtaken \in [Caller -> Nat] /\ slips \in [Worker -> Nat]
         /\ limit \in Nat
<1>1. limit \in Nat
  BY RedisAssumption DEF Placed, RedisTypeOK
<1> QED
  BY <1>1 DEF Placed, RedisTypeOK

\* What the writes of the fallback limiter do to what is read of it.
LEMMA WritesShape ==
  ASSUME Placed, NEW r \in Caller, LocalStep(r), pc[r] \in {"taking", "giving"}
  PROVE  /\ \/ /\ pc[r] = "taking" /\ Goes(r, "holdingLocal")
               /\ local' = [local EXCEPT ![at[r]] = read[r] + 1]
            \/ /\ pc[r] = "giving" /\ Goes(r, "idle")
               /\ local' = [local EXCEPT ![at[r]] = IF read[r] > 1 THEN read[r] - 1 ELSE 0]
         /\ slips' = [slips EXCEPT ![at[r]] = @ + overtaken[r]]
         /\ \A q \in Caller : q # r /\ at[q] = at[r] /\ pc[q] \in {"taking", "giving"} =>
              read'[q] = read[q] /\ overtaken'[q] = overtaken[q] + 1
         /\ \A q \in Caller : at[q] # at[r] =>
              read'[q] = read[q] /\ overtaken'[q] = overtaken[q]
         /\ UNCHANGED <<conc, forgotten, at, limit, healthy>>
<1>0. read \in [Caller -> Nat]
  BY LocalTypes
<1>1. /\ WriteTaken(r) \/ WriteGiven(r)
  BY DEF LocalStep, RefuseLocal, ReadToTake, ReadToGive, Turned, Returned
<1>2. CASE WriteTaken(r)
  BY <1>0, <1>2 DEF WriteTaken, WritesLocal, given
<1>3. CASE WriteGiven(r)
  BY <1>0, <1>3 DEF WriteGiven, WritesLocal, given
<1> QED
  BY <1>1, <1>2, <1>3

\* What the other steps of the fallback limiter do.
LEMMA ReadsShape ==
  ASSUME Placed, NEW r \in Caller, LocalStep(r), pc[r] \notin {"taking", "giving"}
  PROVE  /\ \/ /\ pc[r] \in {"idle", "turned"} /\ Goes(r, "idle")
               /\ read'[r] = read[r]
               /\ \A q \in Caller : counted'[q] => counted[q]
               /\ \A q \in Caller : q # r => counted'[q] = counted[q]
            \/ /\ pc[r] \in {"idle", "turned"} /\ Goes(r, "taking")
               /\ read'[r] = local[at[r]] /\ counted' = counted
               /\ pc[r] = "idle" => ~healthy[at[r]] /\ LoopFree(r)
            \/ /\ pc[r] \in {"returned", "holding", "holdingLocal"} /\ Goes(r, "giving")
               /\ read'[r] = local[at[r]] /\ counted' = counted
               /\ pc[r] # "returned" => ~healthy[at[r]]
         /\ \A q \in Caller : q # r => read'[q] = read[q]
         /\ UNCHANGED <<conc, forgotten, at, limit, healthy, local, overtaken, slips>>
<1>0. read \in [Caller -> Nat] /\ counted \in [Caller -> BOOLEAN]
  BY LocalTypes DEF Placed, RedisTypeOK
<1>1. CASE RefuseLocal(r)
  BY <1>0, <1>1 DEF RefuseLocal, Turned, localVars, given
<1>2. CASE ReadToTake(r)
  BY <1>0, <1>2 DEF ReadToTake, Turned, ReadsLocal, redisVars, given
<1>3. CASE ReadToGive(r)
  BY <1>0, <1>3 DEF ReadToGive, Returned, ReadsLocal, redisVars, given
<1> QED
  BY <1>1, <1>2, <1>3 DEF LocalStep, WriteTaken, WriteGiven

\* A step of a request in Redis leaves the workers' own counters alone.
LEMMA RedisShape ==
  ASSUME Placed, NEW r \in Caller, RedisStep(r) \/ Fail(r)
  PROVE  /\ Goes(r, pc'[r])
         /\ pc[r] \in {"idle", "incr", "undo", "arm", "holding", "decr", "delete"}
         /\ pc'[r] \in PC \ {"taking", "giving", "holdingLocal"}
         /\ UNCHANGED <<at, limit, local, read, overtaken>>
         /\ slips' = [slips EXCEPT ![at[r]] = slips'[at[r]]]
         /\ slips'[at[r]] \in Nat /\ slips'[at[r]] >= slips[at[r]]
<1>0. pc \in [Caller -> PC] /\ slips \in [Worker -> Nat] /\ at[r] \in Worker
  BY LocalTypes
<1>1. CASE RedisStep(r)
  <2>1. /\ Goes(r, pc'[r])
        /\ pc[r] \in {"idle", "incr", "undo", "arm", "holding", "decr", "delete"}
        /\ pc'[r] \in PC \ {"taking", "giving", "holdingLocal"}
        /\ UNCHANGED <<given, localVars>>
    BY <1>0, <1>1 DEF RedisStep, TurnToRedis, Take, Undo, Arm, Leave, Delete, Goes, PC,
       Acquiring, Calling, Leaving
  <2> QED
    BY <1>0, <2>1 DEF given, localVars
<1>2. CASE Fail(r)
  <2>1. /\ Goes(r, pc'[r])
        /\ pc[r] \in {"idle", "incr", "undo", "arm", "holding", "decr", "delete"}
        /\ pc'[r] \in PC \ {"taking", "giving", "holdingLocal"}
    BY <1>0, <1>2, FailType DEF Goes, PC, Acquiring, Calling, Leaving
  <2>2. UNCHANGED <<given, local, read, overtaken>>
    BY <1>2 DEF Fail
  <2>3. \/ slips' = [slips EXCEPT ![at[r]] = @ + 1]
        \/ slips' = slips
    BY <1>0, <1>2 DEF Fail
  <2> QED
    BY <1>0, <2>1, <2>2, <2>3 DEF given
<1> QED
  BY <1>1, <1>2

\* Initially the workers' own counters are zero.
LEMMA LocalInit == RedisInit => LocalInv
<1> SUFFICES ASSUME RedisInit PROVE LocalInv
  OBVIOUS
<1>1. ASSUME NEW w \in Worker
      PROVE  local[w] <= Cardinality(LocalHolders(w)) + slips[w]
  <2>1. LocalHolders(w) \in SUBSET Caller
    BY DEF LocalHolders
  <2>2. Cardinality(LocalHolders(w)) \in Nat
    BY <2>1, CallersFinite
  <2> QED
    BY <2>2 DEF RedisInit
<1> QED
  BY <1>1 DEF LocalInv, LocalNoLostSlot, LocalReads, RedisInit

\* A step of one request, seen from its worker: the counter and what is read of it
\* stay as near to the requests.
LEMMA LocalMoves ==
  ASSUME Placed, LocalInv, NEW r \in Caller, RedisStep(r) \/ LocalStep(r) \/ Fail(r)
  PROVE  LocalInv'
<1> DEFINE h(w) == Cardinality(AtPlaces(w, InHand))
           hh(w) == Cardinality({q \in Caller : at'[q] = w /\ pc'[q] \in InHand})
<1>0. /\ at \in [Caller -> Worker] /\ pc \in [Caller -> PC]
      /\ local \in [Worker -> Nat] /\ read \in [Caller -> Nat]
      /\ overtaken \in [Caller -> Nat] /\ slips \in [Worker -> Nat]
      /\ \A q \in Caller : at[q] \in Worker /\ read[q] \in Nat /\ overtaken[q] \in Nat
      /\ \A w \in Worker : local[w] \in Nat /\ slips[w] \in Nat
  BY LocalTypes DEF Placed, RedisTypeOK
<1>1. /\ \A w \in Worker : local[w] <= h(w) + slips[w]
      /\ \A q \in Caller : pc[q] \in {"taking", "giving"} =>
           read[q] <= h(at[q]) + slips[at[q]] + overtaken[q]
  BY LocalHoldersAre DEF LocalInv, LocalNoLostSlot, LocalReads
<1>2. SUFFICES
        /\ \A w \in Worker : local'[w] <= hh(w) + slips'[w]
        /\ \A q \in Caller : pc'[q] \in {"taking", "giving"} =>
             read'[q] <= hh(at'[q]) + slips'[at'[q]] + overtaken'[q]
  BY DEF LocalInv, LocalNoLostSlot, LocalReads, LocalHolders, InHand
<1>3. ASSUME NEW p, Goes(r, p), at' = at
      PROVE  /\ \A w \in Worker : h(w) \in Nat /\ hh(w) \in Nat
             /\ \A w \in Worker : w # at[r] => hh(w) = h(w)
             /\ (pc[r] \in InHand <=> p \in InHand) => hh(at[r]) = h(at[r])
             /\ pc[r] \notin InHand /\ p \in InHand => hh(at[r]) = h(at[r]) + 1
             /\ pc[r] \in InHand /\ p \notin InHand => hh(at[r]) = h(at[r]) - 1
             /\ \A q \in Caller : pc'[q] = IF q = r THEN p ELSE pc[q]
  <2>1. RedisTypeOK
    BY DEF Placed
  <2>2. ASSUME NEW w \in Worker
        PROVE  /\ h(w) \in Nat /\ hh(w) \in Nat
               /\ at[r] # w \/ (pc[r] \in InHand <=> p \in InHand) => hh(w) = h(w)
               /\ at[r] = w /\ pc[r] \notin InHand /\ p \in InHand => hh(w) = h(w) + 1
               /\ at[r] = w /\ pc[r] \in InHand /\ p \notin InHand => hh(w) = h(w) - 1
    <3>1. hh(w) = Cardinality(AtPlaces(w, InHand)')
      BY DEF AtPlaces
    <3> HIDE DEF hh
    <3> QED
      BY <1>3, <2>1, <3>1, PlacesMove
  <2> HIDE DEF h, hh
  <2> QED
    BY <1>0, <1>3, <2>2 DEF Goes
<1> HIDE DEF h, hh
<1> USE DEF InHand
<1>4. CASE RedisStep(r) \/ Fail(r)
  <2>1. /\ Goes(r, pc'[r])
        /\ pc[r] \in {"idle", "incr", "undo", "arm", "holding", "decr", "delete"}
        /\ pc'[r] \in PC \ {"taking", "giving", "holdingLocal"}
        /\ UNCHANGED <<at, local, read, overtaken>>
        /\ slips' = [slips EXCEPT ![at[r]] = slips'[at[r]]]
        /\ slips'[at[r]] \in Nat /\ slips'[at[r]] >= slips[at[r]]
    BY <1>4, RedisShape
  <2>2. \A w \in Worker : hh(w) = h(w) /\ h(w) \in Nat
    BY <1>3, <2>1
  <2>3. \A w \in Worker : slips'[w] \in Nat /\ slips'[w] >= slips[w]
    BY <1>0, <2>1
  <2>4. \A q \in Caller : pc'[q] \in {"taking", "giving"} => pc[q] = pc'[q]
    BY <1>3, <2>1
  <2> QED
    BY <1>0, <1>1, <2>1, <2>2, <2>3, <2>4
<1>5. CASE LocalStep(r) /\ pc[r] \notin {"taking", "giving"}
  <2>1. UNCHANGED <<at, local, overtaken, slips>>
    BY <1>5, ReadsShape
  <2>2. PICK p : /\ Goes(r, p)
                 /\ \/ p = "idle" /\ pc[r] \in {"idle", "turned"}
                    \/ /\ \/ p = "taking" /\ pc[r] \in {"idle", "turned"}
                          \/ p = "giving" /\ pc[r] \in {"returned", "holding", "holdingLocal"}
                       /\ read'[r] = local[at[r]]
                 /\ \A q \in Caller : q # r => read'[q] = read[q]
    BY <1>5, ReadsShape
  <2>3. /\ \A w \in Worker : hh(w) >= h(w) /\ h(w) \in Nat /\ hh(w) \in Nat
        /\ \A q \in Caller : pc'[q] = IF q = r THEN p ELSE pc[q]
    BY <1>0, <1>3, <2>1, <2>2
  <2>4. \A w \in Worker : local'[w] <= hh(w) + slips'[w]
    BY <1>0, <1>1, <2>1, <2>3
  <2>5. ASSUME NEW q \in Caller, pc'[q] \in {"taking", "giving"}
        PROVE  read'[q] <= hh(at'[q]) + slips'[at'[q]] + overtaken'[q]
    <3>1. CASE q = r
      <4>1. read'[q] = local'[at[q]] /\ overtaken'[q] \in Nat
        BY <1>0, <2>1, <2>2, <2>3, <2>5, <3>1
      <4> QED
        BY <1>0, <2>1, <2>3, <2>4, <4>1
    <3>2. CASE q # r
      BY <1>0, <1>1, <2>1, <2>2, <2>3, <2>5, <3>2
    <3> QED
      BY <3>1, <3>2
  <2> QED
    BY <2>4, <2>5
<1>6. CASE LocalStep(r) /\ pc[r] \in {"taking", "giving"}
  <2> DEFINE n == local'[at[r]]
  <2>1. /\ \/ pc[r] = "taking" /\ Goes(r, "holdingLocal") /\ n = read[r] + 1
           \/ /\ pc[r] = "giving" /\ Goes(r, "idle")
              /\ n = IF read[r] > 1 THEN read[r] - 1 ELSE 0
        /\ \A w \in Worker : w # at[r] => local'[w] = local[w]
    BY <1>0, <1>6, WritesShape
  <2>2. /\ at' = at
        /\ slips'[at[r]] = slips[at[r]] + overtaken[r]
        /\ \A w \in Worker : w # at[r] => slips'[w] = slips[w]
    BY <1>0, <1>6, WritesShape
  <2>3. /\ \A q \in Caller : q # r /\ at[q] = at[r] /\ pc[q] \in {"taking", "giving"} =>
             read'[q] = read[q] /\ overtaken'[q] = overtaken[q] + 1
        /\ \A q \in Caller : at[q] # at[r] =>
             read'[q] = read[q] /\ overtaken'[q] = overtaken[q]
    BY <1>6, WritesShape
  <2>4. /\ \A q \in Caller : pc'[q] \in {"taking", "giving"} => q # r /\ pc[q] = pc'[q]
        /\ \A w \in Worker : w # at[r] => hh(w) = h(w)
        /\ \/ pc[r] = "taking" /\ hh(at[r]) = h(at[r]) + 1
           \/ pc[r] = "giving" /\ hh(at[r]) = h(at[r]) - 1
        /\ \A w \in Worker : h(w) \in Nat /\ hh(w) \in Nat
    <3>1. CASE pc[r] = "taking" /\ Goes(r, "holdingLocal")
      BY <1>3, <2>2, <3>1
    <3>2. CASE pc[r] = "giving" /\ Goes(r, "idle")
      BY <1>3, <2>2, <3>2
    <3> QED
      BY <2>1, <3>1, <3>2
  <2>5. n <= hh(at[r]) + slips'[at[r]]
    <3>1. /\ read[r] <= h(at[r]) + slips[at[r]] + overtaken[r]
          /\ read[r] \in Nat /\ overtaken[r] \in Nat /\ slips[at[r]] \in Nat
          /\ h(at[r]) \in Nat /\ hh(at[r]) \in Nat
      BY <1>0, <1>1, <1>6, <2>4
    <3> QED
      BY <2>1, <2>2, <2>4, <3>1
  <2>6. \A w \in Worker : local'[w] <= hh(w) + slips'[w]
    BY <1>1, <2>1, <2>2, <2>4, <2>5
  <2>7. ASSUME NEW q \in Caller, pc'[q] \in {"taking", "giving"}
        PROVE  read'[q] <= hh(at'[q]) + slips'[at'[q]] + overtaken'[q]
    <3>1. /\ q # r /\ pc[q] \in {"taking", "giving"}
          /\ read[q] <= h(at[q]) + slips[at[q]] + overtaken[q]
          /\ read[q] \in Nat /\ overtaken[q] \in Nat /\ overtaken[r] \in Nat
          /\ slips[at[q]] \in Nat /\ h(at[q]) \in Nat /\ hh(at[q]) \in Nat
      BY <1>0, <1>1, <2>4, <2>7
    <3>2. CASE at[q] = at[r]
      <4>1. /\ read'[q] = read[q] /\ overtaken'[q] = overtaken[q] + 1
            /\ slips'[at[q]] = slips[at[q]] + overtaken[r]
            /\ hh(at[q]) >= h(at[q]) - 1
        BY <2>2, <2>3, <2>4, <3>1, <3>2
      <4> QED
        BY <2>2, <3>1, <4>1
    <3>3. CASE at[q] # at[r]
      <4>1. /\ read'[q] = read[q] /\ overtaken'[q] = overtaken[q]
            /\ slips'[at[q]] = slips[at[q]] /\ hh(at[q]) = h(at[q])
        BY <1>0, <2>2, <2>3, <2>4, <3>3
      <4> QED
        BY <2>2, <3>1, <4>1
    <3> QED
      BY <3>2, <3>3
  <2> QED
    BY <2>6, <2>7
<1> QED
  BY <1>4, <1>5, <1>6

\* A worker that is killed starts from nothing.
LEMMA LocalKill ==
  ASSUME Placed, LocalInv, NEW v \in Worker, Kill(v)
  PROVE  LocalInv'
<1>0. /\ at \in [Caller -> Worker] /\ local \in [Worker -> Nat] /\ read \in [Caller -> Nat]
      /\ overtaken \in [Caller -> Nat] /\ slips \in [Worker -> Nat]
      /\ Placed' /\ at' = at
      /\ \A q \in Caller : pc'[q] = IF at[q] = v THEN "idle" ELSE pc[q]
  <2>1. limit \in Nat
    BY RedisAssumption DEF Placed, RedisTypeOK
  <2> QED
    BY <2>1, KillType DEF Placed, RedisTypeOK
<1>1. /\ local' = [local EXCEPT ![v] = 0] /\ slips' = [slips EXCEPT ![v] = 0]
      /\ \A q \in Caller : at[q] # v => read'[q] = read[q] /\ overtaken'[q] = overtaken[q]
  BY DEF Kill
<1>2. ASSUME NEW w \in Worker, w # v
      PROVE  LocalHolders(w)' = LocalHolders(w)
  BY <1>0, <1>2 DEF LocalHolders
<1>3. ASSUME NEW w \in Worker
      PROVE  local'[w] <= Cardinality(LocalHolders(w)') + slips'[w]
  <2>1. CASE w = v
    <3>1. LocalHolders(w)' \in SUBSET Caller
      BY DEF LocalHolders
    <3>2. Cardinality(LocalHolders(w)') \in Nat
      BY <3>1, CallersFinite
    <3>3. local'[w] = 0 /\ slips'[w] = 0
      BY <1>0, <1>1, <2>1
    <3> QED
      BY <3>2, <3>3
  <2>2. CASE w # v
    BY <1>0, <1>1, <1>2, <2>2 DEF LocalInv, LocalNoLostSlot
  <2> QED
    BY <2>1, <2>2
<1>4. ASSUME NEW q \in Caller, pc'[q] \in {"taking", "giving"}
      PROVE  read'[q] <= Cardinality(LocalHolders(at[q])') + slips'[at[q]] + overtaken'[q]
  <2>1. at[q] # v /\ pc[q] \in {"taking", "giving"} /\ at[q] \in Worker
    BY <1>0, <1>4
  <2>2. /\ read'[q] = read[q] /\ overtaken'[q] = overtaken[q] /\ slips'[at[q]] = slips[at[q]]
        /\ LocalHolders(at[q])' = LocalHolders(at[q])'
    BY <1>0, <1>1, <2>1
  <2>3. {r \in Caller : at'[r] = at[q] /\ pc'[r] \in {"holdingLocal", "giving"}} = LocalHolders(at[q])
    BY <1>0, <2>1 DEF LocalHolders
  <2>4. read[q] <= Cardinality(LocalHolders(at[q])) + slips[at[q]] + overtaken[q]
    BY <2>1 DEF LocalInv, LocalReads
  <2> QED
    BY <1>0, <2>2, <2>3, <2>4 DEF LocalHolders
<1> QED
  BY <1>0, <1>3, <1>4 DEF LocalInv, LocalNoLostSlot, LocalReads, LocalHolders

\* Every step keeps the invariant.
LEMMA LocalStepKeeps == Placed /\ LocalInv /\ [RedisNext]_limiterVars => LocalInv'
<1> SUFFICES ASSUME Placed, LocalInv, [RedisNext]_limiterVars
             PROVE  LocalInv'
  OBVIOUS
<1>1. CASE HourEnds \/ UNCHANGED limiterVars
  <2>1. UNCHANGED <<local, read, overtaken, slips, pc, at>>
    BY <1>1 DEF HourEnds, limiterVars, localVars, given
  <2> QED
    BY <2>1 DEF LocalInv, LocalNoLostSlot, LocalReads, LocalHolders
<1> QED
  BY <1>1, LocalMoves, LocalKill DEF RedisNext

\* A worker's own counter never exceeds the requests the worker has let in itself
\* by more than the changes of it that were overwritten, however calls fail,
\* workers are killed, and pool threads' releases fall between the read and the
\* write of an acquisition (rate_limit.py:74-98).
THEOREM LocalCounterKeepsSlots == RedisSpec => []LocalNoLostSlot
<1>1. LocalInv => LocalNoLostSlot
  BY DEF LocalInv
<1> QED
  BY PlacedInit, PlacedStep, LocalInit, LocalStepKeeps, <1>1, PTL DEF RedisSpec

-----------------------------------------------------------------------------
(* What falling back costs.                                                *)

\* A step makes of one request what its place says, and its worker's Redis only
\* fails.
LEMMA MoveShape ==
  ASSUME Placed, NEW r \in Caller, RedisStep(r) \/ LocalStep(r) \/ Fail(r)
  PROVE  /\ Goes(r, pc'[r]) /\ at' = at /\ limit' = limit
         /\ \A w \in Worker : healthy'[w] => healthy[w]
         /\ \A w \in Worker : w # at[r] => healthy'[w] = healthy[w] /\ slips'[w] = slips[w]
         /\ forgotten' \in Nat /\ forgotten' >= forgotten
         /\ \A q \in Caller : q # r => counted'[q] = counted[q]
<1>0. /\ pc \in [Caller -> PC] /\ at[r] \in Worker /\ slips \in [Worker -> Nat]
      /\ healthy \in [Worker -> BOOLEAN] /\ counted \in [Caller -> BOOLEAN]
      /\ forgotten \in Nat /\ RedisTypeOK
  BY DEF Placed, RedisTypeOK
<1>1. CASE RedisStep(r)
  <2>1. Called(r) /\ healthy' = healthy /\ slips' = slips
    BY <1>1 DEF RedisStep, TurnToRedis, Take, Undo, Arm, Leave, Delete, Called, localVars
  <2>2. Goes(r, pc'[r]) /\ at' = at /\ limit' = limit
    BY <1>1, RedisShape
  <2> QED
    BY <1>0, <2>1, <2>2, CallType
<1>2. CASE Fail(r)
  <2>1. Called(r) /\ healthy' = [healthy EXCEPT ![at[r]] = FALSE]
    BY <1>2, FailType DEF Fail
  <2>2. /\ Goes(r, pc'[r]) /\ at' = at /\ limit' = limit
        /\ slips' = [slips EXCEPT ![at[r]] = slips'[at[r]]]
    BY <1>2, RedisShape
  <2> QED
    BY <1>0, <2>1, <2>2, CallType
<1>3. CASE LocalStep(r) /\ pc[r] \in {"taking", "giving"}
  <2>1. /\ Goes(r, "holdingLocal") \/ Goes(r, "idle")
        /\ slips' = [slips EXCEPT ![at[r]] = @ + overtaken[r]]
        /\ UNCHANGED <<forgotten, at, limit, healthy>>
    BY <1>3, WritesShape
  <2>2. WriteTaken(r) \/ WriteGiven(r)
    BY <1>3 DEF LocalStep, RefuseLocal, ReadToTake, ReadToGive, Turned, Returned
  <2>3. \A q \in Caller : q # r => counted'[q] = counted[q]
    BY <1>0, <2>2 DEF WriteTaken, WriteGiven, WritesLocal
  <2>4. Goes(r, pc'[r])
    BY <1>0, <2>1 DEF Goes
  <2> QED
    BY <1>0, <2>1, <2>3, <2>4
<1>4. CASE LocalStep(r) /\ pc[r] \notin {"taking", "giving"}
  <2>1. /\ Goes(r, "idle") \/ Goes(r, "taking") \/ Goes(r, "giving")
        /\ UNCHANGED <<forgotten, at, limit, healthy, slips>>
        /\ \A q \in Caller : q # r => counted'[q] = counted[q]
    BY <1>4, ReadsShape
  <2>2. Goes(r, pc'[r])
    BY <1>0, <2>1 DEF Goes
  <2> QED
    BY <1>0, <2>1, <2>2
<1> QED
  BY <1>1, <1>2, <1>3, <1>4

\* Where a step takes a request from, and where to, as far as the fallback goes.
LEMMA Route ==
  ASSUME Placed, FallenBack, NEW r \in Caller, RedisStep(r) \/ LocalStep(r) \/ Fail(r)
  PROVE  \/ /\ pc[r] = "idle" /\ LoopFree(r) /\ pc'[r] = "incr" /\ healthy[at[r]]
         \/ /\ pc[r] \in Calling /\ pc'[r] \in {"undo", "arm", "holding", "idle"}
         \/ /\ pc[r] \in {"holding", "decr"} /\ pc'[r] \in {"decr", "delete", "idle"}
         \/ /\ pc[r] = "delete" /\ pc'[r] = "idle"
         \/ /\ pc[r] \in Calling /\ pc'[r] = "turned" /\ ~healthy'[at[r]]
         \/ /\ pc[r] \in {"decr", "delete"} /\ pc'[r] = "returned" /\ ~healthy'[at[r]]
         \/ /\ pc[r] \in {"idle", "turned"} /\ pc'[r] = "idle"
         \/ /\ pc[r] = "idle" /\ LoopFree(r) /\ pc'[r] = "taking" /\ ~healthy[at[r]]
         \/ /\ pc[r] = "turned" /\ pc'[r] = "taking" /\ ~healthy[at[r]]
         \/ /\ pc[r] \in {"returned", "holding", "holdingLocal"} /\ pc'[r] = "giving"
            /\ ~healthy[at[r]]
         \/ /\ pc[r] = "taking" /\ pc'[r] = "holdingLocal"
         \/ /\ pc[r] = "giving" /\ pc'[r] = "idle"
<1>0. pc \in [Caller -> PC] /\ healthy \in [Worker -> BOOLEAN] /\ at[r] \in Worker
  BY DEF Placed, RedisTypeOK
<1> USE DEF Calling
<1>1. CASE RedisStep(r)
  BY <1>0, <1>1 DEF RedisStep, TurnToRedis, Take, Undo, Arm, Leave, Delete, Goes
<1>2. CASE Fail(r)
  <2>1. healthy' = [healthy EXCEPT ![at[r]] = FALSE]
    BY <1>2 DEF Fail
  <2> QED
    BY <1>0, <1>2, <2>1, FailType
<1>3. CASE LocalStep(r) /\ pc[r] \in {"taking", "giving"}
  BY <1>0, <1>3, WritesShape DEF Goes
<1>4. CASE LocalStep(r) /\ pc[r] \notin {"taking", "giving"}
  BY <1>0, <1>4, ReadsShape DEF Goes, FallenBack
<1> QED
  BY <1>1, <1>2, <1>3, <1>4

\* A worker makes one acquisition at a time, and does not come back to Redis before
\* it is killed.
LEMMA FallenMoves ==
  ASSUME Placed, FallenBack, NEW r \in Caller, RedisStep(r) \/ LocalStep(r) \/ Fail(r)
  PROVE  FallenBack'
<1>0. /\ pc \in [Caller -> PC] /\ at \in [Caller -> Worker]
      /\ at' = at /\ pc' = [pc EXCEPT ![r] = pc'[r]]
      /\ \A w \in Worker : healthy'[w] => healthy[w]
  BY MoveShape DEF Placed, RedisTypeOK, Goes
<1>1. pc'[r] \in Acquiring => pc[r] \in Acquiring \/ LoopFree(r)
  BY Route DEF Acquiring, Calling
<1>2. ASSUME NEW q \in Caller, NEW p \in Caller, at[p] = at[q],
             pc'[p] \in Acquiring, pc'[q] \in Acquiring
      PROVE  p = q
  <2>1. CASE p # r /\ q # r
    BY <1>0, <1>2, <2>1 DEF FallenBack
  <2>2. ASSUME NEW x \in Caller, x # r, at[x] = at[r], pc'[x] \in Acquiring, pc'[r] \in Acquiring
        PROVE  FALSE
    <3>1. pc[x] \in Acquiring
      BY <1>0, <2>2
    <3> QED
      BY <1>1, <2>2, <3>1 DEF FallenBack, LoopFree
  <2> QED
    BY <1>2, <2>1, <2>2
<1>3. ASSUME NEW q \in Caller,
             pc'[q] \in {"turned", "taking", "holdingLocal", "returned", "giving"}
      PROVE  ~healthy'[at[q]]
  <2>1. CASE q # r
    BY <1>0, <1>3, <2>1 DEF FallenBack
  <2>2. CASE q = r
    BY <1>0, <1>3, <2>2, Route DEF FallenBack, Calling
  <2> QED
    BY <2>1, <2>2
<1> QED
  BY <1>0, <1>2, <1>3 DEF FallenBack

\* A number that keeps below a sum when both move together, and one summand grows.
LEMMA Together ==
  ASSUME NEW x \in Int, NEW y \in Int, NEW f \in Nat, NEW g \in Nat, NEW c \in Nat, NEW d \in Nat,
         g >= f, c <= x + f,
         (y = x + 1 /\ d <= c + 1) \/ (y + 1 = x /\ d + 1 = c) \/ (y = x /\ d <= c)
  PROVE  d <= y + g
<1>1. c <= x + g
  OBVIOUS
<1> QED
  BY <1>1

\* Redis misses no request but those it forgot.
LEMMA MissingMoves ==
  ASSUME Placed, NoneMissing, NEW r \in Caller, RedisStep(r) \/ LocalStep(r) \/ Fail(r)
  PROVE  NoneMissing'
<1> DEFINE c == Cardinality(InCounter)
           d == Cardinality(InCounter')
<1>0. /\ conc \in Int /\ forgotten \in Nat /\ counted \in [Caller -> BOOLEAN]
      /\ counted' \in [Caller -> BOOLEAN] /\ c <= conc + forgotten
      /\ conc' \in Int
      /\ RedisTypeOK
      /\ forgotten' \in Nat /\ forgotten' >= forgotten
      /\ \A q \in Caller : q # r => counted'[q] = counted[q]
  <2>1. Placed'
    BY RedisStepType, LocalStepType, FailType
  <2> QED
    BY <2>1, MoveShape DEF Placed, RedisTypeOK, NoneMissing
<1>1. /\ c \in Nat /\ d \in Nat
      /\ (counted[r] <=> counted'[r]) => d = c
      /\ ~counted[r] /\ counted'[r] => d = c + 1
      /\ counted[r] /\ ~counted'[r] => d = c - 1
  <2>1. counted'[r] \in BOOLEAN
    BY <1>0
  <2> QED
    BY <1>0, <2>1, CountedMoves
<1> HIDE DEF c, d
<1>a. /\ conc \in Int /\ conc' \in Int /\ forgotten \in Nat /\ forgotten' \in Nat
      /\ forgotten' >= forgotten /\ c <= conc + forgotten /\ c \in Nat /\ d \in Nat
  BY <1>0, <1>1
<1>2. CASE INCR(r)
  <2>1. conc' = conc + 1 /\ d <= c + 1
    BY <1>0, <1>1, <1>2 DEF INCR
  <2>2. d <= conc' + forgotten'
    BY <1>a, <2>1, Together
  <2> QED
    BY <2>2 DEF NoneMissing, d
<1>3. CASE DECR(r) /\ counted[r]
  <2>1. conc' + 1 = conc /\ d + 1 = c
    BY <1>0, <1>1, <1>3 DEF DECR
  <2>2. d <= conc' + forgotten'
    BY <1>a, <2>1, Together
  <2> QED
    BY <2>2 DEF NoneMissing, d
<1>4. CASE DELETE
  <2>1. conc' = 0 /\ d = c /\ forgotten' >= c
    BY <1>0, <1>1, <1>4, DeleteType DEF c
  <2>2. \A n \in Nat : 0 + n = n
    OBVIOUS
  <2>3. d <= conc' + forgotten'
    BY <1>a, <2>1, <2>2
  <2> QED
    BY <2>3 DEF NoneMissing, d
<1>5. CASE conc' = conc /\ (counted'[r] => counted[r])
  <2>1. d <= c
    BY <1>1, <1>5
  <2>2. d <= conc' + forgotten'
    BY <1>a, <1>5, <2>1, Together
  <2> QED
    BY <2>2 DEF NoneMissing, d
<1>6. \/ INCR(r) \/ (DECR(r) /\ counted[r]) \/ DELETE
      \/ conc' = conc /\ (counted'[r] => counted[r])
  <2>1. CASE RedisStep(r)
    BY <2>1 DEF RedisStep, TurnToRedis, Take, Undo, Arm, Leave, Delete, EXPIRE, redisVars,
       Placed, StepsInPlace
  <2>2. CASE Fail(r)
    <3>1. pc[r] \in {"undo", "decr"} => counted[r]
      BY DEF Placed, StepsInPlace
    <3>2. \/ INCR(r) \/ DELETE \/ EXPIRE \/ UNCHANGED redisVars
          \/ pc[r] \in {"undo", "decr"} /\ DECR(r)
      <4>1. pc[r] \in {"incr", "undo", "arm", "decr", "delete"}
        BY <2>2 DEF Fail, Calling
      <4>2. UNCHANGED redisVars \/
              CASE pc[r] = "incr" -> INCR(r)
                [] pc[r] \in {"undo", "decr"} -> DECR(r)
                [] pc[r] = "arm" -> EXPIRE
                [] pc[r] = "delete" -> DELETE
        BY <2>2, Zenon DEF Fail
      <4> QED
        BY <4>1, <4>2
    <3> QED
      BY <3>1, <3>2 DEF EXPIRE, redisVars
  <2>3. CASE LocalStep(r) /\ pc[r] \in {"taking", "giving"}
    <3>1. WriteTaken(r) \/ WriteGiven(r)
      BY <2>3 DEF LocalStep, RefuseLocal, ReadToTake, ReadToGive, Turned, Returned
    <3> QED
      BY <1>0, <3>1 DEF WriteTaken, WriteGiven, WritesLocal
  <2>4. CASE LocalStep(r) /\ pc[r] \notin {"taking", "giving"}
    BY <2>4, ReadsShape
  <2> QED
    BY <2>1, <2>2, <2>3, <2>4
<1> QED
  BY <1>2, <1>3, <1>4, <1>5, <1>6

\* While a worker may let requests in by Redis, Redis counts those it has, but for
\* those whose slot the worker is about to give back again.
LEMMA UntoldMoves ==
  ASSUME Placed, FallenBack, FewUntold, NEW r \in Caller,
         RedisStep(r) \/ LocalStep(r) \/ Fail(r)
  PROVE  FewUntold'
<1> SUFFICES ASSUME NEW w \in Worker, UsesRedis(w)'
             PROVE  Cardinality(Untold(w)') <= slips'[w]
  BY DEF FewUntold
<1> DEFINE S == Untold(w)
           T == Untold(w)'
<1>0. /\ pc \in [Caller -> PC] /\ at \in [Caller -> Worker]
      /\ at' = at /\ pc' = [pc EXCEPT ![r] = pc'[r]]
      /\ \A v \in Worker : healthy'[v] => healthy[v]
      /\ \A v \in Worker : v # at[r] => healthy'[v] = healthy[v] /\ slips'[v] = slips[v]
      /\ \A q \in Caller : q # r => counted'[q] = counted[q]
      /\ counted \in [Caller -> BOOLEAN] /\ slips[w] \in Nat
  BY MoveShape DEF Placed, RedisTypeOK, Goes
<1>1. /\ S \in SUBSET Caller /\ T \in SUBSET Caller
      /\ IsFiniteSet(S) /\ Cardinality(S) \in Nat /\ Cardinality(T) \in Nat
  <2>1. S \in SUBSET Caller /\ T \in SUBSET Caller
    BY DEF Untold
  <2> QED
    BY <2>1, CallersFinite
<1>2. \A q \in Caller :
        /\ q \in S <=> at[q] = w /\ pc[q] \in {"holdingLocal", "returned", "giving"} /\ ~counted[q]
        /\ q \in T <=> at[q] = w /\ pc'[q] \in {"holdingLocal", "returned", "giving"} /\ ~counted'[q]
  BY <1>0 DEF Untold
<1>3. slips'[w] \in Nat /\ slips'[w] >= slips[w]
  <2>1. at[r] \in Worker /\ slips \in [Worker -> Nat] /\ overtaken[r] \in Nat
    BY LocalTypes
  <2>2. CASE RedisStep(r) \/ Fail(r)
    BY <1>0, <2>1, <2>2, RedisShape
  <2>3. CASE LocalStep(r) /\ pc[r] \in {"taking", "giving"}
    BY <1>0, <2>1, <2>3, WritesShape
  <2>4. CASE LocalStep(r) /\ pc[r] \notin {"taking", "giving"}
    BY <1>0, <2>1, <2>4, ReadsShape
  <2> QED
    BY <2>2, <2>3, <2>4
<1> HIDE DEF S, T
<1>4. CASE w # at[r]
  <2>1. T = S
    BY <1>0, <1>1, <1>2, <1>4
  <2>2. UsesRedis(w)
    BY <1>0, <1>4 DEF UsesRedis
  <2> QED
    BY <1>0, <1>4, <2>1, <2>2 DEF FewUntold, S, T
<1>5. CASE w = at[r]
  <2>1. pc[r] # "taking" /\ ~(pc[r] \in Calling /\ pc'[r] = "turned")
    <3>1. CASE pc[r] = "taking"
      <4>1. ~healthy'[w] /\ pc'[r] = "holdingLocal"
        BY <1>0, <1>5, <3>1, Route DEF FallenBack, Calling
      <4>2. PICK q \in Caller : at[q] = w /\ pc'[q] \in Calling
        BY <1>0, <4>1 DEF UsesRedis
      <4>3. q # r /\ pc[q] \in Acquiring
        BY <1>0, <4>1, <4>2 DEF Calling, Acquiring
      <4> QED
        BY <1>5, <3>1, <4>2, <4>3 DEF FallenBack, Acquiring
    <3>2. CASE pc[r] \in Calling /\ pc'[r] = "turned"
      <4>1. ~healthy'[w]
        BY <1>5, <3>2, Route DEF Calling
      <4>2. PICK q \in Caller : at[q] = w /\ pc'[q] \in Calling
        BY <1>0, <4>1 DEF UsesRedis
      <4>3. q # r /\ pc[q] \in Acquiring
        BY <1>0, <3>2, <4>2 DEF Calling, Acquiring
      <4> QED
        BY <1>5, <3>2, <4>2, <4>3 DEF FallenBack, Acquiring
    <3> QED
      BY <3>1, <3>2
  <2>2. UsesRedis(w)
    <3>1. CASE healthy'[w]
      BY <1>0, <3>1 DEF UsesRedis
    <3>2. CASE ~healthy'[w]
      <4>1. PICK q \in Caller : at[q] = w /\ pc'[q] \in Calling
        BY <1>0, <3>2 DEF UsesRedis
      <4>2. CASE q # r
        BY <1>0, <4>1, <4>2 DEF UsesRedis
      <4>3. CASE q = r
        BY <1>0, <1>5, <4>1, <4>3, Route DEF UsesRedis, Calling
      <4> QED
        BY <4>2, <4>3
    <3> QED
      BY <3>1, <3>2
  <2>3. Cardinality(S) <= slips[w]
    BY <2>2 DEF FewUntold, S
  <2>4. CASE pc'[r] = "returned"
    <3>1. Fail(r) /\ pc[r] \in {"decr", "delete"}
      <4>1. pc[r] \in {"decr", "delete"}
        BY <2>4, Route DEF Calling
      <4>2. ~RedisStep(r)
        BY <1>0, <2>4 DEF RedisStep, TurnToRedis, Take, Undo, Arm, Leave, Delete, Goes
      <4>3. ~LocalStep(r)
        BY <4>1 DEF LocalStep, RefuseLocal, ReadToTake, ReadToGive, Turned, Returned,
           WriteTaken, WriteGiven
      <4> QED
        BY <4>1, <4>2, <4>3
    <3>2. slips'[w] = IF ~counted'[r] THEN slips[w] + 1 ELSE slips[w]
      BY <1>0, <1>5, <3>1 DEF Fail, Placed, RedisTypeOK
    <3>3. r \notin S /\ T = IF ~counted'[r] THEN S \cup {r} ELSE S
      BY <1>0, <1>1, <1>2, <1>5, <2>4, <3>1
    <3>4. Cardinality(S \cup {r}) = Cardinality(S) + 1
      BY <1>1, <3>3, Count
    <3> QED
      BY <1>0, <1>1, <2>3, <3>2, <3>3, <3>4 DEF T
  <2>5. CASE pc'[r] # "returned"
    <3>1. r \in T => r \in S
      <4>1. pc'[r] \in {"holdingLocal", "giving"} =>
              pc[r] \in {"returned", "holding", "holdingLocal"} /\ pc'[r] = "giving"
        BY <2>1, Route DEF Calling
      <4>2. pc[r] = "holding" => counted[r]
        BY DEF Placed, StepsInPlace
      <4>3. pc'[r] = "giving" => counted'[r] = counted[r]
        <5> SUFFICES ASSUME pc'[r] = "giving" PROVE counted'[r] = counted[r]
          OBVIOUS
        <5>1. LocalStep(r) /\ pc[r] \notin {"taking", "giving"}
          <6>1. ~RedisStep(r)
            BY <1>0 DEF RedisStep, TurnToRedis, Take, Undo, Arm, Leave, Delete, Goes
          <6>2. ~Fail(r)
            BY FailType
          <6>3. pc[r] \in {"returned", "holding", "holdingLocal"}
            BY <4>1
          <6> QED
            BY <6>1, <6>2, <6>3
        <5> QED
          BY <1>0, <5>1, ReadsShape DEF Goes
      <4> QED
        BY <1>2, <2>5, <4>1, <4>2, <4>3
    <3>2. T \in SUBSET S
      BY <1>0, <1>1, <1>2, <3>1
    <3>3. Cardinality(T) <= Cardinality(S)
      BY <1>1, <3>2, FS_Subset
    <3> QED
      BY <1>0, <1>1, <1>3, <2>3, <3>3 DEF T
  <2> QED
    BY <2>4, <2>5
<1> QED
  BY <1>4, <1>5

InHands == {"arm", "holding", "decr", "holdingLocal", "returned", "giving"}

\* What a worker's limit and the requests forgotten come to.
LEMMA Within ==
  ASSUME NEW l \in Nat, NEW m \in Nat, NEW f \in Nat, NEW g \in Nat, m = l, g >= f
  PROVE  /\ l + f \in Nat /\ m + g \in Nat /\ m + g >= l + f
         /\ \A x \in Int, c \in Nat : x <= m /\ c <= x + g => c <= m + g
OBVIOUS

\* A step moves the requests a worker has let in by one at most: Redis lets one in
\* below the limit, the worker itself lets one in, or one leaves; a slot that is
\* to be given back again counts as a slip.
LEMMA HoldersMove ==
  ASSUME Placed, FallenBack, NEW r \in Caller, RedisStep(r) \/ LocalStep(r) \/ Fail(r),
         NEW w \in Worker
  PROVE  /\ Cardinality(HoldersAt(w)) \in Nat /\ Cardinality(HoldersAt(w)') \in Nat
         /\ w # at[r] => Cardinality(HoldersAt(w)') = Cardinality(HoldersAt(w))
         /\ w = at[r] =>
              \/ Take(r) /\ pc'[r] = "arm"
              \/ /\ pc[r] = "taking" /\ pc'[r] = "holdingLocal"
                 /\ Cardinality(HoldersAt(w)') = Cardinality(HoldersAt(w)) + 1
              \/ /\ pc[r] = "giving" /\ pc'[r] = "idle"
                 /\ Cardinality(HoldersAt(w)') + 1 = Cardinality(HoldersAt(w))
              \/ /\ Fail(r) /\ pc[r] = "delete" /\ slips'[w] = slips[w] + 1
                 /\ Cardinality(HoldersAt(w)') = Cardinality(HoldersAt(w)) + 1
              \/ /\ pc[r] \notin {"taking", "giving"}
                 /\ Cardinality(HoldersAt(w)') <= Cardinality(HoldersAt(w))
<1> DEFINE h == Cardinality(HoldersAt(w))
           hh == Cardinality(HoldersAt(w)')
<1>0. Goes(r, pc'[r]) /\ at' = at /\ RedisTypeOK
  BY MoveShape DEF Placed
<1>1. /\ h \in Nat /\ hh \in Nat
      /\ at[r] # w \/ (pc[r] \in InHands <=> pc'[r] \in InHands) => hh = h
      /\ at[r] = w /\ pc[r] \notin InHands /\ pc'[r] \in InHands => hh = h + 1
      /\ at[r] = w /\ pc[r] \in InHands /\ pc'[r] \notin InHands => hh + 1 = h
  <2>1. h = Cardinality(AtPlaces(w, InHands)) /\ hh = Cardinality(AtPlaces(w, InHands)')
    BY DEF HoldersAt, AtPlaces, InHands
  <2> HIDE DEF h, hh
  <2> QED
    BY <1>0, <2>1, PlacesMove
<1> HIDE DEF h, hh
<1> SUFFICES ASSUME w = at[r]
             PROVE  \/ Take(r) /\ pc'[r] = "arm"
                    \/ pc[r] = "taking" /\ pc'[r] = "holdingLocal" /\ hh = h + 1
                    \/ pc[r] = "giving" /\ pc'[r] = "idle" /\ hh + 1 = h
                    \/ Fail(r) /\ pc[r] = "delete" /\ slips'[w] = slips[w] + 1 /\ hh = h + 1
                    \/ pc[r] \notin {"taking", "giving"} /\ hh <= h
  BY <1>1 DEF h, hh
<1> USE DEF InHands
<1>2. CASE pc[r] = "taking"
  <2>1. pc'[r] = "holdingLocal"
    BY <1>2, Route DEF Calling
  <2> QED
    BY <1>1, <1>2, <2>1
<1>3. CASE pc[r] = "giving"
  <2>1. pc'[r] = "idle"
    BY <1>3, Route DEF Calling
  <2> QED
    BY <1>1, <1>3, <2>1
<1>4. CASE pc[r] = "delete" /\ pc'[r] = "returned"
  <2>1. Fail(r)
    <3>1. ~RedisStep(r)
      BY <1>0, <1>4 DEF RedisStep, TurnToRedis, Take, Undo, Arm, Leave, Delete, Goes, Placed,
         RedisTypeOK
    <3>2. ~LocalStep(r)
      BY <1>4 DEF LocalStep, RefuseLocal, ReadToTake, ReadToGive, Turned, Returned, WriteTaken,
         WriteGiven
    <3> QED
      BY <3>1, <3>2
  <2>2. ~counted'[r]
    <3>1. ~counted[r]
      BY <1>4 DEF Placed, StepsInPlace
    <3>2. counted' = counted
      BY <1>4, <2>1 DEF Fail, DELETE, redisVars, Calling
    <3> QED
      BY <3>1, <3>2
  <2>3. slips'[w] = slips[w] + 1
    BY <1>4, <2>1, <2>2 DEF Fail, Placed, RedisTypeOK
  <2> QED
    BY <1>1, <1>4, <2>1, <2>3
<1>5. CASE pc[r] = "incr" /\ pc'[r] = "arm"
  <2>1. ~Fail(r) /\ ~LocalStep(r)
    BY <1>5, FailType DEF LocalStep, RefuseLocal, ReadToTake, ReadToGive, Turned, Returned,
       WriteTaken, WriteGiven
  <2>2. Take(r)
    BY <1>5, <2>1 DEF RedisStep, TurnToRedis, Undo, Arm, Leave, Delete
  <2> QED
    BY <1>5, <2>2
<1>6. CASE /\ pc[r] \notin {"taking", "giving"}
           /\ ~(pc[r] = "delete" /\ pc'[r] = "returned")
           /\ ~(pc[r] = "incr" /\ pc'[r] = "arm")
  <2>1. pc'[r] \in InHands => pc[r] \in InHands
    <3>1. ~(pc[r] = "undo" /\ pc'[r] \in InHands) /\ ~(pc[r] = "incr" /\ pc'[r] \in InHands)
      <4>1. CASE RedisStep(r)
        BY <1>0, <1>6, <4>1 DEF RedisStep, TurnToRedis, Take, Undo, Arm, Leave, Delete, Goes,
           Placed, RedisTypeOK
      <4>2. CASE Fail(r)
        BY <4>2, FailType
      <4>3. CASE LocalStep(r)
        BY <4>3, <1>6, ReadsShape
      <4> QED
        BY <4>1, <4>2, <4>3
    <3> QED
      BY <1>6, <3>1, Route DEF Calling
  <2>2. hh = h \/ hh + 1 = h
    BY <1>1, <2>1
  <2> QED
    BY <1>1, <1>6, <2>2
<1> QED
  BY <1>2, <1>3, <1>4, <1>5, <1>6

\* A worker's counter, and what is read of it, stay as near to the requests it has
\* let in.
LEMMA BoundMoves ==
  ASSUME Placed, FallenBack, BoundNear, NEW r \in Caller,
         RedisStep(r) \/ LocalStep(r) \/ Fail(r), Placed', NoneMissing', FewUntold'
  PROVE  BoundNear'
<1> DEFINE h(w) == Cardinality(HoldersAt(w))
           hh(w) == Cardinality({q \in Caller : at'[q] = w /\ pc'[q] \in InHands})
           k == limit + forgotten
           kk == limit' + forgotten'
<1>0. /\ at \in [Caller -> Worker] /\ pc \in [Caller -> PC]
      /\ at' = at /\ Goes(r, pc'[r]) /\ k \in Nat /\ kk \in Nat /\ kk >= k
      /\ \A w \in Worker : local[w] \in Nat /\ slips[w] \in Nat
      /\ \A q \in Caller : at[q] \in Worker /\ read[q] \in Nat /\ overtaken[q] \in Nat
      /\ local \in [Worker -> Nat]
      /\ limit \in Nat /\ limit' = limit /\ forgotten' \in Nat
      /\ \A w \in Worker : local'[w] \in Nat /\ slips'[w] \in Nat
      /\ \A q \in Caller : read'[q] \in Nat /\ overtaken'[q] \in Nat
  <2>1. limit \in Nat /\ forgotten \in Nat /\ limit' \in Nat
    BY RedisAssumption, MoveShape DEF Placed, RedisTypeOK
  <2>2. limit' = limit /\ forgotten' \in Nat /\ forgotten' >= forgotten
    BY MoveShape
  <2>3. k \in Nat /\ kk \in Nat /\ kk >= k
    BY <2>1, <2>2, Within
  <2>4. /\ local' \in [Worker -> Nat] /\ read' \in [Caller -> Nat]
        /\ overtaken' \in [Caller -> Nat] /\ slips' \in [Worker -> Nat]
    BY <2>1 DEF Placed, RedisTypeOK
  <2>5. /\ at \in [Caller -> Worker] /\ pc \in [Caller -> PC]
        /\ local \in [Worker -> Nat] /\ read \in [Caller -> Nat]
        /\ overtaken \in [Caller -> Nat] /\ slips \in [Worker -> Nat]
    BY <2>1 DEF Placed, RedisTypeOK
  <2> HIDE DEF k, kk
  <2> QED
    BY <2>1, <2>2, <2>3, <2>4, <2>5, MoveShape
<1>1. /\ \A w \in Worker : h(w) <= k + local[w] + slips[w]
      /\ \A q \in Caller : pc[q] \in {"taking", "giving"} =>
           h(at[q]) <= k + read[q] + slips[at[q]] + overtaken[q]
  BY DEF BoundNear
<1>2. SUFFICES
        /\ \A w \in Worker : hh(w) <= kk + local'[w] + slips'[w]
        /\ \A q \in Caller : pc'[q] \in {"taking", "giving"} =>
             hh(at'[q]) <= kk + read'[q] + slips'[at'[q]] + overtaken'[q]
  BY DEF BoundNear, HoldersAt, InHands
<1>3. ASSUME NEW w \in Worker
      PROVE  /\ h(w) \in Nat /\ hh(w) \in Nat
             /\ w # at[r] => hh(w) = h(w)
             /\ w = at[r] =>
                  \/ Take(r) /\ pc'[r] = "arm"
                  \/ pc[r] = "taking" /\ pc'[r] = "holdingLocal" /\ hh(w) = h(w) + 1
                  \/ pc[r] = "giving" /\ pc'[r] = "idle" /\ hh(w) + 1 = h(w)
                  \/ /\ Fail(r) /\ pc[r] = "delete" /\ slips'[w] = slips[w] + 1
                     /\ hh(w) = h(w) + 1
                  \/ pc[r] \notin {"taking", "giving"} /\ hh(w) <= h(w)
  <2>1. hh(w) = Cardinality(HoldersAt(w)')
    BY DEF HoldersAt, InHands
  <2> HIDE DEF hh
  <2> QED
    BY <1>3, <2>1, HoldersMove
<1>4. ASSUME NEW w \in Worker, Take(r), pc'[r] = "arm", w = at[r]
      PROVE  hh(w) <= kk + slips'[w]
  <2> DEFINE c == Cardinality(InCounter')
             u == Cardinality(Untold(w)')
  <2>1. conc' <= limit'
    BY <1>0, <1>4 DEF Take, INCR, Goes, Placed, RedisTypeOK
  <2>2. c <= conc' + forgotten'
    BY DEF NoneMissing
  <2>3. UsesRedis(w)'
    BY <1>0, <1>4 DEF UsesRedis, Calling
  <2>4. u <= slips'[w]
    BY <2>3 DEF FewUntold
  <2>5. {q \in Caller : at'[q] = w /\ pc'[q] \in InHands} \in SUBSET (InCounter' \cup Untold(w)')
    BY DEF Placed, StepsInPlace, InCounter, Untold, InHands
  <2>6. InCounter' \in SUBSET Caller /\ Untold(w)' \in SUBSET Caller
    BY DEF InCounter, Untold
  <2>7. hh(w) <= c + u /\ c \in Nat /\ u \in Nat
    BY <2>5, <2>6, CallersFinite, Cover
  <2>8. conc' \in Int /\ limit' \in Nat
    BY <1>0 DEF Placed, RedisTypeOK
  <2> HIDE DEF c, u, hh
  <2>9. c <= kk
    BY <1>0, <2>1, <2>2, <2>7, <2>8, Within
  <2> HIDE DEF kk
  <2> QED
    BY <1>0, <1>3, <2>4, <2>7, <2>9
<1> HIDE DEF h, hh, k, kk
<1>5. CASE (RedisStep(r) \/ Fail(r)) \/ (LocalStep(r) /\ pc[r] \notin {"taking", "giving"})
  <2>1. /\ UNCHANGED <<local, overtaken>>
        /\ \A w \in Worker : slips'[w] >= slips[w]
        /\ pc[r] \notin {"taking", "giving"}
        /\ \A q \in Caller : pc'[q] \in {"taking", "giving"} =>
             \/ q # r /\ pc[q] = pc'[q] /\ read'[q] = read[q]
             \/ q = r /\ read'[q] = local[at[q]] /\ ~RedisStep(r) /\ ~Fail(r)
    <3>1. CASE RedisStep(r) \/ Fail(r)
      <4>1. /\ UNCHANGED <<local, overtaken, read>>
            /\ \A w \in Worker : slips'[w] >= slips[w]
            /\ pc[r] \notin {"taking", "giving"} /\ pc'[r] \notin {"taking", "giving"}
        BY <1>0, <3>1, RedisShape DEF Placed, RedisTypeOK
      <4> QED
        BY <1>0, <4>1 DEF Goes
    <3>2. CASE LocalStep(r) /\ pc[r] \notin {"taking", "giving"}
      <4>1. (~RedisStep(r) /\ ~Fail(r)) \/ pc'[r] \notin {"taking", "giving"}
        <5>1. RedisStep(r) \/ Fail(r) => pc'[r] \notin {"taking", "giving"}
          BY RedisShape
        <5> QED
          BY <5>1
      <4> QED
        BY <1>0, <3>2, <4>1, ReadsShape DEF Goes
    <3> QED
      BY <1>5, <3>1, <3>2
  <2>2. ASSUME NEW w \in Worker
        PROVE  /\ hh(w) <= kk + local'[w] + slips'[w]
               /\ \A n \in Nat : h(w) <= k + n + slips[w] => hh(w) <= kk + n + slips'[w]
    <3>1. /\ h(w) \in Nat /\ hh(w) \in Nat /\ slips[w] \in Nat /\ slips'[w] \in Nat
          /\ k \in Nat /\ kk \in Nat /\ kk >= k /\ slips'[w] >= slips[w]
          /\ local[w] \in Nat /\ local'[w] = local[w]
          /\ h(w) <= k + local[w] + slips[w]
      BY <1>0, <1>1, <1>3, <2>1
    <3>2. \/ hh(w) <= h(w) \/ hh(w) <= kk + slips'[w]
          \/ slips'[w] = slips[w] + 1 /\ hh(w) = h(w) + 1
      BY <1>3, <1>4, <2>1, <3>1
    <3>3. \A n \in Nat : h(w) <= k + n + slips[w] => hh(w) <= kk + n + slips'[w]
      BY <3>1, <3>2
    <3> QED
      BY <3>1, <3>3
  <2>3. ASSUME NEW q \in Caller, pc'[q] \in {"taking", "giving"}
        PROVE  hh(at[q]) <= kk + read'[q] + slips'[at[q]] + overtaken'[q]
    <3>1. /\ at[q] \in Worker /\ overtaken[q] \in Nat /\ overtaken'[q] = overtaken[q]
          /\ read[q] \in Nat /\ local[at[q]] \in Nat /\ slips[at[q]] \in Nat
          /\ slips'[at[q]] \in Nat /\ kk \in Nat /\ hh(at[q]) \in Nat /\ k \in Nat
          /\ h(at[q]) \in Nat
      BY <1>0, <1>3, <2>1
    <3>2. CASE q # r /\ pc[q] = pc'[q] /\ read'[q] = read[q]
      <4>1. h(at[q]) <= k + read[q] + slips[at[q]] + overtaken[q]
        BY <1>1, <2>3, <3>2
      <4>2. h(at[q]) <= k + (read[q] + overtaken[q]) + slips[at[q]]
        BY <3>1, <4>1
      <4>3. hh(at[q]) <= kk + (read[q] + overtaken[q]) + slips'[at[q]]
        BY <2>2, <3>1, <4>2
      <4> QED
        BY <3>1, <3>2, <4>3
    <3>3. CASE read'[q] = local[at[q]]
      <4>1. hh(at[q]) <= kk + local[at[q]] + slips'[at[q]]
        BY <2>1, <2>2, <3>1
      <4> QED
        BY <3>1, <3>3, <4>1
    <3> QED
      BY <2>1, <2>3, <3>2, <3>3
  <2> QED
    BY <1>0, <2>2, <2>3
<1>6. CASE LocalStep(r) /\ pc[r] \in {"taking", "giving"}
  <2> DEFINE w == at[r]
             n == local'[w]
  <2>1. /\ \/ pc[r] = "taking" /\ Goes(r, "holdingLocal") /\ n = read[r] + 1
           \/ /\ pc[r] = "giving" /\ Goes(r, "idle")
              /\ n = IF read[r] > 1 THEN read[r] - 1 ELSE 0
        /\ \A v \in Worker : v # w => local'[v] = local[v] /\ slips'[v] = slips[v]
        /\ slips'[w] = slips[w] + overtaken[r]
        /\ w \in Worker
    BY <1>0, <1>6, WritesShape DEF Placed, RedisTypeOK
  <2>2. /\ \A q \in Caller : q # r /\ at[q] = w /\ pc[q] \in {"taking", "giving"} =>
             read'[q] = read[q] /\ overtaken'[q] = overtaken[q] + 1
        /\ \A q \in Caller : at[q] # w =>
             read'[q] = read[q] /\ overtaken'[q] = overtaken[q]
    BY <1>6, WritesShape
  <2>3. \A q \in Caller : pc'[q] \in {"taking", "giving"} => q # r /\ pc[q] = pc'[q]
    BY <1>0, <2>1 DEF Goes
  <2>4. /\ \/ pc[r] = "taking" /\ hh(w) = h(w) + 1
           \/ pc[r] = "giving" /\ hh(w) + 1 = h(w)
        /\ h(w) \in Nat /\ hh(w) \in Nat
    <3>1. ~Take(r)
      BY <1>6 DEF Take
    <3>2. ~Fail(r)
      BY <1>6 DEF Fail, Calling
    <3> QED
      BY <1>3, <1>6, <2>1, <3>1, <3>2
  <2>5. /\ h(w) <= k + read[r] + slips[w] + overtaken[r]
        /\ read[r] \in Nat /\ overtaken[r] \in Nat /\ slips[w] \in Nat /\ slips'[w] \in Nat
        /\ k \in Nat /\ kk \in Nat /\ kk >= k
    BY <1>0, <1>1, <1>6, <2>1
  <2>6. hh(w) <= kk + n + slips'[w]
    <3>1. h(w) <= k + read[r] + slips'[w]
      BY <2>1, <2>5
    <3>2. CASE pc[r] = "taking"
      <4>1. n = read[r] + 1 /\ hh(w) = h(w) + 1
        BY <2>1, <2>4, <3>2
      <4>2. hh(w) <= k + (read[r] + 1) + slips'[w]
        BY <2>4, <2>5, <3>1, <4>1
      <4> HIDE DEF n
      <4> QED
        BY <2>4, <2>5, <4>1, <4>2
    <3>3. CASE pc[r] = "giving"
      <4>1. hh(w) + 1 = h(w) /\ n \in Nat /\ n >= read[r] - 1
        BY <2>1, <2>4, <2>5, <3>3
      <4> HIDE DEF n
      <4>2. hh(w) <= k + (read[r] - 1) + slips'[w]
        BY <2>4, <2>5, <3>1, <4>1
      <4> QED
        BY <2>4, <2>5, <4>1, <4>2
    <3> QED
      BY <2>4, <3>2, <3>3
  <2> HIDE DEF n
  <2>7. ASSUME NEW v \in Worker
        PROVE  hh(v) <= kk + local'[v] + slips'[v]
    <3>1. CASE v = w
      BY <2>6, <3>1 DEF n
    <3>2. CASE v # w
      <4>1. /\ hh(v) = h(v) /\ local'[v] = local[v] /\ slips'[v] = slips[v]
            /\ h(v) <= k + local[v] + slips[v]
            /\ h(v) \in Nat /\ local[v] \in Nat /\ slips[v] \in Nat
        BY <1>0, <1>1, <1>3, <2>1, <3>2
      <4> QED
        BY <2>5, <4>1
    <3> QED
      BY <3>1, <3>2
  <2>8. ASSUME NEW q \in Caller, pc'[q] \in {"taking", "giving"}
        PROVE  hh(at[q]) <= kk + read'[q] + slips'[at[q]] + overtaken'[q]
    <3>1. /\ q # r /\ pc[q] \in {"taking", "giving"}
          /\ h(at[q]) <= k + read[q] + slips[at[q]] + overtaken[q]
          /\ read[q] \in Nat /\ overtaken[q] \in Nat
          /\ slips[at[q]] \in Nat /\ h(at[q]) \in Nat /\ hh(at[q]) \in Nat
      BY <1>0, <1>1, <1>3, <2>3, <2>8
    <3>2. CASE at[q] = w
      <4>1. /\ read'[q] = read[q] /\ overtaken'[q] = overtaken[q] + 1
            /\ slips'[at[q]] = slips[at[q]] + overtaken[r]
            /\ hh(at[q]) <= h(at[q]) + 1
        BY <2>1, <2>2, <2>4, <3>1, <3>2
      <4>2. slips'[at[q]] \in Nat /\ slips'[at[q]] >= slips[at[q]]
        BY <2>5, <3>1, <4>1
      <4>3. hh(at[q]) <= k + read[q] + slips[at[q]] + (overtaken[q] + 1)
        BY <2>5, <3>1, <4>1
      <4>4. hh(at[q]) <= kk + read[q] + slips[at[q]] + (overtaken[q] + 1)
        BY <2>5, <3>1, <4>3
      <4>5. hh(at[q]) <= kk + read[q] + slips'[at[q]] + (overtaken[q] + 1)
        BY <2>5, <3>1, <4>2, <4>4
      <4> QED
        BY <4>1, <4>5
    <3>3. CASE at[q] # w
      <4>1. /\ read'[q] = read[q] /\ overtaken'[q] = overtaken[q]
            /\ slips'[at[q]] = slips[at[q]] /\ hh(at[q]) = h(at[q])
        BY <1>0, <1>3, <2>1, <2>2, <3>3
      <4> QED
        BY <2>5, <3>1, <4>1
    <3> QED
      BY <3>2, <3>3
  <2> QED
    BY <1>0, <2>7, <2>8
<1> QED
  BY <1>5, <1>6

\* A worker that is killed leaves nobody behind.
LEMMA FallbackKill ==
  ASSUME Placed, FallbackInv, NEW v \in Worker, Kill(v)
  PROVE  FallbackInv'
<1>0. /\ at \in [Caller -> Worker] /\ pc \in [Caller -> PC]
      /\ local \in [Worker -> Nat] /\ slips \in [Worker -> Nat]
      /\ healthy \in [Worker -> BOOLEAN] /\ counted \in [Caller -> BOOLEAN]
      /\ limit \in Nat /\ forgotten \in Nat /\ conc \in Int
      /\ at' = at /\ limit' = limit /\ forgotten' = forgotten /\ conc' = conc
      /\ \A q \in Caller : pc'[q] = IF at[q] = v THEN "idle" ELSE pc[q]
      /\ \A q \in Caller : counted'[q] = (counted[q] /\ at[q] # v)
  <2>1. limit \in Nat
    BY RedisAssumption DEF Placed, RedisTypeOK
  <2> QED
    BY <2>1, KillType DEF Placed, RedisTypeOK
<1>1. /\ local' = [local EXCEPT ![v] = 0] /\ slips' = [slips EXCEPT ![v] = 0]
      /\ healthy' = [healthy EXCEPT ![v] = TRUE]
      /\ \A q \in Caller : at[q] # v => read'[q] = read[q] /\ overtaken'[q] = overtaken[q]
  BY DEF Kill
<1>2. NoneMissing'
  <2>1. InCounter \in SUBSET Caller /\ InCounter' \in SUBSET InCounter
    BY <1>0 DEF InCounter
  <2>2. IsFiniteSet(InCounter) /\ Cardinality(InCounter') <= Cardinality(InCounter)
    BY <2>1, CallersFinite, FS_Subset
  <2>3. Cardinality(InCounter') \in Nat /\ Cardinality(InCounter) \in Nat
    BY <2>1, <2>2, CallersFinite
  <2>4. Cardinality(InCounter) <= conc + forgotten
    BY DEF FallbackInv, NoneMissing
  <2> QED
    BY <1>0, <2>2, <2>3, <2>4 DEF NoneMissing
<1>3. FallenBack'
  <2>1. FallenBack
    BY DEF FallbackInv
  <2> QED
    BY <1>0, <1>1, <2>1 DEF FallenBack, Acquiring, Calling
<1>4. /\ HoldersAt(v)' = {} /\ Untold(v)' = {}
      /\ \A w \in Worker : w # v =>
           /\ HoldersAt(w)' = HoldersAt(w) /\ Untold(w)' = Untold(w)
           /\ UsesRedis(w)' => UsesRedis(w)
  BY <1>0, <1>1 DEF HoldersAt, Untold, UsesRedis
<1>5. FewUntold'
  <2>1. ASSUME NEW w \in Worker, UsesRedis(w)'
        PROVE  Cardinality(Untold(w)') <= slips'[w]
    <3>1. CASE w = v
      <4>1. Cardinality(Untold(w)') = 0
        BY <1>4, <3>1, FS_EmptySet
      <4> QED
        BY <1>0, <1>1, <3>1, <4>1
    <3>2. CASE w # v
      BY <1>0, <1>1, <1>4, <2>1, <3>2 DEF FallbackInv, FewUntold
    <3> QED
      BY <3>1, <3>2
  <2> QED
    BY <2>1 DEF FewUntold
<1>6. ASSUME NEW w \in Worker
      PROVE  Cardinality(HoldersAt(w)') <= limit' + forgotten' + local'[w] + slips'[w]
  <2>1. CASE w = v
    <3>1. Cardinality(HoldersAt(w)') = 0
      BY <1>4, <2>1, FS_EmptySet
    <3>2. local'[w] = 0 /\ slips'[w] = 0
      BY <1>0, <1>1, <2>1
    <3> QED
      BY <1>0, <3>1, <3>2
  <2>2. CASE w # v
    BY <1>0, <1>1, <1>4, <2>2 DEF FallbackInv, BoundNear
  <2> QED
    BY <2>1, <2>2
<1>7. ASSUME NEW q \in Caller, pc'[q] \in {"taking", "giving"}
      PROVE  Cardinality(HoldersAt(at[q])')
               <= limit' + forgotten' + read'[q] + slips'[at[q]] + overtaken'[q]
  <2>1. at[q] # v /\ pc[q] \in {"taking", "giving"} /\ at[q] \in Worker
    BY <1>0, <1>7
  <2>2. /\ read'[q] = read[q] /\ overtaken'[q] = overtaken[q] /\ slips'[at[q]] = slips[at[q]]
        /\ {r \in Caller : at'[r] = at[q] /\ pc'[r] \in InHands} = HoldersAt(at[q])
    BY <1>0, <1>1, <2>1 DEF HoldersAt, InHands
  <2>3. Cardinality(HoldersAt(at[q]))
          <= limit + forgotten + read[q] + slips[at[q]] + overtaken[q]
    BY <2>1 DEF FallbackInv, BoundNear
  <2> QED
    BY <1>0, <2>2, <2>3 DEF HoldersAt, InHands
<1>8. BoundNear'
  BY <1>0, <1>6, <1>7 DEF BoundNear, HoldersAt
<1> QED
  BY <1>2, <1>3, <1>5, <1>8 DEF FallbackInv

\* The end of the counter's hour forgets the requests it is under.
LEMMA FallbackHour ==
  ASSUME Placed, FallbackInv, HourEnds
  PROVE  FallbackInv'
<1>1. /\ conc' = 0 /\ forgotten' \in Nat /\ forgotten' >= forgotten
      /\ forgotten' >= Cardinality(InCounter)
      /\ UNCHANGED <<counted, healthy, local, read, overtaken, slips, limit, at, pc>>
  BY DeleteType DEF HourEnds, Placed, localVars, given
<1>2. /\ limit \in Nat /\ forgotten \in Nat /\ local \in [Worker -> Nat]
      /\ slips \in [Worker -> Nat] /\ read \in [Caller -> Nat]
      /\ overtaken \in [Caller -> Nat] /\ at \in [Caller -> Worker]
  <2>1. limit \in Nat
    BY RedisAssumption DEF Placed, RedisTypeOK
  <2> QED
    BY <2>1 DEF Placed, RedisTypeOK
<1>3. NoneMissing'
  <2>1. InCounter \in SUBSET Caller /\ InCounter' = InCounter
    BY <1>1 DEF InCounter
  <2>2. Cardinality(InCounter) \in Nat
    BY <2>1, CallersFinite
  <2> QED
    BY <1>1, <2>1, <2>2 DEF NoneMissing
<1>4. FallenBack' /\ FewUntold'
  BY <1>1 DEF FallbackInv, FallenBack, FewUntold, Untold, UsesRedis
<1>5. \A w : HoldersAt(w)' = HoldersAt(w) /\ HoldersAt(w) \in SUBSET Caller
  BY <1>1 DEF HoldersAt
<1>6. \A w : Cardinality(HoldersAt(w)) \in Nat
  BY <1>5, CallersFinite
<1>7. ASSUME NEW w \in Worker
      PROVE  Cardinality(HoldersAt(w)') <= limit' + forgotten' + local'[w] + slips'[w]
  <2>1. Cardinality(HoldersAt(w)) <= limit + forgotten + local[w] + slips[w]
    BY DEF FallbackInv, BoundNear
  <2> QED
    BY <1>1, <1>2, <1>5, <1>6, <2>1
<1>8. ASSUME NEW q \in Caller, pc[q] \in {"taking", "giving"}
      PROVE  Cardinality(HoldersAt(at[q]))
               <= limit + forgotten' + read[q] + slips[at[q]] + overtaken[q]
  <2>1. Cardinality(HoldersAt(at[q]))
          <= limit + forgotten + read[q] + slips[at[q]] + overtaken[q]
    BY <1>8 DEF FallbackInv, BoundNear
  <2> QED
    BY <1>1, <1>2, <1>6, <2>1
<1>9. BoundNear'
  BY <1>1, <1>7, <1>8 DEF BoundNear, HoldersAt
<1> QED
  BY <1>3, <1>4, <1>9 DEF FallbackInv

\* At first there is nobody.
LEMMA FallbackInit == RedisInit => FallbackInv
<1> SUFFICES ASSUME RedisInit PROVE FallbackInv
  OBVIOUS
<1>1. /\ InCounter = {} /\ \A w : HoldersAt(w) = {} /\ Untold(w) = {}
      /\ limit \in Nat /\ conc = 0 /\ forgotten = 0
      /\ \A w \in Worker : local[w] = 0 /\ slips[w] = 0
  BY RedisAssumption DEF RedisInit, InCounter, HoldersAt, Untold
<1>2. NoneMissing /\ FewUntold
  BY <1>1, FS_EmptySet DEF NoneMissing, FewUntold
<1>3. FallenBack
  BY DEF RedisInit, FallenBack, Acquiring, Calling
<1>4. BoundNear
  <2>1. \A q \in Caller : pc[q] \notin {"taking", "giving"}
    BY DEF RedisInit
  <2> QED
    BY <1>1, <2>1, FS_EmptySet DEF BoundNear
<1> QED
  BY <1>2, <1>3, <1>4 DEF FallbackInv

\* Every step keeps the invariant.
LEMMA FallbackStep == Placed /\ FallbackInv /\ [RedisNext]_limiterVars => FallbackInv'
<1> SUFFICES ASSUME Placed, FallbackInv, [RedisNext]_limiterVars
             PROVE  FallbackInv'
  OBVIOUS
<1>1. Placed'
  BY PlacedStep
<1>2. ASSUME NEW r \in Caller, RedisStep(r) \/ LocalStep(r) \/ Fail(r)
      PROVE  FallbackInv'
  <2>1. NoneMissing /\ FallenBack /\ FewUntold /\ BoundNear
    BY DEF FallbackInv
  <2>2. NoneMissing' /\ FallenBack' /\ FewUntold'
    BY <1>2, <2>1, MissingMoves, FallenMoves, UntoldMoves
  <2>3. BoundNear'
    BY <1>1, <1>2, <2>1, <2>2, BoundMoves
  <2> QED
    BY <2>2, <2>3 DEF FallbackInv
<1>3. CASE UNCHANGED limiterVars
  BY <1>3 DEF limiterVars, redisVars, localVars, given, FallbackInv, NoneMissing, FallenBack,
     FewUntold, BoundNear, Untold, UsesRedis, HoldersAt, InCounter
<1> QED
  BY <1>2, <1>3, FallbackKill, FallbackHour DEF RedisNext

\* What falling back costs, for any number of workers, requests and mishaps: a
\* worker that turns to its own counter has twice the limit under way at most, but
\* for the requests Redis forgot when the counter was deleted or ran out
\* (rate_limit.py:234, 247-249) and the changes of its own counter that pool
\* threads overwrote (rate_limit.py:74-98).
THEOREM FallbackIsBounded == RedisSpec => []FallbackBound
<1>1. Placed /\ FallbackInv => FallbackBound
  <2> SUFFICES ASSUME Placed, FallbackInv, NEW w \in Worker
               PROVE  Cardinality(HoldersAt(w)) <= 2 * limit + forgotten + slips[w]
    BY DEF FallbackBound
  <2>1. /\ limit \in Nat /\ forgotten \in Nat /\ slips[w] \in Nat
        /\ local[w] \in Nat /\ local[w] <= limit
    BY RedisAssumption DEF Placed, RedisTypeOK
  <2>2. Cardinality(HoldersAt(w)) <= limit + forgotten + local[w] + slips[w]
    BY DEF FallbackInv, BoundNear
  <2>3. HoldersAt(w) \in SUBSET Caller
    BY DEF HoldersAt
  <2>4. Cardinality(HoldersAt(w)) \in Nat
    BY <2>3, CallersFinite
  <2> QED
    BY <2>1, <2>2, <2>4
<1> QED
  BY PlacedInit, PlacedStep, FallbackInit, FallbackStep, <1>1, PTL DEF RedisSpec
=============================================================================
