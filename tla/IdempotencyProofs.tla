------------------------- MODULE IdempotencyProofs -------------------------
(***************************************************************************)
(* Proofs about Idempotency, for any requests, keys and bodies.  IInv is   *)
(* inductive: whoever holds an uncommitted claim is alone with a free      *)
(* slot, whoever read a committed claim found a completed one, and such a  *)
(* row and its handler's writes are never without each other.              *)
(***************************************************************************)
EXTENDS Idempotency, TLAPS

Holding(r) == tx[r].pc \in {"handling", "completing", "committing"}

\* A committed row is a completed one, and belongs to a committed execution.
TableInv ==
    \A s \in Slot :
        \/ table[s].status = "none" /\ table[s].request = NoRequest
        \/ /\ table[s].status = "completed"
           /\ table[s].request \in effects
           /\ SlotOf(table[s].request) = s

EffectsInv ==
    \A r \in effects : tx[r].pc = "done" /\ table[SlotOf(r)].request = r

\* Claims in flight are exclusive.
HolderInv ==
    /\ \A r \in Request : Holding(r) => table[SlotOf(r)].status = "none"
    /\ \A q, r \in Request :
          Holding(q) /\ Holding(r) /\ SlotOf(q) = SlotOf(r) => q = r

ReaderInv ==
    \A r \in Request :
        /\ tx[r].pc = "finding" => table[SlotOf(r)].status = "completed"
        /\ tx[r].pc = "replaying" =>
              /\ table[SlotOf(r)].status = "completed"
              /\ tx[r].from = table[SlotOf(r)].request
              /\ BodyOf[tx[r].from] = BodyOf[r]

AnswerInv ==
    \A r \in Request :
        /\ answer[r].kind # "none" <=> tx[r].pc = "done"
        /\ answer[r].kind = "result" =>
              /\ answer[r].from \in effects
              /\ SlotOf(answer[r].from) = SlotOf(r)
              /\ BodyOf[answer[r].from] = BodyOf[r]

IInv == TypeOK /\ TableInv /\ EffectsInv /\ HolderInv /\ ReaderInv /\ AnswerInv

-----------------------------------------------------------------------------
\* The slot a request claims is a slot.
LEMMA SlotOfType ==
  ASSUME TypeOK
  PROVE  \A r \in Request : SlotOf(r) \in Slot
  BY RequestAssumption DEF TypeOK, Transaction, SlotOf, Slot

\* Nothing is claimed, executed or answered at first.
LEMMA InitIInv == Init => IInv
<1> SUFFICES ASSUME Init PROVE IInv
  OBVIOUS
<1>1. TypeOK
  BY BoundAssumption
  DEF Init, TypeOK, Scope, Row, Transaction, Answer, NoRow, NoTx, NoAnswer
<1>2. \A r \in Request : tx[r].pc = "idle" /\ answer[r].kind = "none"
  BY DEF Init, NoTx, NoAnswer
<1>3. \A s \in Slot : table[s].status = "none" /\ table[s].request = NoRequest
  BY DEF Init, NoRow
<1>4. effects = {}
  BY DEF Init
<1> QED
  BY <1>1, <1>2, <1>3, <1>4
  DEF IInv, TableInv, EffectsInv, HolderInv, ReaderInv, AnswerInv, Holding

\* The types of what the actions write.
LEMMA GotoType ==
  ASSUME TypeOK, NEW r \in Request,
         NEW pc \in {"idle", "claiming", "finding", "replaying", "handling",
                     "completing", "committing", "done"},
         Goto(r, pc)
  PROVE  /\ tx' \in [Request -> Transaction]
         /\ \A q \in Request : q # r => tx'[q] = tx[q]
         /\ tx'[r].pc = pc /\ tx'[r].scope = tx[r].scope /\ tx'[r].from = tx[r].from
  BY DEF TypeOK, Goto, Transaction

\* The types of the answers, likewise.
LEMMA RespondType ==
  ASSUME TypeOK, NEW r \in Request,
         NEW kind \in {"none", "result", "inProgress", "reused", "error"},
         NEW from \in Request \union {NoRequest},
         Respond(r, kind, from)
  PROVE  /\ answer' \in [Request -> Answer]
         /\ \A q \in Request : q # r => answer'[q] = answer[q]
         /\ answer'[r].kind = kind /\ answer'[r].from = from
  BY DEF TypeOK, Respond, Answer

\* What every step of r leaves alone: the other requests, and r's own scope
\* once it has started.
Others(r) ==
    /\ \A q \in Request : q # r => tx'[q] = tx[q] /\ answer'[q] = answer[q]
    /\ tx[r].pc # "idle" => tx'[r].scope = tx[r].scope

\* What the invariant asks of the one request that moves.
OwnInv(r) ==
    /\ tx[r].pc \in {"finding", "replaying"} => table[SlotOf(r)].status = "completed"
    /\ tx[r].pc = "replaying" =>
          /\ tx[r].from = table[SlotOf(r)].request
          /\ BodyOf[tx[r].from] = BodyOf[r]
    /\ Holding(r) =>
          /\ table[SlotOf(r)].status = "none"
          /\ \A q \in Request \ {r} : Holding(q) => SlotOf(q) # SlotOf(r)
    /\ answer[r].kind # "none" <=> tx[r].pc = "done"
    /\ answer[r].kind = "result" =>
          /\ answer[r].from \in effects
          /\ SlotOf(answer[r].from) = SlotOf(r)
          /\ BodyOf[answer[r].from] = BodyOf[r]

\* A step of r that commits nothing has to answer for r alone.
LEMMA LocalStep ==
  ASSUME IInv, TypeOK', NEW r \in Request, tx[r].pc # "done", Others(r), OwnInv(r)',
         UNCHANGED <<table, effects>>
  PROVE  IInv'
<1>1. r \notin effects
  BY DEF IInv, EffectsInv
<1>2. \A q \in Request : q # r => SlotOf(q)' = SlotOf(q) /\ Holding(q)' = Holding(q)
  BY DEF Others, SlotOf, Holding
<1>3. effects \subseteq Request
  BY DEF IInv, TypeOK
<1>4. TableInv'
  BY <1>1, <1>2, <1>3 DEF IInv, TableInv
<1>5. EffectsInv'
  BY <1>1, <1>2, <1>3 DEF IInv, EffectsInv, Others
<1>6. HolderInv'
  <2>1. \A q \in Request : Holding(q)' => (table[SlotOf(q)].status = "none")'
    BY <1>2 DEF IInv, HolderInv, OwnInv
  <2>2. ASSUME NEW p \in Request, NEW q \in Request,
               Holding(p)', Holding(q)', (SlotOf(p) = SlotOf(q))'
        PROVE  p = q
    <3>1. CASE p # r /\ q # r
      BY <1>2, <2>2, <3>1 DEF IInv, HolderInv
    <3>2. CASE p = r \/ q = r
      BY <2>2, <3>2 DEF OwnInv
    <3> QED
      BY <3>1, <3>2
  <2> QED
    BY <2>1, <2>2 DEF HolderInv
<1>7. ReaderInv'
  BY <1>2 DEF IInv, ReaderInv, OwnInv, Others
<1>8. AnswerInv'
  <2>1. ASSUME NEW q \in Request, q # r
        PROVE  /\ (answer[q].kind # "none" <=> tx[q].pc = "done")'
               /\ (answer[q].kind = "result")' =>
                    /\ (answer[q].from \in effects)'
                    /\ (SlotOf(answer[q].from) = SlotOf(q))'
                    /\ (BodyOf[answer[q].from] = BodyOf[q])'
    <3>1. answer'[q] = answer[q] /\ tx'[q] = tx[q] /\ SlotOf(q)' = SlotOf(q)
      BY <1>2, <2>1 DEF Others
    <3>2. ASSUME answer[q].kind = "result"
          PROVE  /\ answer[q].from \in effects
                 /\ SlotOf(answer[q].from)' = SlotOf(answer[q].from)
      <4>1. answer[q].from \in effects
        BY <3>2 DEF IInv, AnswerInv
      <4>2. answer[q].from \in Request /\ answer[q].from # r
        BY <4>1, <1>1, <1>3
      <4>3. tx'[answer[q].from] = tx[answer[q].from]
        BY <4>2 DEF Others
      <4> QED
        BY <4>1, <4>3, <3>1 DEF SlotOf
    <3> QED
      BY <3>1, <3>2 DEF IInv, AnswerInv, SlotOf
  <2> QED
    BY <2>1 DEF AnswerInv, OwnInv
<1> QED
  BY <1>4, <1>5, <1>6, <1>7, <1>8 DEF IInv

\* A step that commits r's claim as a completed row.
LEMMA DurableStep ==
  ASSUME IInv, TypeOK', NEW r \in Request, tx[r].pc = "committing", Others(r), Durable(r),
         \/ answer'[r].kind = "error"
         \/ answer'[r].kind = "result" /\ answer'[r].from = r
  PROVE  IInv'
<1>1. r \notin effects
  BY DEF IInv, EffectsInv
<1>2. /\ \A q \in Request : SlotOf(q)' = SlotOf(q)
      /\ \A q \in Request : q # r => Holding(q)' = Holding(q)
  BY DEF Others, SlotOf, Holding
<1>3. effects \subseteq Request /\ effects' = effects \union {r}
  BY DEF IInv, TypeOK, Durable
<1>4. SlotOf(r) \in Slot
  BY SlotOfType DEF IInv
<1>5. /\ table'[SlotOf(r)].status = "completed"
      /\ table'[SlotOf(r)].request = r
      /\ \A s \in Slot : s # SlotOf(r) => table'[s] = table[s]
  BY <1>4 DEF Durable, IInv, TypeOK
<1>6. tx'[r].pc = "done"
  BY GotoType DEF Durable, IInv
<1>7. /\ Holding(r)
      /\ table[SlotOf(r)].status = "none"
      /\ \A q \in Request \ {r} : Holding(q) => SlotOf(q) # SlotOf(r)
  BY DEF Holding, IInv, HolderInv
<1>8. \A q \in Request : SlotOf(q) \in Slot
  BY SlotOfType DEF IInv
<1>9. \A q \in Request : SlotOf(q) = SlotOf(r) =>
          /\ q \notin effects
          /\ q # r => ~ Holding(q)
          /\ tx[q].pc \notin {"finding", "replaying"}
          /\ answer[q].kind # "result"
  <2>1. \A q \in effects : SlotOf(q) # SlotOf(r)
    BY <1>4, <1>7, <1>3, RequestAssumption DEF IInv, TableInv, EffectsInv
  <2> QED
    BY <2>1, <1>7 DEF IInv, ReaderInv, AnswerInv
<1>10. TableInv'
  <2> SUFFICES ASSUME NEW s \in Slot
               PROVE  (\/ table[s].status = "none" /\ table[s].request = NoRequest
                       \/ /\ table[s].status = "completed"
                          /\ table[s].request \in effects
                          /\ SlotOf(table[s].request) = s)'
    BY DEF TableInv
  <2>1. CASE s = SlotOf(r)
    BY <2>1, <1>2, <1>3, <1>5
  <2>2. CASE s # SlotOf(r)
    <3>1. table'[s] = table[s]
      BY <2>2, <1>5
    <3>2. \A q \in effects : SlotOf(q)' = SlotOf(q)
      BY <1>2, <1>3
    <3>3. CASE table[s].status = "none" /\ table[s].request = NoRequest
      BY <3>1, <3>3
    <3>4. CASE /\ table[s].status = "completed"
               /\ table[s].request \in effects
               /\ SlotOf(table[s].request) = s
      <4>1. SlotOf(table[s].request)' = SlotOf(table[s].request)
        BY <3>1, <3>2, <3>4 DEF SlotOf
      <4> QED
        BY <3>1, <3>4, <4>1, <1>3
    <3> QED
      BY <3>3, <3>4 DEF IInv, TableInv
  <2> QED
    BY <2>1, <2>2
<1>11. EffectsInv'
  BY <1>2, <1>3, <1>5, <1>6, <1>8, <1>9 DEF IInv, EffectsInv, Others
<1>12. HolderInv'
  BY <1>2, <1>5, <1>6, <1>7, <1>8 DEF IInv, HolderInv, Holding
<1>13. ReaderInv'
  BY <1>2, <1>5, <1>6, <1>8, <1>9 DEF IInv, ReaderInv, Others
<1>14. AnswerInv'
  <2>1. ASSUME NEW q \in Request, q # r
        PROVE  /\ (answer[q].kind # "none" <=> tx[q].pc = "done")'
               /\ (answer[q].kind = "result")' =>
                    /\ (answer[q].from \in effects)'
                    /\ (SlotOf(answer[q].from) = SlotOf(q))'
                    /\ (BodyOf[answer[q].from] = BodyOf[q])'
    <3>1. answer'[q] = answer[q] /\ tx'[q] = tx[q] /\ SlotOf(q)' = SlotOf(q)
      BY <1>2, <2>1 DEF Others
    <3>2. ASSUME answer[q].kind = "result"
          PROVE  /\ answer[q].from \in effects
                 /\ SlotOf(answer[q].from)' = SlotOf(answer[q].from)
      <4>1. answer[q].from \in effects
        BY <3>2 DEF IInv, AnswerInv
      <4>2. answer[q].from \in Request /\ answer[q].from # r
        BY <4>1, <1>1, <1>3
      <4>3. tx'[answer[q].from] = tx[answer[q].from]
        BY <4>2 DEF Others
      <4> QED
        BY <4>1, <4>3, <3>1 DEF SlotOf
    <3> QED
      BY <3>1, <3>2, <1>3 DEF IInv, AnswerInv, SlotOf
  <2>2. /\ (answer[r].kind # "none" <=> tx[r].pc = "done")'
        /\ (answer[r].kind = "result")' =>
             /\ (answer[r].from \in effects)'
             /\ (SlotOf(answer[r].from) = SlotOf(r))'
             /\ (BodyOf[answer[r].from] = BodyOf[r])'
    BY <1>3, <1>6 DEF SlotOf
  <2> QED
    BY <2>1, <2>2 DEF AnswerInv
<1> QED
  BY <1>10, <1>11, <1>12, <1>13, <1>14 DEF IInv

-----------------------------------------------------------------------------
\* The budget of faults stays a budget.
LEMMA FaultType ==
  ASSUME TypeOK, Fault
  PROVE  faults' \in 0..MaxFaults
  BY BoundAssumption DEF TypeOK, Fault

\* Every step keeps the types.
LEMMA NextTypeOK ==
  ASSUME TypeOK, [Next]_vars
  PROVE  TypeOK'
<1>1. CASE UNCHANGED vars
  BY <1>1 DEF TypeOK, vars
<1>2. CASE SwitchToken
  BY <1>2, BoundAssumption DEF TypeOK, SwitchToken
<1>3. ASSUME NEW r \in Request, Start(r)
      PROVE  TypeOK'
  BY <1>3 DEF TypeOK, Start, session, Transaction
<1>4. ASSUME NEW r \in Request, ClaimAcquired(r) \/ ClaimConflicts(r) \/ Handle(r) \/ Complete(r)
      PROVE  TypeOK'
  BY <1>4, GotoType
  DEF TypeOK, ClaimAcquired, ClaimConflicts, Handle, Complete, session
<1>5. ASSUME NEW r \in Request, ClaimTimesOut(r) \/ FinishReplay(r)
      PROVE  TypeOK'
  <2>1. tx[r].from \in Request \union {NoRequest}
    BY DEF TypeOK, Transaction
  <2> QED
    BY <1>5, <2>1, GotoType, RespondType
    DEF TypeOK, ClaimTimesOut, FinishReplay, session
<1>6. ASSUME NEW r \in Request, FindExisting(r)
      PROVE  TypeOK'
  <2>1. table[SlotOf(r)].request \in Request \union {NoRequest}
    BY SlotOfType DEF TypeOK, Row
  <2>2. CASE ExistingClaim(r) = "replay"
    BY <1>6, <2>1, <2>2 DEF TypeOK, FindExisting, session, Transaction
  <2>3. CASE ExistingClaim(r) # "replay"
    <3>1. ExistingClaim(r) \in {"inProgress", "reused"}
      BY <2>3 DEF ExistingClaim
    <3> QED
      BY <1>6, <2>3, <3>1, GotoType, RespondType DEF TypeOK, FindExisting, session
  <2> QED
    BY <2>2, <2>3
<1>7. ASSUME NEW r \in Request, HandlerThrows(r) \/ Fails(r)
      PROVE  TypeOK'
  <2>1. /\ Goto(r, "done") /\ Respond(r, "error", NoRequest)
        /\ UNCHANGED <<session, table, effects>>
    BY <1>7 DEF HandlerThrows, Fails, Undo
  <2>2. faults' \in 0..MaxFaults
    BY <1>7, FaultType DEF TypeOK, HandlerThrows, Fails
  <2> QED
    BY <2>1, <2>2, GotoType, RespondType DEF TypeOK, session
<1>8. ASSUME NEW r \in Request, Commit(r) \/ CommitUnanswered(r)
      PROVE  TypeOK'
  <2>1. [status |-> "completed", request |-> r] \in Row
    BY DEF Row
  <2>2. Durable(r) /\ table' \in [Slot -> Row]
    BY <1>8, <2>1 DEF TypeOK, Commit, CommitUnanswered, Durable
  <2>3. faults' \in 0..MaxFaults
    BY <1>8, FaultType DEF TypeOK, Commit, CommitUnanswered
  <2>4. answer' \in [Request -> Answer] /\ UNCHANGED session
    BY <1>8, RespondType DEF Commit, CommitUnanswered
  <2>5. tx' \in [Request -> Transaction] /\ effects' \subseteq Request
    BY <2>2, GotoType DEF TypeOK, Durable
  <2> QED
    BY <2>2, <2>3, <2>4, <2>5 DEF TypeOK, session
<1> QED
  BY <1>1, <1>2, <1>3, <1>4, <1>5, <1>6, <1>7, <1>8 DEF Next, Step

-----------------------------------------------------------------------------
\* The claim: a free slot without a holder is taken by one.
LEMMA ClaimStep ==
  ASSUME IInv, TypeOK', NEW r \in Request,
         Start(r) \/ ClaimAcquired(r) \/ ClaimConflicts(r) \/ Handle(r) \/ Complete(r)
  PROVE  IInv'
<1>1. /\ tx[r].pc \notin {"done", "finding", "replaying"}
      /\ UNCHANGED <<table, effects, answer>>
  BY DEF Start, ClaimAcquired, ClaimConflicts, Handle, Complete
<1>2. answer[r].kind = "none"
  BY <1>1 DEF IInv, AnswerInv
<1>3. \A s \in Slot : table[s].status \in {"none", "completed"}
  BY DEF IInv, TableInv
<1>4. SlotOf(r) \in Slot /\ \A q \in Request : q # r => tx'[q] = tx[q]
  BY SlotOfType, GotoType
  DEF IInv, TypeOK, Start, ClaimAcquired, ClaimConflicts, Handle, Complete
<1>5. CASE Start(r)
  <2>1. tx[r].pc = "idle" /\ tx'[r].pc = "claiming"
    BY <1>5 DEF Start, IInv, TypeOK
  <2> QED
    BY <1>1, <1>2, <1>4, <2>1, LocalStep DEF Others, OwnInv, Holding
<1>6. CASE ~ Start(r)
  <2>1. Others(r) /\ SlotOf(r)' = SlotOf(r)
    BY <1>1, <1>4, <1>6, GotoType
    DEF IInv, Others, SlotOf, ClaimAcquired, ClaimConflicts, Handle, Complete
  <2>2. \A q \in Request : q # r => SlotOf(q)' = SlotOf(q) /\ Holding(q)' = Holding(q)
    BY <1>4 DEF SlotOf, Holding
  <2>3. CASE ClaimAcquired(r)
    <3>1. tx'[r].pc = "handling" /\ table[SlotOf(r)].status = "none"
      BY <2>3, GotoType DEF IInv, ClaimAcquired
    <3>2. \A q \in Request \ {r} : Holding(q) => SlotOf(q) # SlotOf(r)
      BY <2>3 DEF ClaimAcquired, Blocked, Holders, Holding
    <3> QED
      BY <1>1, <1>2, <2>1, <2>2, <3>1, <3>2, LocalStep DEF OwnInv
  <2>4. CASE ClaimConflicts(r)
    <3>1. tx'[r].pc = "finding" /\ table[SlotOf(r)].status = "completed"
      BY <1>3, <1>4, <2>4, GotoType DEF IInv, ClaimConflicts
    <3> QED
      BY <1>1, <1>2, <2>1, <3>1, LocalStep DEF OwnInv, Holding
  <2>5. CASE Handle(r) \/ Complete(r)
    <3>1. /\ tx'[r].pc \in {"completing", "committing"}
          /\ Holding(r)
      BY <2>5, GotoType DEF IInv, Handle, Complete, Holding
    <3>2. /\ table[SlotOf(r)].status = "none"
          /\ \A q \in Request \ {r} : Holding(q) => SlotOf(q) # SlotOf(r)
      BY <3>1 DEF IInv, HolderInv
    <3> QED
      BY <1>1, <1>2, <2>1, <2>2, <3>1, <3>2, LocalStep DEF OwnInv
  <2> QED
    BY <1>6, <2>3, <2>4, <2>5
<1> QED
  BY <1>5, <1>6

\* A request that ends without committing anything answers a refusal, or the
\* committed result it found.
LEMMA AnswerStep ==
  ASSUME IInv, TypeOK', NEW r \in Request,
         \/ ClaimTimesOut(r) \/ FindExisting(r) \/ FinishReplay(r)
         \/ HandlerThrows(r) \/ Fails(r)
  PROVE  IInv'
<1>1. /\ tx[r].pc \notin {"idle", "done"}
      /\ UNCHANGED <<table, effects>>
  BY DEF ClaimTimesOut, FindExisting, FinishReplay, HandlerThrows, Fails, Undo
<1>2. SlotOf(r) \in Slot /\ table[SlotOf(r)].request \in Request \union {NoRequest}
  BY SlotOfType DEF IInv, TypeOK, Row
<1>3. tx[r].from \in Request \union {NoRequest}
  BY DEF IInv, TypeOK, Transaction
<1>4. ASSUME NEW kind \in {"inProgress", "reused", "error"},
             Goto(r, "done"), Respond(r, kind, NoRequest)
      PROVE  IInv'
  <2>1. Others(r) /\ tx'[r].pc = "done" /\ answer'[r].kind = kind
    BY <1>4, GotoType, RespondType DEF IInv, Others
  <2> QED
    BY <1>1, <2>1, LocalStep DEF OwnInv, Holding
<1>5. CASE ClaimTimesOut(r) \/ HandlerThrows(r) \/ Fails(r)
  BY <1>4, <1>5 DEF ClaimTimesOut, HandlerThrows, Fails, Undo
<1>6. CASE FindExisting(r) /\ ExistingClaim(r) # "replay"
  <2>1. ExistingClaim(r) \in {"inProgress", "reused"}
    BY <1>6 DEF ExistingClaim
  <2> QED
    BY <1>4, <1>6, <2>1 DEF FindExisting
<1>7. CASE FindExisting(r) /\ ExistingClaim(r) = "replay"
  <2>1. /\ tx[r].pc = "finding"
        /\ tx' = [tx EXCEPT ![r].pc = "replaying", ![r].from = table[SlotOf(r)].request]
        /\ UNCHANGED answer
    BY <1>7 DEF FindExisting
  <2>2. /\ tx'[r].pc = "replaying"
        /\ tx'[r].from = table[SlotOf(r)].request
        /\ Others(r)
        /\ SlotOf(r)' = SlotOf(r)
    BY <2>1 DEF IInv, TypeOK, Transaction, Others, SlotOf
  <2>3. table[SlotOf(r)].status = "completed"
    BY <2>1 DEF IInv, ReaderInv
  <2>4. BodyOf[table[SlotOf(r)].request] = BodyOf[r]
    BY <1>7, <2>3 DEF ExistingClaim
  <2>5. answer'[r].kind = "none"
    BY <2>1 DEF IInv, AnswerInv
  <2> QED
    BY <1>1, <2>2, <2>3, <2>4, <2>5, LocalStep DEF OwnInv, Holding
<1>8. CASE FinishReplay(r)
  <2>1. /\ tx[r].pc = "replaying"
        /\ Goto(r, "done")
        /\ Respond(r, "result", tx[r].from)
    BY <1>8 DEF FinishReplay
  <2>2. /\ tx'[r].pc = "done"
        /\ answer'[r].kind = "result" /\ answer'[r].from = tx[r].from
        /\ Others(r)
        /\ SlotOf(r)' = SlotOf(r)
    BY <1>3, <2>1, GotoType, RespondType DEF IInv, Others, SlotOf
  <2>3. /\ tx[r].from \in effects
        /\ SlotOf(tx[r].from) = SlotOf(r)
        /\ BodyOf[tx[r].from] = BodyOf[r]
    BY <1>2, <2>1 DEF IInv, ReaderInv, TableInv
  <2>4. tx[r].from # r /\ tx[r].from \in Request
    BY <2>1, <2>3 DEF IInv, EffectsInv, TypeOK
  <2>5. tx'[tx[r].from] = tx[tx[r].from]
    BY <2>2, <2>4 DEF Others
  <2>6. SlotOf(answer[r].from)' = SlotOf(r)'
    BY <2>2, <2>3, <2>5 DEF SlotOf
  <2> QED
    BY <1>1, <2>2, <2>3, <2>6, LocalStep DEF OwnInv, Holding
<1> QED
  BY <1>5, <1>6, <1>7, <1>8

-----------------------------------------------------------------------------
\* IInv is inductive: the kinds of step, put together.
LEMMA NextIInv == IInv /\ [Next]_vars => IInv'
<1> SUFFICES ASSUME IInv, [Next]_vars PROVE IInv'
  OBVIOUS
<1> TypeOK'
  BY NextTypeOK DEF IInv
<1>1. CASE UNCHANGED vars \/ SwitchToken
  <2>1. UNCHANGED <<table, tx, effects, answer>>
    BY <1>1 DEF vars, SwitchToken
  <2> QED
    BY <2>1
    DEF IInv, TableInv, EffectsInv, HolderInv, ReaderInv, AnswerInv, Holding, SlotOf
<1>2. ASSUME NEW r \in Request, Commit(r) \/ CommitUnanswered(r)
      PROVE  IInv'
  <2>1. tx[r].pc = "committing" /\ Durable(r)
    BY <1>2 DEF Commit, CommitUnanswered
  <2>2. /\ \A q \in Request : q # r => answer'[q] = answer[q]
        /\ \/ answer'[r].kind = "error"
           \/ answer'[r].kind = "result" /\ answer'[r].from = r
    BY <1>2, RespondType DEF IInv, Commit, CommitUnanswered
  <2>3. Others(r)
    BY <2>1, <2>2, GotoType DEF IInv, Durable, Others
  <2> QED
    BY <2>1, <2>2, <2>3, DurableStep
<1> QED
  BY <1>1, <1>2, ClaimStep, AnswerStep DEF Next, Step

\* IInv, the invariant every theorem below rests on.
THEOREM IdempotencyInvariant == Spec => []IInv
<1> QED
  BY InitIInv, NextIInv, PTL DEF Spec

\* The types of the claim table and of the requests' transactions.
THEOREM IdempotencyTypeCorrect == Spec => []TypeOK
<1>1. IInv => TypeOK
  BY DEF IInv
<1> QED
  BY <1>1, IdempotencyInvariant, PTL

\* Whatever requests race for a key, at most one handler's writes for it are
\* ever committed (handleMarkedRoute over the unique index of the store).
THEOREM IdempotencyExecutedOnce == Spec => []ExecutedOnce
<1>1. IInv => ExecutedOnce
  BY DEF IInv, EffectsInv, ExecutedOnce
<1> QED
  BY <1>1, IdempotencyInvariant, PTL

\* existingClaim replays only a committed result of the same scope, key and
\* fingerprint.
THEOREM IdempotencyResultIsOwn == Spec => []ResultIsOfItsOwnRequest
<1>1. IInv => ResultIsOfItsOwnRequest
  BY DEF IInv, AnswerInv, ResultIsOfItsOwnRequest
<1> QED
  BY <1>1, IdempotencyInvariant, PTL

\* The claim rolls back with the handler, so no key is left in progress.
THEOREM IdempotencyNoStuckKey == Spec => []NoStuckKey
<1>1. IInv => NoStuckKey
  BY DEF IInv, TableInv, NoStuckKey
<1> QED
  BY <1>1, IdempotencyInvariant, PTL

-----------------------------------------------------------------------------
(* The refinement: every step is a step of SingleExecution or a stutter.    *)
Refused(r) == answer'[r].kind \in {"inProgress", "reused", "error"}

\* What the mapped variables become when r alone is answered.
LEMMA RepliesStep ==
  ASSUME IInv, NEW r \in Request, NEW reply,
         tx[r].pc # "done", (ReplyTo(r) = reply)',
         \A q \in Request : q # r => answer'[q] = answer[q]
  PROVE  /\ ReplyTo(r) = NoRequest
         /\ [q \in Request |-> ReplyTo(q)]'
              = [[q \in Request |-> ReplyTo(q)] EXCEPT ![r] = reply]
  BY DEF IInv, AnswerInv, ReplyTo

\* A time-out, an error or a refusal of the claim is a Refuse.
LEMMA RefuseStep ==
  ASSUME IInv, NEW r \in Request, tx[r].pc # "done", Refused(r), UNCHANGED table,
         \A q \in Request : q # r => answer'[q] = answer[q]
  PROVE  Single!Next
<1>1. (ReplyTo(r) = "refused")'
  BY DEF Refused, ReplyTo
<1>2. Single!Refuse(r)
  BY <1>1, RepliesStep DEF Single!Refuse
<1> QED
  BY <1>2 DEF Single!Next

\* Answering from the row that was found is a Replay.
LEMMA ReplayStep ==
  ASSUME IInv, NEW r \in Request, FinishReplay(r)
  PROVE  Single!Next
<1>1. /\ tx[r].pc = "replaying"
      /\ Respond(r, "result", tx[r].from)
      /\ UNCHANGED table
  BY DEF FinishReplay
<1>2. tx[r].from \in Request \union {NoRequest}
  BY DEF IInv, TypeOK, Transaction
<1>3. /\ answer'[r].kind = "result" /\ answer'[r].from = tx[r].from
      /\ \A q \in Request : q # r => answer'[q] = answer[q]
  BY <1>1, <1>2, RespondType DEF IInv
<1>4. /\ SlotOf(r) \in Slot
      /\ tx[r].from = table[SlotOf(r)].request
      /\ table[SlotOf(r)].status = "completed"
  BY <1>1, SlotOfType DEF IInv, ReaderInv
<1>5. table[SlotOf(r)].request # NoRequest
  BY <1>4, RequestAssumption DEF IInv, TypeOK, TableInv
<1>6. ReplyTo(r)' = table[SlotOf(r)].request
  BY <1>3, <1>4 DEF ReplyTo
<1>7. Single!Replay(SlotOf(r), r)
  <2> DEFINE result == [s \in Slot |-> table[s].request]
  <2>1. result[SlotOf(r)] = table[SlotOf(r)].request /\ UNCHANGED result
    BY <1>1, <1>4
  <2> QED
    BY <1>1, <1>3, <1>5, <1>6, <2>1, RepliesStep DEF Single!Replay
<1> QED
  BY <1>4, <1>7 DEF Single!Next

\* The commit of the claim with the handler's writes is an Execute.
LEMMA ExecuteStep ==
  ASSUME IInv, NEW r \in Request, Commit(r) \/ CommitUnanswered(r)
  PROVE  Single!Next
<1>1. /\ tx[r].pc = "committing"
      /\ Durable(r)
  BY DEF Commit, CommitUnanswered
<1>2. /\ \A q \in Request : q # r => answer'[q] = answer[q]
      /\ \/ answer'[r].kind = "error"
         \/ answer'[r].kind = "result" /\ answer'[r].from = r
  BY RespondType DEF IInv, Commit, CommitUnanswered
<1>3. SlotOf(r) \in Slot /\ table[SlotOf(r)].status = "none"
  BY <1>1, SlotOfType DEF IInv, HolderInv, Holding
<1>4. table[SlotOf(r)].request = NoRequest
  BY <1>3 DEF IInv, TableInv
<1>5. ReplyTo(r)' = r \/ ReplyTo(r)' = "refused"
  BY <1>2 DEF ReplyTo
<1>6. [s \in Slot |-> table[s].request]'
        = [[s \in Slot |-> table[s].request] EXCEPT ![SlotOf(r)] = r]
  <2>1. /\ table'[SlotOf(r)].request = r
        /\ \A s \in Slot : s # SlotOf(r) => table'[s] = table[s]
    BY <1>1, <1>3 DEF Durable, IInv, TypeOK
  <2> QED
    BY <2>1, <1>3
<1>7. ReplyTo(r) = NoRequest /\ \/ [q \in Request |-> ReplyTo(q)]'
                                    = [[q \in Request |-> ReplyTo(q)] EXCEPT ![r] = r]
                                \/ [q \in Request |-> ReplyTo(q)]'
                                    = [[q \in Request |-> ReplyTo(q)] EXCEPT ![r] = "refused"]
  BY <1>1, <1>2, <1>5, RepliesStep
<1>8. Single!Execute(SlotOf(r), r)
  BY <1>3, <1>4, <1>6, <1>7 DEF Single!Execute
<1> QED
  BY <1>3, <1>8 DEF Single!Next

\* Every step is one of these, or invisible.
LEMMA RefinementStep ==
  IInv /\ [Next]_vars => [Single!Next]_(Single!replyVars)
<1> SUFFICES ASSUME IInv, [Next]_vars
             PROVE  Single!Next \/ UNCHANGED Single!replyVars
  OBVIOUS
<1>1. ASSUME UNCHANGED <<table, answer>>
      PROVE  UNCHANGED Single!replyVars
  BY <1>1 DEF Single!replyVars, ReplyTo
<1>2. CASE UNCHANGED vars \/ SwitchToken
  BY <1>1, <1>2 DEF vars, SwitchToken
<1>3. ASSUME NEW r \in Request,
             Start(r) \/ ClaimAcquired(r) \/ ClaimConflicts(r) \/ Handle(r) \/ Complete(r)
      PROVE  UNCHANGED Single!replyVars
  BY <1>1, <1>3 DEF Start, ClaimAcquired, ClaimConflicts, Handle, Complete
<1>4. ASSUME NEW r \in Request, ClaimTimesOut(r) \/ HandlerThrows(r) \/ Fails(r)
      PROVE  Single!Next
  <2>1. /\ tx[r].pc # "done" /\ UNCHANGED table
        /\ Respond(r, "inProgress", NoRequest) \/ Respond(r, "error", NoRequest)
    BY <1>4 DEF ClaimTimesOut, HandlerThrows, Fails, Undo
  <2>2. Refused(r) /\ \A q \in Request : q # r => answer'[q] = answer[q]
    BY <2>1, RespondType DEF IInv, Refused
  <2> QED
    BY <2>1, <2>2, RefuseStep
<1>5. ASSUME NEW r \in Request, FindExisting(r)
      PROVE  Single!Next \/ UNCHANGED Single!replyVars
  <2>1. CASE ExistingClaim(r) = "replay"
    BY <1>1, <1>5, <2>1 DEF FindExisting
  <2>2. CASE ExistingClaim(r) # "replay"
    <3>1. ExistingClaim(r) \in {"inProgress", "reused"}
      BY <2>2 DEF ExistingClaim
    <3>2. /\ tx[r].pc # "done" /\ UNCHANGED table
          /\ Respond(r, ExistingClaim(r), NoRequest)
      BY <1>5, <2>2 DEF FindExisting
    <3>3. Refused(r) /\ \A q \in Request : q # r => answer'[q] = answer[q]
      BY <3>1, <3>2, RespondType DEF IInv, Refused
    <3> QED
      BY <3>2, <3>3, RefuseStep
  <2> QED
    BY <2>1, <2>2
<1> QED
  BY <1>2, <1>3, <1>4, <1>5, ReplayStep, ExecuteStep DEF Next, Step

\* The claim, wait, replay protocol is a SingleExecution: a reply is refused
\* or is the reply of the one committed execution.
THEOREM IdempotencyImplementsSingle == Spec => ImplementsSingleExecution
<1>1. Init => Single!Init
  BY DEF Init, Single!Init, NoRow, NoAnswer, ReplyTo
<1> QED
  BY <1>1, RefinementStep, IdempotencyInvariant, PTL
  DEF Spec, ImplementsSingleExecution, Single!Spec
==============================================================================
