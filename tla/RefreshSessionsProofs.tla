------------------------ MODULE RefreshSessionsProofs ------------------------
(***************************************************************************)
(* Proofs about RefreshSessions, for any number of requests at a time, any *)
(* number of tokens and password changes.  IInv is inductive: a token is   *)
(* younger than the one it was rotated from, a transaction knows committed *)
(* tokens only, one that commits a rotation takes its own token with it,   *)
(* one that ends sessions takes every session issued before it looked, and *)
(* a rotation of a session that ended meanwhile knows that it is late.     *)
(***************************************************************************)
EXTENDS MCRefreshSessions, FiniteSetTheorems, TLAPS

Ending == {"reuse", "logout", "change"}

\* Lineage and families grow with the tokens; clients and revocations know
\* issued tokens only.
LineageInv ==
    /\ \A t \in 1..issued : parent[t] \in 0..(t - 1) /\ family[t] \in 1..t
    /\ \A t \in 1..issued : loginWith[t] <= password
    /\ known \subseteq 1..issued
    /\ ended \subseteq 1..issued

Changing == {p \in Proc : op[p].kind = "change"}

\* The tokens and the changes still to come fit their bounds.
CapacityInv ==
    /\ issued + Cardinality(Issuing) <= MaxToken
    /\ password + Cardinality(Changing) <= MaxChanges

\* Where a transaction is, and which token it is about.
KindInv(p) ==
    /\ op[p].pc = "idle" <=> op[p].kind = "none"
    /\ op[p].pc \in {"saving", "writing"} => op[p].kind = "rotate"
    /\ op[p].pc = "changing" => op[p].kind = "change"
    /\ op[p].pc \in {"revoking", "updating"} => op[p].kind \in Ending
    /\ op[p].kind \in {"none", "login", "change"} => op[p].token = NoToken
    /\ op[p].kind \in {"rotate", "reuse", "logout"} => op[p].token \in 1..issued
    /\ op[p].upto <= issued
    /\ op[p].verified <= password

\* A rotation that commits leaves its own token unusable.
RotateInv(p) ==
    op[p].kind = "rotate" /\ op[p].pc = "committing" =>
        op[p].token \in op[p].revokes \/ row[op[p].token] # "active"

\* What ends sessions has found every usable one it concerns and that was
\* issued when it looked.
EndInv(p) ==
    op[p].kind \in Ending =>
        \A t \in 1..op[p].upto : row[t] = "active" /\ Ends(p, t) =>
            /\ op[p].pc = "updating" => t \in op[p].seen
            /\ op[p].pc = "committing" => t \in op[p].revokes

\* Who issues a token for a family or a password that ended since is late.
LateInv(p) ==
    /\ op[p].kind = "rotate" /\ Ended(op[p].token) =>
          op[p].late \/ op[p].token \in survivors
    /\ op[p].kind = "login" /\ op[p].verified < password => op[p].late

ProcInv(p) == KindInv(p) /\ RotateInv(p) /\ EndInv(p) /\ LateInv(p)

IInv ==
    /\ TypeOK /\ LineageInv /\ CapacityInv
    /\ \A p \in Proc : ProcInv(p)
    /\ LineageExclusive /\ SurvivorsOverlapped

-----------------------------------------------------------------------------
(* Lemmas about one transaction.                                            *)

\* Nothing is issued at first, and nobody is at work.
LEMMA InitIInv == Init => IInv
<1> SUFFICES ASSUME Init PROVE IInv
  OBVIOUS
<1>1. TypeOK
  BY BoundAssumption DEF Init, TypeOK, NoOp, Operation, Token, NoToken
<1>2. \A p \in Proc : op[p] = NoOp
  BY DEF Init
<1>3. issued = 0 /\ 1..issued = {} /\ password = 0
  BY DEF Init
<1>4. Issuing = {} /\ Changing = {}
  BY <1>2 DEF Issuing, Changing, NoOp
<1>5. CapacityInv
  BY <1>3, <1>4, FS_EmptySet, BoundAssumption DEF CapacityInv
<1>6. \A p \in Proc : ProcInv(p)
  BY <1>2, <1>3, <1>1
  DEF ProcInv, KindInv, RotateInv, EndInv, LateInv, NoOp, NoToken, Ending
<1>7. LineageInv
  BY <1>3 DEF LineageInv, Init
<1> QED
  BY <1>1, <1>3, <1>5, <1>6, <1>7 DEF IInv, LineageExclusive, SurvivorsOverlapped

\* The number of transactions of a kind is a number, and one that p may have
\* joined or left is off by one at most.
LEMMA Counting ==
  ASSUME NEW S \in SUBSET Proc, NEW T \in SUBSET Proc, NEW p \in Proc
  PROVE  /\ Cardinality(S) \in Nat
         /\ T \subseteq S => Cardinality(T) <= Cardinality(S)
         /\ T \subseteq S \union {p} => Cardinality(T) <= Cardinality(S) + 1
         /\ p \in S => Cardinality(S \ {p}) = Cardinality(S) - 1
<1>1. IsFiniteSet(S)
  BY ProcAssumption, FS_Subset
<1>2. Cardinality(S) \in Nat
  BY <1>1, FS_CardinalityType
<1>3. T \subseteq S => Cardinality(T) <= Cardinality(S)
  BY <1>1, FS_Subset
<1>4. /\ IsFiniteSet(S \union {p})
      /\ Cardinality(S \union {p}) \in {Cardinality(S), Cardinality(S) + 1}
  BY <1>1, FS_AddElement
<1>5. T \subseteq S \union {p} => Cardinality(T) <= Cardinality(S) + 1
  <2> SUFFICES ASSUME T \subseteq S \union {p}
               PROVE  Cardinality(T) <= Cardinality(S) + 1
    OBVIOUS
  <2>1. IsFiniteSet(T) /\ Cardinality(T) <= Cardinality(S \union {p})
    BY <1>4, FS_Subset
  <2>2. Cardinality(T) \in Nat
    BY <2>1, FS_CardinalityType
  <2> QED
    BY <1>2, <1>4, <2>1, <2>2
<1>6. p \in S => Cardinality(S \ {p}) = Cardinality(S) - 1
  BY <1>1, FS_RemoveElement
<1> QED
  BY <1>2, <1>3, <1>5, <1>6

\* Whoever is to issue a token finds room for it.
LEMMA RoomToIssue ==
  ASSUME TypeOK, CapacityInv, NEW p \in Issuing
  PROVE  issued + 1 \in Token
<1>1. issued \in Nat /\ MaxToken \in Nat /\ p \in Proc /\ Issuing \in SUBSET Proc
  BY BoundAssumption DEF TypeOK, Issuing
<1>2. Cardinality(Issuing) \in Nat /\ Cardinality(Issuing) >= 1
  <2>1. Issuing \ {p} \in SUBSET Proc /\ Cardinality(Issuing \ {p}) \in Nat
    BY <1>1, Counting
  <2> QED
    BY <2>1, <1>1, Counting
<1> QED
  BY <1>1, <1>2 DEF CapacityInv, Token

\* What p's transaction becomes, and that nobody else's changes.
Becomes(p, o) ==
    /\ o \in Operation
    /\ op' \in [Proc -> Operation]
    /\ op'[p] = o
    /\ \A q \in Proc \ {p} : op'[q] = op[q]

\* Every step of a transaction that does not commit: its own part of the
\* invariant and the bounds are all it can disturb.
LEMMA LocalStep ==
  ASSUME IInv, NEW p \in Proc, NEW o, Becomes(p, o),
         UNCHANGED <<rows, expired, password, history>>, faults' \in 0..MaxFaults,
         o.kind \in {"login", "rotate"} => p \in Issuing \/ Room,
         o.kind = "change" =>
            p \in Changing \/ password + Cardinality(Changing) < MaxChanges,
         ProcInv(p)'
  PROVE  IInv'
<1>1. TypeOK'
  BY DEF IInv, TypeOK, Becomes, rows, history
<1>2. \A q \in Proc : ProcInv(q)'
  <2> SUFFICES ASSUME NEW q \in Proc, q # p PROVE ProcInv(q)'
    OBVIOUS
  <2>1. ProcInv(q) /\ op'[q] = op[q]
    BY DEF IInv, Becomes
  <2> QED
    BY <2>1 DEF ProcInv, KindInv, RotateInv, EndInv, LateInv, Ends, Ended, rows, history
<1>3. CapacityInv'
  <2>1. issued' = issued /\ password' = password /\ issued \in Nat /\ password \in Nat
    BY BoundAssumption DEF rows, IInv, TypeOK
  <2>2. issued + Cardinality(Issuing') <= MaxToken
    <3>1. Issuing \in SUBSET Proc /\ Issuing' \in SUBSET Proc
      BY DEF Issuing
    <3>2. Cardinality(Issuing) \in Nat /\ Cardinality(Issuing') \in Nat
      BY <3>1, Counting
    <3>3. Issuing' \subseteq Issuing \union {p}
      BY DEF Issuing, Becomes
    <3>4. Cardinality(Issuing') <= Cardinality(Issuing) + 1
      BY <3>1, <3>3, Counting
    <3>5. CASE p \in Issuing \/ o.kind \notin {"login", "rotate"}
      <4>1. Issuing' \subseteq Issuing
        BY <3>5 DEF Issuing, Becomes
      <4>2. Cardinality(Issuing') <= Cardinality(Issuing)
        BY <4>1, <3>1, Counting
      <4> QED
        BY <4>2, <3>2, <2>1, BoundAssumption DEF IInv, CapacityInv
    <3>6. CASE Room
      BY <3>6, <3>2, <3>4, <2>1, BoundAssumption DEF Room
    <3> QED
      BY <3>5, <3>6
  <2>3. password + Cardinality(Changing') <= MaxChanges
    <3>1. Changing \in SUBSET Proc /\ Changing' \in SUBSET Proc
      BY DEF Changing
    <3>2. Cardinality(Changing) \in Nat /\ Cardinality(Changing') \in Nat
      BY <3>1, Counting
    <3>3. Changing' \subseteq Changing \union {p}
      BY DEF Changing, Becomes
    <3>4. Cardinality(Changing') <= Cardinality(Changing) + 1
      BY <3>1, <3>3, Counting
    <3>5. CASE p \in Changing \/ o.kind # "change"
      <4>1. Changing' \subseteq Changing
        BY <3>5 DEF Changing, Becomes
      <4>2. Cardinality(Changing') <= Cardinality(Changing)
        BY <4>1, <3>1, Counting
      <4> QED
        BY <4>2, <3>2, <2>1, BoundAssumption DEF IInv, CapacityInv
    <3>6. CASE password + Cardinality(Changing) < MaxChanges
      BY <3>6, <3>2, <3>4, <2>1, BoundAssumption
    <3> QED
      BY <3>5, <3>6
  <2> QED
    BY <2>1, <2>2, <2>3 DEF CapacityInv
<1>4. LineageInv' /\ LineageExclusive' /\ SurvivorsOverlapped'
  BY DEF IInv, LineageInv, LineageExclusive, SurvivorsOverlapped, Ended, rows, history
<1> QED
  BY <1>1, <1>2, <1>3, <1>4 DEF IInv

\* The shape of those steps: a transaction begins or is left as something
\* else, the others as they are.
LEMMA BecomesSomething ==
  ASSUME TypeOK, NEW p \in Proc, NEW o \in Operation, op' = [op EXCEPT ![p] = o]
  PROVE  Becomes(p, o)
  BY DEF TypeOK, Becomes

\* NoOp is an operation that asks nothing of the rows.
LEMMA NoOpType == NoOp \in Operation
  BY BoundAssumption DEF NoOp, Operation, NoToken, Token

\* A transaction that ends, however it ends, without a commit.
LEMMA EndsQuietly ==
  ASSUME IInv, NEW p \in Proc, End(p),
         UNCHANGED <<rows, expired, password, history>>, faults' \in 0..MaxFaults
  PROVE  IInv'
<1>1. Becomes(p, NoOp)
  BY NoOpType, BecomesSomething DEF IInv, End
<1>2. ProcInv(p)'
  <2>1. issued' \in Nat /\ password' \in Nat
    BY BoundAssumption DEF rows, IInv, TypeOK
  <2> QED
  BY <1>1, <2>1
  DEF Becomes, ProcInv, KindInv, RotateInv, EndInv, LateInv, NoOp, NoToken, Ending
<1>3. NoOp.kind = "none"
  BY DEF NoOp
<1> QED
  BY <1>1, <1>2, <1>3, LocalStep

\* LoginUseCase, RotateRefreshUseCase, LogoutUseCase, SetOrChangePasswordUseCase
\* read what they decide on.
LEMMA ReadsKeepIInv ==
  ASSUME IInv, NEW p \in Proc,
         \/ LoginReads(p) \/ ChangeReads(p)
         \/ \E t \in known : RotateReads(p, t) \/ RotateReadsRevoked(p, t) \/ LogoutReads(p, t)
  PROVE  IInv'
<1> USE DEF IInv, TypeOK
<1>0. /\ issued \in Nat /\ password \in 0..MaxChanges /\ faults' = faults
      /\ 1..issued \subseteq Token
      /\ UNCHANGED <<rows, expired, password, history>>
  <2>1. UNCHANGED <<rows, expired, password, faults, history>>
    BY DEF LoginReads, ChangeReads, RotateReads, RotateReadsRevoked, LogoutReads
  <2>2. issued \in Nat /\ 1..issued \subseteq Token
    BY BoundAssumption DEF Token
  <2> QED
    BY <2>1, <2>2
<1>1. CASE LoginReads(p)
  <2> DEFINE o == [NoOp EXCEPT !.pc = "committing", !.kind = "login", !.verified = password]
  <2>1. o \in Operation
    BY <1>0, NoOpType DEF Operation, NoOp
  <2>2. Becomes(p, o)
    BY <1>1, <2>1, BecomesSomething DEF LoginReads, Begin
  <2>3. ProcInv(p)'
    BY <2>2, <1>0
    DEF Becomes, NoOp, ProcInv, KindInv, RotateInv, EndInv, LateInv, Ending, rows
  <2>4. o.kind = "login" /\ Room
    BY <1>1 DEF NoOp, LoginReads
  <2> HIDE DEF o
  <2> QED
    BY <1>0, <2>2, <2>3, <2>4, LocalStep
<1>2. CASE ChangeReads(p)
  <2> DEFINE o == [NoOp EXCEPT !.pc = "changing", !.kind = "change", !.verified = password]
  <2>1. o \in Operation
    BY <1>0, NoOpType DEF Operation, NoOp
  <2>2. Becomes(p, o)
    BY <1>2, <2>1, BecomesSomething DEF ChangeReads, Begin
  <2>3. ProcInv(p)'
    BY <2>2, <1>0
    DEF Becomes, NoOp, ProcInv, KindInv, RotateInv, EndInv, LateInv, Ending, rows
  <2>4. o.kind = "change" /\ password + Cardinality(Changing) < MaxChanges
    BY <1>2 DEF NoOp, ChangeReads, Changing
  <2> HIDE DEF o
  <2> QED
    BY <1>0, <2>2, <2>3, <2>4, LocalStep
<1>3. ASSUME NEW t \in known, RotateReads(p, t)
      PROVE  IInv'
  <2> DEFINE o == [NoOp EXCEPT !.pc = "saving", !.kind = "rotate", !.token = t]
  <2>1. t \in 1..issued /\ o \in Operation
    BY <1>0, NoOpType DEF Operation, NoOp, LineageInv
  <2>2. Becomes(p, o)
    BY <1>3, <2>1, BecomesSomething DEF RotateReads, Begin
  <2>3. row[t] = "active" /\ (Ended(t) => t \in survivors)
    BY <1>3, <2>1 DEF RotateReads, SurvivorsOverlapped
  <2>4. ProcInv(p)'
    BY <2>1, <2>2, <2>3, <1>0
    DEF Becomes, NoOp, ProcInv, KindInv, RotateInv, EndInv, LateInv, Ending, Ended, rows, history
  <2>5. o.kind = "rotate" /\ Room
    BY <1>3 DEF NoOp, RotateReads
  <2> HIDE DEF o
  <2> QED
    BY <1>0, <2>2, <2>4, <2>5, LocalStep
<1>4. ASSUME NEW t \in known, NEW kind \in {"reuse", "logout"},
             Begin(p, [NoOp EXCEPT !.pc = "revoking", !.kind = kind, !.token = t])
      PROVE  IInv'
  <2> DEFINE o == [NoOp EXCEPT !.pc = "revoking", !.kind = kind, !.token = t]
  <2>1. t \in 1..issued /\ o \in Operation
    BY <1>0, NoOpType DEF Operation, NoOp, LineageInv
  <2>2. Becomes(p, o)
    BY <1>4, <2>1, BecomesSomething DEF Begin
  <2>3. ProcInv(p)'
    BY <2>1, <2>2, <1>0
    DEF Becomes, NoOp, ProcInv, KindInv, RotateInv, EndInv, LateInv, Ending, rows
  <2>4. o.kind \in {"reuse", "logout"}
    BY DEF NoOp
  <2> HIDE DEF o
  <2> QED
    BY <1>0, <2>2, <2>3, <2>4, LocalStep
<1> QED
  BY <1>1, <1>2, <1>3, <1>4 DEF RotateReadsRevoked, LogoutReads

\* A rotation looks its row up again and writes it.
LEMMA SaveKeepsIInv ==
  ASSUME IInv, NEW p \in Proc, SaveReloads(p) \/ SaveWrites(p) \/ SaveConflicts(p)
  PROVE  IInv'
<1> USE DEF IInv, TypeOK
<1>0. /\ issued \in Nat /\ password \in 0..MaxChanges /\ 1..issued \subseteq Token
      /\ op[p] \in Operation /\ ProcInv(p)
  BY BoundAssumption DEF Token
<1>1. CASE SaveReloads(p)
  <2> DEFINE o == [op[p] EXCEPT !.pc = "writing", !.reinsert = row[op[p].token] = "none"]
  <2>1. /\ o \in Operation /\ o.kind = "rotate" /\ op[p].kind = "rotate"
        /\ o.pc = "writing" /\ o.token = op[p].token /\ o.late = op[p].late
        /\ o.upto = op[p].upto /\ o.verified = op[p].verified
    BY <1>0, <1>1 DEF SaveReloads, Operation, ProcInv, KindInv
  <2>2. op' = [op EXCEPT ![p] = o]
    BY <1>1 DEF SaveReloads
  <2> HIDE DEF o
  <2>3. Becomes(p, o)
    BY <2>1, <2>2, BecomesSomething
  <2>4. UNCHANGED <<rows, expired, password, faults, history>>
    BY <1>1 DEF SaveReloads
  <2>5. ProcInv(p)'
    BY <2>1, <2>3, <2>4, <1>0
    DEF Becomes, ProcInv, KindInv, RotateInv, EndInv, LateInv, Ending, Ended, rows, history
  <2> QED
    BY <2>1, <2>3, <2>4, <2>5, LocalStep DEF Issuing
<1>2. CASE SaveWrites(p)
  <2> DEFINE t == op[p].token
             written == IF op[p].reinsert \/ row[t] # "none" THEN {t} ELSE {}
             o == [op[p] EXCEPT !.pc = "committing", !.revokes = written]
  <2>1. op[p].kind = "rotate" /\ t \in 1..issued /\ t \in Token
    BY <1>0, <1>2 DEF SaveWrites, ProcInv, KindInv
  <2>2. /\ o \in Operation /\ o.kind = "rotate"
        /\ o.pc = "committing" /\ o.token = op[p].token /\ o.late = op[p].late
        /\ o.upto = op[p].upto /\ o.verified = op[p].verified
        /\ o.token \in o.revokes \/ row[o.token] = "none"
    BY <1>0, <2>1 DEF Operation
  <2>3. op' = [op EXCEPT ![p] = o]
    BY <1>2 DEF SaveWrites
  <2> HIDE DEF o
  <2>4. Becomes(p, o)
    BY <2>2, <2>3, BecomesSomething
  <2>5. UNCHANGED <<rows, expired, password, faults, history>>
    BY <1>2 DEF SaveWrites
  <2>6. ProcInv(p)'
    BY <2>1, <2>2, <2>4, <2>5, <1>0
    DEF Becomes, ProcInv, KindInv, RotateInv, EndInv, LateInv, Ending, Ended, rows, history
  <2> QED
    BY <2>1, <2>2, <2>4, <2>5, <2>6, LocalStep DEF Issuing
<1>3. CASE SaveConflicts(p)
  <2>1. End(p) /\ UNCHANGED <<rows, expired, password, faults, history>>
    BY <1>3 DEF SaveConflicts
  <2> QED
    BY <2>1, EndsQuietly
<1> QED
  BY <1>1, <1>2, <1>3

\* The statements of a change of the password, a logout or a detected reuse.
LEMMA UpdateKeepsIInv ==
  ASSUME IInv, NEW p \in Proc, ChangeWrites(p) \/ UpdateStarts(p) \/ UpdateWrites(p)
  PROVE  IInv'
<1> USE DEF IInv, TypeOK
<1>0. /\ issued \in Nat /\ password \in 0..MaxChanges /\ 1..issued \subseteq Token
      /\ op[p] \in Operation /\ ProcInv(p) /\ issued <= MaxToken
  BY BoundAssumption DEF Token
<1>1. CASE ChangeWrites(p)
  <2> DEFINE o == [op[p] EXCEPT !.pc = "revoking"]
  <2>1. /\ o \in Operation /\ o.kind = "change" /\ op[p].kind = "change"
        /\ o.pc = "revoking" /\ o.token = op[p].token
        /\ o.upto = op[p].upto /\ o.verified = op[p].verified
    BY <1>0, <1>1 DEF ChangeWrites, Step, Operation, ProcInv, KindInv
  <2>2. op' = [op EXCEPT ![p] = o]
    BY <1>1 DEF ChangeWrites, Step
  <2> HIDE DEF o
  <2>3. Becomes(p, o)
    BY <2>1, <2>2, BecomesSomething
  <2>4. UNCHANGED <<rows, expired, password, faults, history>>
    BY <1>1 DEF ChangeWrites
  <2>5. ProcInv(p)'
    BY <2>1, <2>3, <2>4, <1>0
    DEF Becomes, ProcInv, KindInv, RotateInv, EndInv, LateInv, Ending, rows
  <2> QED
    BY <2>1, <2>3, <2>4, <2>5, LocalStep DEF Changing
<1>2. CASE UpdateStarts(p)
  <2> DEFINE o == [op[p] EXCEPT !.pc = "updating", !.seen = Visible(p), !.upto = issued]
  <2>1. op[p].kind \in Ending /\ Visible(p) \subseteq Token
    BY <1>0, <1>2 DEF UpdateStarts, ProcInv, KindInv, Visible
  <2>2. /\ o \in Operation /\ o.kind = op[p].kind
        /\ o.pc = "updating" /\ o.token = op[p].token
        /\ o.upto = issued /\ o.verified = op[p].verified /\ o.seen = Visible(p)
    BY <1>0, <2>1 DEF Operation
  <2>3. op' = [op EXCEPT ![p] = o]
    BY <1>2 DEF UpdateStarts
  <2> HIDE DEF o
  <2>4. Becomes(p, o)
    BY <2>2, <2>3, BecomesSomething
  <2>5. UNCHANGED <<rows, expired, password, faults, history>>
    BY <1>2 DEF UpdateStarts
  <2>6. KindInv(p)' /\ RotateInv(p)' /\ LateInv(p)'
    BY <2>1, <2>2, <2>4, <2>5, <1>0
    DEF Becomes, ProcInv, KindInv, RotateInv, LateInv, Ending, rows
  <2>7. EndInv(p)'
    BY <2>1, <2>2, <2>4, <2>5, <1>0 DEF Becomes, EndInv, Ends, Visible, rows
  <2>8. o.kind = "change" => p \in Changing
    BY <2>2 DEF Changing
  <2> QED
    BY <2>1, <2>2, <2>4, <2>5, <2>6, <2>7, <2>8, LocalStep DEF Ending, ProcInv
<1>3. CASE UpdateWrites(p)
  <2> DEFINE revoked == {t \in op[p].seen : row[t] = "active"}
             o == [op[p] EXCEPT !.pc = "committing", !.revokes = revoked]
  <2>1. op[p].kind \in Ending /\ op[p].pc = "updating" /\ op[p].seen \subseteq Token
    BY <1>0, <1>3 DEF UpdateWrites, ProcInv, KindInv, Operation
  <2>2. /\ o \in Operation /\ o.kind = op[p].kind
        /\ o.pc = "committing" /\ o.token = op[p].token
        /\ o.upto = op[p].upto /\ o.verified = op[p].verified /\ o.revokes = revoked
    BY <1>0, <2>1 DEF Operation
  <2>3. op' = [op EXCEPT ![p] = o]
    BY <1>3 DEF UpdateWrites
  <2> HIDE DEF o
  <2>4. Becomes(p, o)
    BY <2>2, <2>3, BecomesSomething
  <2>5. UNCHANGED <<rows, expired, password, faults, history>>
    BY <1>3 DEF UpdateWrites
  <2>6. KindInv(p)' /\ RotateInv(p)' /\ LateInv(p)'
    BY <2>1, <2>2, <2>4, <2>5, <1>0
    DEF Becomes, ProcInv, KindInv, RotateInv, LateInv, Ending, rows
  <2>7. EndInv(p)'
    BY <2>1, <2>2, <2>4, <2>5, <1>0 DEF Becomes, ProcInv, EndInv, Ends, rows
  <2>8. o.kind = "change" => p \in Changing
    BY <2>2 DEF Changing
  <2> QED
    BY <2>1, <2>2, <2>4, <2>5, <2>6, <2>7, <2>8, LocalStep DEF Ending, ProcInv
<1> QED
  BY <1>1, <1>2, <1>3

-----------------------------------------------------------------------------
(* The commits.                                                             *)

\* A login or a rotation commits its new token, answered or not.
LEMMA IssuesKeepsIInv ==
  ASSUME IInv, NEW p \in Proc, op[p].pc = "committing", Issues(p),
         known' \in {known, known \union {issued'}}, faults' \in 0..MaxFaults
  PROVE  IInv'
<1> DEFINE new == issued + 1
           old == op[p].token
           rotated == op[p].kind = "rotate"
<1>1. /\ issued \in Nat /\ 1..issued \subseteq Token /\ NoToken = 0 /\ MaxToken \in Nat
      /\ op[p] \in Operation /\ ProcInv(p)
      /\ password \in Nat /\ password' = password
  BY BoundAssumption DEF IInv, TypeOK, Token, NoToken, Issues
<1>2. Becomes(p, NoOp)
  BY NoOpType, BecomesSomething DEF IInv, Issues, End
<1>3. issued' = new /\ new \in Token /\ new \notin 1..issued /\ 1..issued' = 1..issued \union {new}
  BY <1>1, RoomToIssue DEF IInv, Issues, Issuing
<1>4. CapacityInv'
  <2>1. Issuing' = Issuing \ {p} /\ p \in Issuing /\ Changing' = Changing
    BY <1>2 DEF Issues, Issuing, Changing, Becomes, NoOp
  <2>2. Issuing \in SUBSET Proc /\ Issuing \ {p} \in SUBSET Proc
    BY DEF Issuing
  <2>3. /\ Cardinality(Issuing) \in Nat /\ Cardinality(Issuing \ {p}) \in Nat
        /\ Cardinality(Issuing \ {p}) = Cardinality(Issuing) - 1
    BY <2>1, <2>2, Counting
  <2>4. Cardinality(Issuing)' = Cardinality(Issuing) - 1
    BY <2>1, <2>3
  <2>5. Cardinality(Changing)' = Cardinality(Changing)
    BY <2>1
  <2>6. issued' + Cardinality(Issuing)' <= MaxToken
    BY <1>1, <1>3, <2>3, <2>4 DEF IInv, CapacityInv
  <2> QED
    BY <1>1, <2>5, <2>6 DEF IInv, CapacityInv
<1>5. /\ row' \in [Token -> {"none", "active", "revoked"}] /\ row'[new] = "active"
      /\ \A t \in 1..issued : row'[t] = IF t \in op[p].revokes THEN "revoked" ELSE row[t]
  BY <1>1, <1>3 DEF IInv, TypeOK, Issues, Saved
<1>6. old \in {NoToken} \union 1..issued /\ (rotated <=> old \in 1..issued)
      /\ (~rotated => op[p].kind = "login" /\ old = NoToken)
  BY <1>1 DEF Issues, ProcInv, KindInv
<1>7. /\ parent' \in [Token -> Token \union {NoToken}] /\ parent'[new] = old
      /\ family' \in [Token -> Token \union {NoToken}]
      /\ family'[new] = IF rotated THEN family[old] ELSE new
      /\ loginWith' \in [Token -> 0..MaxChanges]
      /\ loginWith'[new] = IF rotated THEN loginWith[old] ELSE op[p].verified
      /\ \A t \in 1..issued : /\ parent'[t] = parent[t] /\ family'[t] = family[t]
                              /\ loginWith'[t] = loginWith[t]
  <2>1. old \in Token \union {NoToken} /\ (rotated => old \in Token)
        /\ op[p].verified \in 0..MaxChanges
    BY <1>1, <1>6 DEF Operation
  <2>2. rotated => family[old] \in Token \union {NoToken} /\ loginWith[old] \in 0..MaxChanges
    BY <2>1 DEF IInv, TypeOK
  <2> QED
    BY <1>1, <1>3, <2>1, <2>2 DEF IInv, TypeOK, Issues
<1>8. /\ survivors' = survivors \union {t \in {new} : op[p].late \/ old \in survivors}
      /\ ended' = ended /\ reused' = reused /\ expired' = expired
  BY DEF Issues
<1>9. TypeOK'
  <2>1. issued' \in 0..MaxToken
    BY <1>1, <1>3 DEF Token
  <2>2. /\ known' \subseteq Token /\ expired' \subseteq Token
        /\ ended' \subseteq Token /\ reused' \subseteq Token /\ survivors' \subseteq Token
    BY <1>3, <1>8 DEF IInv, TypeOK
  <2>3. password' \in 0..MaxChanges /\ op' \in [Proc -> Operation]
    BY <1>1, <1>2 DEF IInv, TypeOK, Becomes
  <2> QED
    BY <1>5, <1>7, <2>1, <2>2, <2>3 DEF TypeOK
<1>10. LineageInv'
  <2>1. parent'[new] \in 0..(new - 1) /\ family'[new] \in 1..new
    BY <1>1, <1>6, <1>7 DEF IInv, LineageInv
  <2>2. loginWith'[new] <= password
    BY <1>1, <1>6, <1>7 DEF IInv, LineageInv, ProcInv, KindInv
  <2>3. known' \subseteq 1..issued' /\ ended' \subseteq 1..issued'
    BY <1>3, <1>8 DEF IInv, LineageInv
  <2> QED
    BY <1>1, <1>3, <1>7, <2>1, <2>2, <2>3 DEF IInv, LineageInv
<1>11. \A q \in Proc : ProcInv(q)'
  <2>1. ProcInv(p)'
    BY <1>1, <1>2, <1>3
    DEF Becomes, ProcInv, KindInv, RotateInv, EndInv, LateInv, NoOp, NoToken, Ending
  <2>2. ASSUME NEW q \in Proc \ {p}
        PROVE  ProcInv(q)'
    <3>1. op'[q] = op[q] /\ ProcInv(q) /\ op[q] \in Operation
      BY <1>2 DEF IInv, TypeOK, Becomes
    <3>2. KindInv(q)'
      BY <1>1, <1>3, <3>1 DEF ProcInv, KindInv, Operation
    <3>3. RotateInv(q)'
      BY <1>5, <3>1 DEF ProcInv, KindInv, RotateInv
    <3>4. EndInv(q)'
      <4> SUFFICES ASSUME op[q].kind \in Ending, NEW t \in 1..op[q].upto,
                          row'[t] = "active", Ends(q, t)'
                   PROVE  /\ op[q].pc = "updating" => t \in op[q].seen
                          /\ op[q].pc = "committing" => t \in op[q].revokes
        BY <3>1 DEF EndInv
      <4>1. op[q].kind = "change" \/ op[q].token \in 1..issued
        BY <1>1, <3>1 DEF ProcInv, KindInv, Operation, Ending
      <4>2. t \in 1..issued
        BY <1>1, <3>1 DEF ProcInv, KindInv, Operation
      <4>3. Ends(q, t)
        BY <1>7, <3>1, <4>1, <4>2 DEF Ends
      <4> QED
        BY <1>5, <3>1, <4>2, <4>3 DEF ProcInv, EndInv
    <3>5. LateInv(q)'
      <4>1. op[q].kind = "rotate" => op[q].token \in 1..issued
        BY <3>1 DEF ProcInv, KindInv
      <4> QED
        BY <1>1, <1>7, <1>8, <3>1, <4>1 DEF ProcInv, LateInv, Ended
    <3> QED
      BY <3>2, <3>3, <3>4, <3>5 DEF ProcInv
  <2> QED
    BY <2>1, <2>2
<1>12. LineageExclusive'
  <2> SUFFICES ASSUME NEW t \in 1..issued', row'[t] = "active", parent'[t] # NoToken
               PROVE  row'[parent'[t]] # "active"
    BY DEF LineageExclusive
  <2>1. CASE t = new
    BY <2>1, <1>1, <1>5, <1>6, <1>7 DEF ProcInv, RotateInv
  <2>2. CASE t \in 1..issued
    <3>1. row[t] = "active" /\ parent'[t] = parent[t]
      BY <2>2, <1>5, <1>7
    <3>2. parent[t] \in 1..issued
      BY <2>2, <3>1, <1>1 DEF IInv, LineageInv
    <3>3. row[parent[t]] # "active"
      BY <2>2, <3>1 DEF IInv, LineageExclusive
    <3> QED
      BY <3>1, <3>2, <3>3, <1>5
  <2> QED
    BY <1>3, <2>1, <2>2
<1>13. SurvivorsOverlapped'
  <2> SUFFICES ASSUME NEW t \in 1..issued', row'[t] = "active", Ended(t)'
               PROVE  t \in survivors'
    BY DEF SurvivorsOverlapped
  <2>1. CASE t \in 1..issued
    <3>1. row[t] = "active" /\ Ended(t)
      BY <2>1, <1>1, <1>5, <1>7, <1>8 DEF Ended
    <3> QED
      BY <2>1, <3>1, <1>8 DEF IInv, SurvivorsOverlapped
  <2>2. CASE t = new /\ rotated
    <3>1. Ended(old)
      BY <2>2, <1>1, <1>7, <1>8 DEF Ended
    <3> QED
      BY <2>2, <3>1, <1>1, <1>8 DEF ProcInv, LateInv
  <2>3. CASE t = new /\ ~rotated
    <3>1. new \notin ended
      BY <1>3 DEF IInv, LineageInv
    <3>2. op[p].kind = "login" /\ op[p].verified < password
      BY <2>3, <3>1, <1>1, <1>6, <1>7, <1>8 DEF Ended
    <3> QED
      BY <2>3, <3>2, <1>1, <1>8 DEF ProcInv, LateInv
  <2> QED
    BY <1>3, <2>1, <2>2, <2>3
<1> QED
  BY <1>4, <1>9, <1>10, <1>11, <1>12, <1>13 DEF IInv

\* A logout, a detected reuse or a change of the password commits.
LEMMA RevokeKeepsIInv ==
  ASSUME IInv, NEW p \in Proc, RevokeCommits(p)
  PROVE  IInv'
<1> DEFINE families == {family[t] : t \in {op[p].token} \ {NoToken}}
           Over(t) == family[t] \in ended' \/ loginWith[t] < password'
           started == {q \in Issuing : op[p].kind = "change" \/
                                         (op[q].kind = "rotate" /\ Ends(p, op[q].token))}
<1>1. /\ issued \in Nat /\ 1..issued \subseteq Token /\ NoToken = 0 /\ MaxToken \in Nat
      /\ op[p] \in Operation /\ ProcInv(p) /\ password \in Nat /\ MaxChanges \in Nat
  BY BoundAssumption DEF IInv, TypeOK, Token, NoToken
<1>2. /\ UNCHANGED <<issued, parent, family, known, loginWith, expired, faults>>
      /\ op[p].kind \in Ending /\ op[p].pc = "committing"
  BY DEF RevokeCommits, Ending
<1>3. /\ row' \in [Token -> {"none", "active", "revoked"}]
      /\ \A t \in Token : row'[t] = IF t \in op[p].revokes THEN "revoked" ELSE row[t]
  BY <1>1 DEF IInv, TypeOK, RevokeCommits, Saved
<1>4. /\ op'[p] = NoOp
      /\ \A q \in Proc \ {p} :
            /\ op'[q] = IF q \in started THEN [op[q] EXCEPT !.late = TRUE] ELSE op[q]
            /\ op'[q] \in Operation /\ op'[q].late = (q \in started \/ op[q].late)
            /\ op'[q].kind = op[q].kind /\ op'[q].pc = op[q].pc /\ op'[q].token = op[q].token
            /\ op'[q].upto = op[q].upto /\ op'[q].verified = op[q].verified
            /\ op'[q].seen = op[q].seen /\ op'[q].revokes = op[q].revokes
      /\ op' \in [Proc -> Operation]
  <2>1. op' = [q \in Proc |-> CASE q = p -> NoOp
                                [] q \in started -> [op[q] EXCEPT !.late = TRUE]
                                [] OTHER -> op[q]]
    BY DEF RevokeCommits
  <2>2. op'[p] = NoOp
    <3>1. p \notin started
      BY <1>2 DEF Issuing, Ending
    <3> QED
      BY <2>1, <3>1
  <2>3. ASSUME NEW q \in Proc \ {p}
        PROVE  /\ op'[q] = IF q \in started THEN [op[q] EXCEPT !.late = TRUE] ELSE op[q]
               /\ op'[q] \in Operation /\ op'[q].late = (q \in started \/ op[q].late)
               /\ op'[q].kind = op[q].kind /\ op'[q].pc = op[q].pc /\ op'[q].token = op[q].token
               /\ op'[q].upto = op[q].upto /\ op'[q].verified = op[q].verified
               /\ op'[q].seen = op[q].seen /\ op'[q].revokes = op[q].revokes
    <3>1. op[q] \in Operation
      BY DEF IInv, TypeOK
    <3>2. op'[q] = IF q \in started THEN [op[q] EXCEPT !.late = TRUE] ELSE op[q]
      BY <2>1
    <3> HIDE DEF started
    <3> QED
      BY <3>1, <3>2 DEF Operation
  <2>4. op' \in [Proc -> Operation]
    <3>1. op' = [q \in Proc |-> op'[q]]
      BY <2>1
    <3>2. \A q \in Proc : op'[q] \in Operation
      BY <2>2, <2>3, NoOpType
    <3> QED
      BY <3>1, <3>2
  <2> QED
    BY <2>2, <2>3, <2>4
<1>5. op[p].token \in {NoToken} \union 1..issued /\ families \subseteq 1..issued
      /\ (op[p].kind # "change" => op[p].token \in 1..issued)
  BY <1>1, <1>2 DEF ProcInv, KindInv, Ending, IInv, LineageInv
<1>6. /\ ended' = ended \union families /\ reused' \in {reused, reused \union families}
      /\ survivors' = survivors \union
            {t \in 1..issued : Ends(p, t) /\ row'[t] = "active" /\ t > op[p].upto}
      /\ password' = IF op[p].kind = "change" THEN password + 1 ELSE password
  BY DEF RevokeCommits
<1>7. password' \in 0..MaxChanges /\ CapacityInv'
  <2>1. Issuing' = Issuing /\ Changing' = Changing \ {p}
    BY <1>2, <1>4 DEF Issuing, Changing, NoOp, Ending
  <2>2. Changing \in SUBSET Proc /\ Changing \ {p} \in SUBSET Proc
    BY DEF Changing
  <2>3. /\ Cardinality(Changing) \in Nat /\ Cardinality(Changing \ {p}) \in Nat
        /\ Cardinality(Changing \ {p}) <= Cardinality(Changing)
        /\ p \in Changing => Cardinality(Changing \ {p}) = Cardinality(Changing) - 1
    BY <2>2, Counting
  <2>4. op[p].kind = "change" <=> p \in Changing
    BY DEF Changing
  <2>5. Cardinality(Changing)' = Cardinality(Changing \ {p})
    BY <2>1
  <2>6. Cardinality(Issuing)' = Cardinality(Issuing)
    BY <2>1
  <2>7. password' + Cardinality(Changing)' <= MaxChanges /\ password' \in Nat
    BY <1>1, <1>6, <2>3, <2>4, <2>5 DEF IInv, CapacityInv
  <2>8. password' <= MaxChanges
    BY <1>1, <2>3, <2>5, <2>7
  <2> QED
    BY <1>1, <1>2, <2>6, <2>7, <2>8 DEF IInv, CapacityInv
<1>8. TypeOK'
  <2>1. /\ ended' \subseteq Token /\ reused' \subseteq Token /\ survivors' \subseteq Token
    BY <1>1, <1>5, <1>6 DEF IInv, TypeOK
  <2> QED
    BY <1>2, <1>3, <1>4, <1>7, <2>1 DEF IInv, TypeOK
<1>9. LineageInv'
  <2>1. \A t \in 1..issued : loginWith[t] \in Nat
    BY <1>1 DEF IInv, TypeOK
  <2>2. password <= password'
    BY <1>1, <1>6
  <2>3. \A t \in 1..issued : loginWith[t] <= password'
    BY <1>1, <1>7, <2>1, <2>2 DEF IInv, LineageInv
  <2>4. ended' \subseteq 1..issued
    BY <1>5, <1>6 DEF IInv, LineageInv
  <2> HIDE DEF families, started
  <2> QED
    BY <1>2, <2>3, <2>4 DEF IInv, LineageInv
<1>10. LineageExclusive'
  <2> SUFFICES ASSUME NEW t \in 1..issued, row'[t] = "active", parent[t] # NoToken
               PROVE  row'[parent[t]] # "active"
    BY <1>2 DEF LineageExclusive
  <2>1. row[t] = "active" /\ parent[t] \in Token
    BY <1>1, <1>3 DEF IInv, TypeOK
  <2> QED
    BY <2>1, <1>3 DEF IInv, LineageExclusive
<1>11. \A t \in 1..issued : Over(t) => Ended(t) \/ Ends(p, t)
  <2> SUFFICES ASSUME NEW t \in 1..issued, Over(t), ~Ended(t)
               PROVE  Ends(p, t)
    OBVIOUS
  <2>1. loginWith[t] \in Nat
    BY <1>1 DEF IInv, TypeOK
  <2> QED
    BY <2>1, <1>1, <1>2, <1>6 DEF Ended, Ends
<1>12. SurvivorsOverlapped'
  <2> SUFFICES ASSUME NEW t \in 1..issued, row'[t] = "active", Over(t)
               PROVE  t \in survivors'
    BY <1>2 DEF SurvivorsOverlapped, Ended
  <2>1. row[t] = "active" /\ t \notin op[p].revokes
    BY <1>1, <1>3
  <2>2. CASE Ended(t)
    BY <2>1, <2>2, <1>6 DEF IInv, SurvivorsOverlapped
  <2>3. CASE Ends(p, t)
    <3>1. t \notin 1..op[p].upto
      BY <2>1, <2>3, <1>1, <1>2 DEF ProcInv, EndInv
    <3>2. t > op[p].upto
      BY <3>1, <1>1 DEF Operation
    <3> QED
      BY <2>3, <3>2, <1>6
  <2> QED
    BY <1>11, <2>2, <2>3
<1>13. \A q \in Proc : ProcInv(q)'
  <2>1. ProcInv(p)'
    BY <1>1, <1>2, <1>4, <1>7
    DEF ProcInv, KindInv, RotateInv, EndInv, LateInv, NoOp, NoToken, Ending
  <2>2. ASSUME NEW q \in Proc \ {p}
        PROVE  ProcInv(q)'
    <3> HIDE DEF started, families
    <3>1. /\ ProcInv(q) /\ op[q] \in Operation
          /\ op'[q].late = (q \in started \/ op[q].late)
          /\ op'[q].kind = op[q].kind /\ op'[q].pc = op[q].pc /\ op'[q].token = op[q].token
          /\ op'[q].upto = op[q].upto /\ op'[q].verified = op[q].verified
          /\ op'[q].seen = op[q].seen /\ op'[q].revokes = op[q].revokes
      BY <1>4 DEF IInv, TypeOK
    <3>2. KindInv(q)'
      BY <1>1, <1>2, <1>6, <3>1 DEF ProcInv, KindInv, Operation
    <3>3. RotateInv(q)'
      BY <1>1, <1>3, <3>1 DEF ProcInv, KindInv, RotateInv
    <3>4. EndInv(q)'
      <4> SUFFICES ASSUME op[q].kind \in Ending, NEW t \in 1..op[q].upto,
                          row'[t] = "active", Ends(q, t)'
                   PROVE  /\ op[q].pc = "updating" => t \in op[q].seen
                          /\ op[q].pc = "committing" => t \in op[q].revokes
        BY <3>1 DEF EndInv
      <4>1. t \in 1..issued
        BY <1>1, <3>1 DEF ProcInv, KindInv, Operation
      <4>2. Ends(q, t) /\ row[t] = "active"
        BY <1>1, <1>2, <1>3, <3>1, <4>1 DEF Ends
      <4> QED
        BY <3>1, <4>2 DEF ProcInv, EndInv
    <3>5. LateInv(q)'
      <4>1. ASSUME op[q].kind = "rotate", Over(op[q].token)
            PROVE  op'[q].late \/ op[q].token \in survivors'
        <5>1. op[q].token \in 1..issued
          BY <3>1, <4>1 DEF ProcInv, KindInv
        <5>2. CASE Ended(op[q].token)
          BY <3>1, <4>1, <5>2, <1>6 DEF ProcInv, LateInv
        <5>3. CASE Ends(p, op[q].token)
          BY <3>1, <4>1, <5>3 DEF started, Issuing
        <5> QED
          BY <1>11, <4>1, <5>1, <5>2, <5>3
      <4>2. ASSUME op[q].kind = "login", op[q].verified < password'
            PROVE  op'[q].late
        <5>1. CASE op[p].kind = "change"
          BY <3>1, <4>2, <5>1 DEF started, Issuing
        <5>2. CASE op[p].kind # "change"
          BY <3>1, <4>2, <5>2, <1>6 DEF ProcInv, LateInv
        <5> QED
          BY <5>1, <5>2
      <4> QED
        BY <1>2, <3>1, <4>1, <4>2 DEF LateInv, Ended
    <3> QED
      BY <3>2, <3>3, <3>4, <3>5 DEF ProcInv
  <2> QED
    BY <2>1, <2>2
<1> QED
  BY <1>7, <1>8, <1>9, <1>10, <1>12, <1>13 DEF IInv

-----------------------------------------------------------------------------
(* The other steps.                                                         *)

\* Time passes; an unknown token is refused.
LEMMA QuietStepKeepsIInv ==
  ASSUME IInv, (\E t \in Token : Expire(t)) \/ (\E p \in Proc, t \in known : RotateRefuses(p, t))
  PROVE  IInv'
<1>1. /\ UNCHANGED <<rows, password, op, faults, ended, survivors>>
      /\ expired' \subseteq Token /\ reused' \subseteq Token
  <2>1. CASE \E t \in Token : Expire(t)
    BY <2>1 DEF Expire, IInv, TypeOK, history
  <2>2. CASE \E p \in Proc, t \in known : RotateRefuses(p, t)
    <3>1. \A s \in 1..issued : family[s] \in Token
      <4>1. \A s \in 1..issued : s \in Token /\ family[s] # NoToken
        BY BoundAssumption DEF IInv, TypeOK, LineageInv, Token, NoToken
      <4> QED
        BY <4>1 DEF IInv, TypeOK
    <3>2. \A t : {family[s] : s \in {u \in 1..issued : parent[u] = t}} \subseteq Token
      BY <3>1
    <3>3. reused' \subseteq Token
      BY <2>2, <3>2 DEF RotateRefuses, IInv, TypeOK
    <3>4. UNCHANGED <<rows, password, op, faults, ended, survivors, expired>>
      BY <2>2 DEF RotateRefuses
    <3> QED
      BY <3>3, <3>4 DEF IInv, TypeOK
  <2> QED
    BY <2>1, <2>2
<1> QED
  BY <1>1
  DEF IInv, TypeOK, LineageInv, CapacityInv, Issuing, Changing, ProcInv, KindInv, RotateInv,
      EndInv, LateInv, Ends, Ended, LineageExclusive, SurvivorsOverlapped, rows

\* PurgeRefreshSessionsUseCase deletes a batch.
LEMMA PurgeKeepsIInv ==
  ASSUME IInv, Purge
  PROVE  IInv'
<1>1. UNCHANGED <<issued, parent, family, known, loginWith, expired, password, op, faults, history>>
  BY DEF Purge
<1>2. /\ row' \in [Token -> {"none", "active", "revoked"}]
      /\ \A t \in Token : row'[t] = "active" => row[t] = "active"
  BY DEF Purge, IInv, TypeOK
<1>3. issued \in Nat /\ 1..issued \subseteq Token
  BY BoundAssumption DEF IInv, TypeOK, Token
<1>4. TypeOK'
  BY <1>1, <1>2 DEF IInv, TypeOK, history
<1>5. LineageInv' /\ CapacityInv'
  BY <1>1 DEF IInv, LineageInv, CapacityInv, Issuing, Changing, history
<1>6. \A p \in Proc : ProcInv(p)'
  <2> SUFFICES ASSUME NEW p \in Proc PROVE ProcInv(p)'
    OBVIOUS
  <2>1. ProcInv(p) /\ op[p] \in Operation
    BY DEF IInv, TypeOK
  <2>2. KindInv(p)' /\ LateInv(p)'
    BY <1>1, <2>1 DEF ProcInv, KindInv, LateInv, Ended, history
  <2>3. RotateInv(p)'
    BY <1>1, <1>2, <1>3, <2>1 DEF ProcInv, KindInv, RotateInv
  <2>4. EndInv(p)'
    <3>1. \A t \in 1..op[p].upto : t \in Token
      BY <1>3, <2>1 DEF ProcInv, KindInv, Operation
    <3> QED
      BY <1>1, <1>2, <2>1, <3>1 DEF ProcInv, EndInv, Ends
  <2> QED
    BY <2>2, <2>3, <2>4 DEF ProcInv
<1>7. LineageExclusive'
  <2> SUFFICES ASSUME NEW t \in 1..issued, row'[t] = "active", parent[t] # NoToken
               PROVE  row'[parent[t]] # "active"
    BY <1>1 DEF LineageExclusive
  <2>1. row[t] = "active" /\ parent[t] \in Token
    BY <1>2, <1>3 DEF IInv, TypeOK
  <2> QED
    BY <2>1, <1>2 DEF IInv, LineageExclusive
<1>8. SurvivorsOverlapped'
  BY <1>1, <1>2, <1>3 DEF IInv, SurvivorsOverlapped, Ended, history
<1> QED
  BY <1>4, <1>5, <1>6, <1>7, <1>8 DEF IInv

\* IInv is inductive.
LEMMA NextIInv == IInv /\ [Next]_vars => IInv'
<1> SUFFICES ASSUME IInv, [Next]_vars PROVE IInv'
  OBVIOUS
<1>1. CASE UNCHANGED vars
  BY <1>1
  DEF vars, rows, history, IInv, TypeOK, LineageInv, CapacityInv, Issuing, Changing, ProcInv,
      KindInv, RotateInv, EndInv, LateInv, Ends, Ended, LineageExclusive, SurvivorsOverlapped
<1>2. CASE Purge
  BY <1>2, PurgeKeepsIInv
<1>3. CASE \E t \in Token : Expire(t)
  BY <1>3, QuietStepKeepsIInv
<1>4. ASSUME NEW p \in Proc,
             \/ SaveReloads(p) \/ SaveWrites(p) \/ SaveConflicts(p)
             \/ ChangeWrites(p) \/ UpdateStarts(p) \/ UpdateWrites(p)
      PROVE  IInv'
  BY <1>4, SaveKeepsIInv, UpdateKeepsIInv
<1>5. ASSUME NEW p \in Proc,
             \/ LoginReads(p) \/ ChangeReads(p)
             \/ \E t \in known : RotateReads(p, t) \/ RotateReadsRevoked(p, t) \/ LogoutReads(p, t)
      PROVE  IInv'
  BY <1>5, ReadsKeepIInv
<1>6. ASSUME NEW p \in Proc, NEW t \in known, RotateRefuses(p, t)
      PROVE  IInv'
  BY <1>6, QuietStepKeepsIInv
<1>7. ASSUME NEW p \in Proc, IssueCommits(p) \/ IssueUnanswered(p)
      PROVE  IInv'
  <2>1. op[p].pc = "committing" /\ Issues(p) /\ known' \in {known, known \union {issued'}}
    BY <1>7 DEF IssueCommits, IssueUnanswered
  <2>2. faults' \in 0..MaxFaults
    BY <1>7, BoundAssumption DEF IssueCommits, IssueUnanswered, Fault, IInv, TypeOK
  <2> QED
    BY <2>1, <2>2, IssuesKeepsIInv
<1>8. ASSUME NEW p \in Proc, RevokeCommits(p)
      PROVE  IInv'
  BY <1>8, RevokeKeepsIInv
<1>9. ASSUME NEW p \in Proc, Fails(p)
      PROVE  IInv'
  <2>1. faults' \in 0..MaxFaults
    BY <1>9, BoundAssumption DEF Fails, Fault, IInv, TypeOK
  <2> QED
    BY <1>9, <2>1, EndsQuietly DEF Fails
<1> QED
  BY <1>1, <1>2, <1>3, <1>4, <1>5, <1>6, <1>7, <1>8, <1>9 DEF Next

\* The inductive invariant holds in every behaviour.
LEMMA Invariance == Spec => []IInv
<1>1. IInv /\ [][Next]_vars => []IInv
  BY NextIInv, PTL
<1> QED
  BY InitIInv, <1>1, PTL DEF Spec

-----------------------------------------------------------------------------
(* One request at a time: whoever is at work is so alone, so it is never     *)
(* late, and its own token is the only usable one of the family it rotates.  *)

SerialInv ==
    /\ survivors = {}
    /\ \A p \in Proc :
          /\ ~op[p].late
          /\ op[p].kind \in Ending /\ op[p].pc \in {"updating", "committing"} =>
                op[p].upto = issued
          /\ op[p].kind = "rotate" =>
                \A s \in 1..issued :
                    row[s] = "active" /\ family[s] = family[op[p].token] => s = op[p].token
    /\ OneActivePerFamily

\* Beside a request at work every other one is idle.
LEMMA Alone ==
  ASSUME IInv, OneAtATime, NEW p \in Proc, op[p].pc # "idle", NEW q \in Proc, q # p
  PROVE  op[q].pc = "idle" /\ op[q].kind = "none"
  BY DEF OneAtATime, IInv, ProcInv, KindInv

\* Rows that only end, for which no transaction is open, leave SerialInv alone.
LEMMA SerialFade ==
  ASSUME IInv, SerialInv, UNCHANGED <<issued, family>>, survivors' = {},
         \A t \in 1..issued : row'[t] = "active" => row[t] = "active",
         \A p \in Proc : op'[p] = op[p] \/ op'[p] = NoOp
  PROVE  SerialInv'
<1>1. \A p \in Proc : op[p].kind = "rotate" => op[p].token \in 1..issued
  BY DEF IInv, ProcInv, KindInv
<1>2. ~NoOp.late /\ NoOp.kind = "none"
  BY DEF NoOp
<1> QED
  BY <1>1, <1>2 DEF SerialInv, OneActivePerFamily, Ending

\* A commit of a token, alone.
LEMMA SerialIssues ==
  ASSUME IInv, SerialInv, OneAtATime,
         NEW p \in Proc, op[p].pc = "committing", Issues(p)
  PROVE  SerialInv'
<1> DEFINE new == issued + 1
           old == op[p].token
<1>1. /\ issued \in Nat /\ 1..issued \subseteq Token /\ new \notin 1..issued
      /\ issued' = new /\ 1..issued' = 1..issued \union {new}
      /\ op[p] \in Operation /\ ProcInv(p)
  BY BoundAssumption DEF IInv, TypeOK, Token, Issues
<1>2. \A q \in Proc : ~op'[q].late /\ op'[q].kind = "none"
  <2>1. /\ op'[p] = NoOp
        /\ \A q \in Proc : q # p => op'[q] = op[q]
    BY DEF Issues, End, IInv, TypeOK
  <2>2. \A q \in Proc : q # p => op[q].kind = "none"
    BY Alone
  <2> QED
    BY <2>1, <2>2 DEF NoOp, SerialInv
<1>3. survivors' = {}
  BY DEF Issues, SerialInv
<1>4. \A t \in 1..issued :
        /\ row'[t] = "active" => row[t] = "active" /\ t \notin op[p].revokes
        /\ family'[t] = family[t]
  BY <1>1 DEF Issues, Saved, IInv, TypeOK
<1>5. ASSUME NEW s \in 1..issued, row'[s] = "active", new \in Token
      PROVE  family'[s] # family'[new]
  <2>1. CASE op[p].kind = "rotate"
    <3>1. family'[new] = family[old]
      BY <2>1, <1>5 DEF Issues, IInv, TypeOK
    <3>2. row[old] # "active" \/ old \in op[p].revokes
      BY <2>1, <1>1 DEF ProcInv, RotateInv
    <3> QED
      BY <2>1, <3>1, <3>2, <1>4, <1>5 DEF SerialInv
  <2>2. CASE op[p].kind # "rotate"
    <3>1. family'[new] = new
      BY <2>2, <1>5 DEF Issues, IInv, TypeOK
    <3> QED
      BY <3>1, <1>1, <1>4, <1>5 DEF IInv, LineageInv
  <2> QED
    BY <2>1, <2>2
<1>6. new \in Token
  BY RoomToIssue DEF IInv, Issues, Issuing
<1>7. OneActivePerFamily'
  BY <1>1, <1>4, <1>5, <1>6 DEF SerialInv, OneActivePerFamily
<1> QED
  BY <1>2, <1>3, <1>7 DEF SerialInv, Ending

\* A transaction that reads, or writes what nobody else sees yet.
LEMMA SerialLocal ==
  ASSUME IInv, SerialInv, NEW p \in Proc, NEW o,
         op'[p] = o, \A q \in Proc : q # p => op'[q] = op[q], UNCHANGED <<rows, history>>,
         ~o.late,
         o.kind \in Ending /\ o.pc \in {"updating", "committing"} => o.upto = issued,
         o.kind = "rotate" =>
            \A s \in 1..issued : row[s] = "active" /\ family[s] = family[o.token] => s = o.token
  PROVE  SerialInv'
  BY DEF SerialInv, OneActivePerFamily, rows, history

\* One request at a time keeps SerialInv.
LEMMA SerialNext ==
  ASSUME IInv, SerialInv, OneAtATime, Next
  PROVE  SerialInv'
<1>0. /\ issued \in Nat /\ 1..issued \subseteq Token /\ known \subseteq 1..issued
      /\ op \in [Proc -> Operation]
  BY BoundAssumption DEF IInv, TypeOK, LineageInv, Token
<1>1. ASSUME UNCHANGED <<issued, family>>, survivors' = survivors,
             \A t \in 1..issued : row'[t] = "active" => row[t] = "active",
             op' = op \/ \E p \in Proc : End(p)
      PROVE  SerialInv'
  <2>1. \A p \in Proc : op'[p] = op[p] \/ op'[p] = NoOp
    BY <1>0, <1>1 DEF End
  <2>2. survivors' = {}
    BY <1>1 DEF SerialInv
  <2> QED
    BY <1>1, <2>1, <2>2, SerialFade
<1>2. CASE Purge
  BY <1>0, <1>1, <1>2 DEF Purge, history
<1>3. CASE \E t \in Token : Expire(t)
  BY <1>1, <1>3 DEF Expire, rows, history
<1>4. ASSUME NEW p \in Proc, SaveConflicts(p) \/ Fails(p)
      PROVE  SerialInv'
  BY <1>1, <1>4 DEF SaveConflicts, Fails, rows, history
<1>5. ASSUME NEW p \in Proc, NEW t \in known, RotateRefuses(p, t)
      PROVE  SerialInv'
  BY <1>1, <1>5 DEF RotateRefuses, rows
<1>6. ASSUME NEW p \in Proc, RevokeCommits(p)
      PROVE  SerialInv'
  <2>1. op[p].kind \in Ending /\ op[p].upto = issued /\ UNCHANGED <<issued, family>>
    BY <1>6 DEF RevokeCommits, SerialInv, Ending
  <2>2. \A t \in 1..issued : ~(t > op[p].upto)
    BY <1>0, <2>1
  <2>3. survivors' = {}
    BY <1>6, <2>2 DEF RevokeCommits, SerialInv
  <2>4. \A t \in 1..issued : row'[t] = "active" => row[t] = "active"
    BY <1>0, <1>6 DEF RevokeCommits, Saved
  <2>5. \A q \in Proc : op'[q] = op[q] \/ op'[q] = NoOp
    <3> DEFINE started == {q \in Issuing : op[p].kind = "change" \/
                                              (op[q].kind = "rotate" /\ Ends(p, op[q].token))}
    <3>1. op' = [q \in Proc |-> CASE q = p -> NoOp
                                  [] q \in started -> [op[q] EXCEPT !.late = TRUE]
                                  [] OTHER -> op[q]]
      BY <1>6 DEF RevokeCommits
    <3>2. \A q \in Proc : q \notin started
      BY <1>6, <2>1, Alone DEF RevokeCommits, Issuing, Ending
    <3>3. \A q \in Proc : op'[q] = CASE q = p -> NoOp
                                     [] q \in started -> [op[q] EXCEPT !.late = TRUE]
                                     [] OTHER -> op[q]
      BY <3>1
    <3> HIDE DEF started
    <3>4. ASSUME NEW q \in Proc, q # p PROVE op'[q] = op[q]
      BY <3>2, <3>3, <3>4
    <3>5. op'[p] = NoOp
      BY <3>2, <3>3
    <3> QED
      BY <3>4, <3>5
  <2> QED
    BY <2>1, <2>3, <2>4, <2>5, SerialFade
<1>7. ASSUME NEW p \in Proc, IssueCommits(p) \/ IssueUnanswered(p)
      PROVE  SerialInv'
  BY <1>7, SerialIssues DEF IssueCommits, IssueUnanswered
<1>8. ASSUME NEW p \in Proc, LoginReads(p) \/ ChangeReads(p)
      PROVE  SerialInv'
  <2>1. ~op'[p].late /\ (op'[p].kind = "login" \/ (op'[p].pc = "changing" /\ op'[p].kind = "change"))
    <3>1. CASE LoginReads(p)
      BY <1>0, <3>1 DEF LoginReads, Begin, NoOp
    <3>2. CASE ChangeReads(p)
      BY <1>0, <3>2 DEF ChangeReads, Begin, NoOp
    <3> QED
      BY <1>8, <3>1, <3>2
  <2> QED
    BY <1>0, <1>8, <2>1, SerialLocal DEF LoginReads, ChangeReads, Ending, Begin
<1>9. ASSUME NEW p \in Proc, NEW t \in known, RotateReads(p, t)
      PROVE  SerialInv'
  <2>1. ~op'[p].late /\ op'[p].kind = "rotate" /\ op'[p].token = t
    BY <1>0, <1>9 DEF RotateReads, Begin, NoOp
  <2>2. \A s \in 1..issued : row[s] = "active" /\ family[s] = family[t] => s = t
    BY <1>0, <1>9 DEF RotateReads, SerialInv, OneActivePerFamily
  <2> QED
    BY <1>0, <1>9, <2>1, <2>2, SerialLocal DEF RotateReads, Ending, Begin
<1>10. ASSUME NEW p \in Proc, NEW t \in known, RotateReadsRevoked(p, t) \/ LogoutReads(p, t)
       PROVE  SerialInv'
  <2>1. ~op'[p].late /\ op'[p].kind \in {"reuse", "logout"} /\ op'[p].pc = "revoking"
    <3>1. CASE RotateReadsRevoked(p, t)
      BY <1>0, <3>1 DEF RotateReadsRevoked, Begin, NoOp
    <3>2. CASE LogoutReads(p, t)
      BY <1>0, <3>2 DEF LogoutReads, Begin, NoOp
    <3> QED
      BY <1>10, <3>1, <3>2
  <2> QED
    BY <1>0, <1>10, <2>1, SerialLocal DEF RotateReadsRevoked, LogoutReads, Begin
<1>11. ASSUME NEW p \in Proc,
              SaveReloads(p) \/ SaveWrites(p) \/ ChangeWrites(p) \/ UpdateStarts(p) \/ UpdateWrites(p)
       PROVE  SerialInv'
  <2>1. op[p] \in Operation /\ ProcInv(p)
    BY <1>0 DEF IInv, TypeOK
  <2>2. op'[p].late = op[p].late /\ op'[p].kind = op[p].kind /\ op'[p].token = op[p].token
    BY <1>0, <1>11, <2>1
    DEF SaveReloads, SaveWrites, ChangeWrites, UpdateStarts, UpdateWrites, Step, Operation
  <2>3. op[p].pc \in {"saving", "writing"} => op[p].kind = "rotate"
    BY <2>1 DEF ProcInv, KindInv
  <2>4. /\ UpdateStarts(p) => op'[p].upto = issued
        /\ UpdateWrites(p) => op'[p].upto = op[p].upto /\ op[p].pc = "updating"
        /\ ChangeWrites(p) => op'[p].pc = "revoking"
        /\ SaveReloads(p) \/ SaveWrites(p) => op[p].pc \in {"saving", "writing"}
    BY <1>0, <2>1
    DEF SaveReloads, SaveWrites, ChangeWrites, UpdateStarts, UpdateWrites, Step, Operation
  <2>5. op'[p].kind \in Ending /\ op'[p].pc \in {"updating", "committing"} => op'[p].upto = issued
    BY <1>11, <2>2, <2>3, <2>4 DEF SerialInv, Ending
  <2>6. UNCHANGED <<rows, history>>
    BY <1>11 DEF SaveReloads, SaveWrites, ChangeWrites, UpdateStarts, UpdateWrites
  <2>7. \A q \in Proc : q # p => op'[q] = op[q]
    BY <1>0, <1>11 DEF SaveReloads, SaveWrites, ChangeWrites, UpdateStarts, UpdateWrites, Step
  <2>8. op[p].kind = "rotate" =>
            \A s \in 1..issued : row[s] = "active" /\ family[s] = family[op[p].token] => s = op[p].token
    BY DEF SerialInv
  <2>9. ~op[p].late
    BY DEF SerialInv
  <2> QED
    BY <2>2, <2>5, <2>6, <2>7, <2>8, <2>9, SerialLocal
<1> QED
  BY <1>2, <1>3, <1>4, <1>5, <1>6, <1>7, <1>8, <1>9, <1>10, <1>11 DEF Next

\* SerialInv holds at first, every step keeps it, and it says what it is for.
LEMMA SerialInductive ==
  /\ Init => OneAtATime /\ SerialInv
  /\ IInv /\ SerialInv /\ OneAtATime /\ [Next]_vars => SerialInv'
  /\ IInv /\ SerialInv => OneActivePerFamily /\ EndedIsDead
<1>1. Init => OneAtATime /\ SerialInv
  BY DEF Init, SerialInv, NoOp, OneActivePerFamily, Ending, OneAtATime
<1>2. IInv /\ SerialInv /\ OneAtATime /\ [Next]_vars => SerialInv'
  <2>1. UNCHANGED vars /\ SerialInv => SerialInv'
    BY DEF vars, rows, history, SerialInv, OneActivePerFamily
  <2> QED
    BY <2>1, SerialNext
<1>3. IInv /\ SerialInv => OneActivePerFamily /\ EndedIsDead
  BY DEF IInv, SerialInv, SurvivorsOverlapped, EndedIsDead
<1> QED
  BY <1>1, <1>2, <1>3

-----------------------------------------------------------------------------
(* Theorems.                                                                *)

\* Every variable stays within its type, the tokens and the changes of the
\* password within their bounds.
THEOREM TypeCorrect == Spec => []TypeOK
  BY Invariance, PTL DEF IInv

\* RotateRefreshUseCase: the token that is rotated goes in the transaction that
\* brings its successor, whatever fails, overlaps or is purged meanwhile.
THEOREM LineageIsExclusive == Spec => []LineageExclusive
  BY Invariance, PTL DEF IInv

\* LogoutUseCase, reuse detection, SetOrChangePasswordUseCase: a session that
\* outlives them was issued by a transaction that was open at that moment, or
\* descends from such a one.
THEOREM SurvivorsAreOverlapped == Spec => []SurvivorsOverlapped
  BY Invariance, PTL DEF IInv

\* No step makes a session usable again that was revoked or purged, although
\* save() writes back a row that was read long before, or inserts it again.
THEOREM NothingIsResurrected == Spec => NoResurrection
<1> DEFINE Kept == \A t \in 1..issued : row[t] # "active" => row'[t] # "active"
<1>1. IInv /\ [Next]_vars => [Kept]_vars
  <2> SUFFICES ASSUME IInv, Next, NEW t \in 1..issued, row[t] # "active"
               PROVE  row'[t] # "active"
    OBVIOUS
  <2>1. issued \in Nat /\ t \in Token
    BY BoundAssumption DEF IInv, TypeOK, Token
  <2>2. CASE Purge
    BY <2>1, <2>2 DEF Purge
  <2>3. CASE \E p \in Proc : Issues(p)
    BY <2>1, <2>3 DEF Issues, Saved, IInv, TypeOK
  <2>4. CASE \E p \in Proc : RevokeCommits(p)
    BY <2>1, <2>4 DEF RevokeCommits, Saved
  <2>5. CASE UNCHANGED row
    BY <2>5
  <2> QED
    BY <2>2, <2>3, <2>4, <2>5
    DEF Next, IssueCommits, IssueUnanswered, LoginReads, SaveReloads, SaveWrites, SaveConflicts,
        ChangeReads, ChangeWrites, UpdateStarts, UpdateWrites, Fails, RotateReads,
        RotateReadsRevoked, RotateRefuses, LogoutReads, Expire, rows
<1>2. Spec => [][Kept]_vars
  BY Invariance, <1>1, PTL DEF Spec
<1> QED
  BY <1>2 DEF NoResurrection

\* A logout, a detected reuse or a change of the password ends every session it
\* concerns, and a family has one usable token, as long as requests are served
\* one at a time: what outlives them does so by a race alone.
THEOREM SerialRequestsEndSessions == Spec /\ []OneAtATime => [](OneActivePerFamily /\ EndedIsDead)
<1>1. Init => SerialInv
  BY SerialInductive
<1>2. IInv /\ SerialInv /\ OneAtATime /\ [Next]_vars => SerialInv'
  BY SerialInductive
<1>3. IInv /\ SerialInv => OneActivePerFamily /\ EndedIsDead
  BY SerialInductive
<1> QED
  BY Invariance, <1>1, <1>2, <1>3, PTL DEF Spec

\* The same of the run that explores requests one at a time beside the others.
THEOREM SerialFamiliesHold == RefreshSpec => []SerialFamilies
<1> DEFINE Inv == IInv /\ (part = "serial" => OneAtATime /\ SerialInv)
<1>1. RefreshInit => Inv
  BY InitIInv, SerialInductive DEF RefreshInit
<1>2. Inv /\ [RefreshNext]_<<part, vars>> => Inv'
  <2> SUFFICES ASSUME Inv, [RefreshNext]_<<part, vars>> PROVE Inv'
    OBVIOUS
  <2>1. [Next]_vars /\ part' = part
    BY DEF RefreshNext
  <2>2. IInv'
    BY <2>1, NextIInv
  <2>3. ASSUME part = "serial" PROVE OneAtATime' /\ SerialInv'
    <3>1. SerialInv'
      BY <2>1, <2>3, SerialInductive
    <3>2. RefreshNext => OneAtATime'
      BY <2>1, <2>3 DEF RefreshNext, WithinPart
    <3>3. UNCHANGED <<part, vars>> => OneAtATime'
      BY <2>3 DEF vars, OneAtATime
    <3> QED
      BY <3>1, <3>2, <3>3
  <2> QED
    BY <2>1, <2>2, <2>3
<1>3. Inv => SerialFamilies
  BY SerialInductive DEF SerialFamilies
<1> QED
  BY <1>1, <1>2, <1>3, PTL DEF RefreshSpec
=============================================================================
