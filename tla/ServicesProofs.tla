------------------------------ MODULE ServicesProofs ------------------------------
(***************************************************************************)
(* The components of MCServices proved side by side.                       *)
(***************************************************************************)
EXTENDS MCServices, FiniteSetTheorems, TLAPS

-----------------------------------------------------------------------------
(* RedisLock: a token belongs to one acquisition of one client, so whatever *)
(* is in the key is the newest token of a client that has the lease, or has *)
(* lost track of it by a fault.                                             *)

Issued(t) == \E c \in Client : \E n \in 1 .. round[c] : t = <<c, n>>

LeaseInv(c) ==
    /\ phase[c] # "idle" => round[c] > 0
    /\ phase[c] \in {"granted", "holding"} => slot = TokenOf(c) \/ TokenOf(c) \in lapsed

LockInv ==
    /\ TypeOK /\ OrphanNeedsFault
    /\ slot # Free => Issued(slot)
    /\ \A t \in lapsed : Issued(t)
    /\ \A c \in Client : LeaseInv(c)

\* A token names its acquisition.
LEMMA TokenNames ==
  /\ \A c, d, m, n : <<c, m>> = <<d, n>> => c = d /\ m = n
  /\ \A c, n : <<c, n>> # Free
BY DEF Free

\* At first the key is free and nobody asked for it.
LEMMA InitLockInv == Init => LockInv
  BY RedisLockAssumption DEF Init, LockInv, TypeOK, OrphanNeedsFault, LeaseInv

\* The token of an acquisition that has begun.
LEMMA TokenType ==
  ASSUME TypeOK, NEW c \in Client, round[c] > 0
  PROVE  TokenOf(c) \in Token /\ Issued(TokenOf(c))
<1>1. round[c] \in 1 .. MaxAcquires /\ round[c] \in 1 .. round[c]
  BY RedisLockAssumption DEF TypeOK
<1> QED
  BY <1>1 DEF TokenOf, Token, Issued

\* acquire makes a token nobody has seen.
LEMMA AcquireKeepsLockInv ==
  ASSUME LockInv, NEW c \in Client, Acquire(c)
  PROVE  LockInv'
<1>1. /\ UNCHANGED <<slot, ttl, faults, lapsed>> /\ phase[c] = "idle"
      /\ phase' = [phase EXCEPT ![c] = "acquiring"]
      /\ round' = [round EXCEPT ![c] = round[c] + 1]
      /\ round[c] < MaxAcquires
  BY DEF Acquire, Moves
<1>2. /\ phase \in [Client -> {"idle", "acquiring", "granted", "refused", "holding", "releasing", "released"}]
      /\ round \in [Client -> 0 .. MaxAcquires] /\ round[c] \in Nat /\ MaxAcquires \in Nat
  BY RedisLockAssumption DEF LockInv, TypeOK
<1>3. TypeOK'
  <2>1. round[c] + 1 \in 0 .. MaxAcquires
    BY <1>1, <1>2
  <2> QED
    BY <1>1, <1>2, <2>1 DEF LockInv, TypeOK
<1>4. \A d \in Client : d # c => TokenOf(d)' = TokenOf(d) /\ phase'[d] = phase[d]
  BY <1>1, <1>2 DEF TokenOf
<1>5. OrphanNeedsFault'
  BY <1>1, <1>4 DEF LockInv, OrphanNeedsFault
<1>6. \A t : Issued(t) => Issued(t)'
  <2>1. \A d \in Client : 1 .. round[d] \subseteq 1 .. round'[d]
    BY <1>1, <1>2
  <2> QED
    BY <2>1 DEF Issued
<1>7. \A d \in Client : LeaseInv(d)'
  <2>1. LeaseInv(c)'
    BY <1>1, <1>2 DEF LeaseInv
  <2>2. ASSUME NEW d \in Client, d # c
        PROVE  LeaseInv(d)'
    BY <1>1, <1>2, <1>4, <2>2 DEF LockInv, LeaseInv
  <2> QED
    BY <2>1, <2>2
<1> QED
  BY <1>1, <1>3, <1>5, <1>6, <1>7 DEF LockInv

\* An answer, a call, a fault: the client moves on and Redis does nothing.
LEMMA ClientKeepsLockInv ==
  ASSUME LockInv, NEW c \in Client,
         \/ Granted(c) \/ Refused(c) \/ Release(c) \/ Released(c)
         \/ Resend(c) \/ AnswerLost(c) \/ Crash(c)
  PROVE  LockInv'
<1> DEFINE Phases == {"idle", "acquiring", "granted", "refused", "holding", "releasing", "released"}
<1>1. PICK to \in Phases :
        /\ phase' = [phase EXCEPT ![c] = to]
        /\ phase[c] # "idle"
        /\ to = "holding" => phase[c] = "granted"
        /\ to # "granted"
        /\ \/ /\ faults' = faults
              /\ phase[c] \in {"granted", "holding", "releasing"} => to \in {"holding", "releasing"}
           \/ faults > 0 /\ faults' = faults - 1
  BY DEF Granted, Refused, Release, Released, Resend, AnswerLost, Crash, Moves, Fault
<1>2. UNCHANGED <<slot, ttl, round, lapsed>>
  BY DEF Granted, Refused, Release, Released, Resend, AnswerLost, Crash
<1>3. /\ phase \in [Client -> Phases] /\ faults \in 0 .. MaxFaults
      /\ MaxFaults \in Nat
      /\ round \in [Client -> 0 .. MaxAcquires]
  BY RedisLockAssumption DEF LockInv, TypeOK
<1>4. TypeOK'
  BY <1>1, <1>2, <1>3 DEF LockInv, TypeOK
<1>5. OrphanNeedsFault'
  <2>1. faults' = MaxFaults => faults = MaxFaults /\ faults' = faults
    BY <1>1, <1>3
  <2> QED
    BY <1>1, <1>2, <1>3, <2>1 DEF LockInv, OrphanNeedsFault, TokenOf
<1>6. \A d \in Client : LeaseInv(d)'
  BY <1>1, <1>2, <1>3 DEF LockInv, LeaseInv, TokenOf
<1> QED
  BY <1>2, <1>4, <1>5, <1>6 DEF LockInv, Issued

\* Redis evaluates the SET: only a free key takes the token.
LEMMA EvalAcquireKeepsLockInv ==
  ASSUME LockInv, NEW c \in Client, EvalAcquire(c)
  PROVE  LockInv'
<1>1. /\ phase[c] = "acquiring"
      /\ phase' = [phase EXCEPT ![c] = IF slot = Free THEN "granted" ELSE "refused"]
      /\ slot' = IF slot = Free THEN TokenOf(c) ELSE slot
      /\ ttl' = IF slot = Free THEN Ttl ELSE ttl
      /\ UNCHANGED <<round, faults, lapsed>>
  BY DEF EvalAcquire, Moves, SetNx
<1>2. /\ phase \in [Client -> {"idle", "acquiring", "granted", "refused", "holding", "releasing", "released"}]
      /\ Ttl \in Nat /\ Ttl > 0 /\ round[c] > 0
      /\ TokenOf(c) \in Token /\ Issued(TokenOf(c)) /\ TokenOf(c) # Free
  BY <1>1, RedisLockAssumption, TokenType, TokenNames DEF LockInv, TypeOK, LeaseInv, TokenOf
<1>3. TypeOK'
  BY <1>1, <1>2 DEF LockInv, TypeOK
<1>4. OrphanNeedsFault'
  BY <1>1, <1>2 DEF LockInv, OrphanNeedsFault, TokenOf
<1>5. \A d \in Client : LeaseInv(d)'
  BY <1>1, <1>2, TokenNames DEF LockInv, LeaseInv, TokenOf
<1> QED
  BY <1>1, <1>2, <1>3, <1>4, <1>5 DEF LockInv, Issued

\* The script deletes the key of its own token only.
LEMMA EvalReleaseKeepsLockInv ==
  ASSUME LockInv, NEW c \in Client, EvalRelease(c)
  PROVE  LockInv'
<1>1. /\ phase[c] = "releasing"
      /\ phase' = [phase EXCEPT ![c] = "released"]
      /\ slot' = IF slot = TokenOf(c) THEN Free ELSE slot
      /\ ttl' = IF slot = TokenOf(c) THEN 0 ELSE ttl
      /\ UNCHANGED <<round, faults, lapsed>>
  BY DEF EvalRelease, Moves, ReleaseScript
<1>2. /\ phase \in [Client -> {"idle", "acquiring", "granted", "refused", "holding", "releasing", "released"}]
      /\ Ttl \in Nat /\ \A d \in Client : d # c => TokenOf(d) # TokenOf(c)
  BY <1>1, RedisLockAssumption, TokenNames DEF LockInv, TypeOK, TokenOf
<1>3. TypeOK'
  BY <1>1, <1>2 DEF LockInv, TypeOK
<1>4. OrphanNeedsFault'
  BY <1>1, <1>2 DEF LockInv, OrphanNeedsFault, TokenOf
<1>5. \A d \in Client : LeaseInv(d)'
  BY <1>1, <1>2 DEF LockInv, LeaseInv, TokenOf
<1> QED
  BY <1>1, <1>3, <1>4, <1>5 DEF LockInv, Issued

\* The key expires, or Redis loses it: its token counts as lapsed.
LEMMA RedisKeepsLockInv ==
  ASSUME LockInv, Tick \/ LoseData
  PROVE  LockInv'
<1>1. /\ slot # Free /\ UNCHANGED <<phase, round>>
      /\ \/ slot' = slot /\ lapsed' = lapsed /\ ttl # 1
         \/ slot' = Free /\ lapsed' = lapsed \union {slot}
  BY DEF Tick, LoseData
<1>2. /\ slot \in Token \union {Free} /\ Ttl \in Nat /\ MaxFaults \in Nat
      /\ ttl \in 0 .. Ttl /\ ttl > 0 /\ faults \in 0 .. MaxFaults
  BY <1>1, RedisLockAssumption DEF LockInv, TypeOK
<1>3. TypeOK'
  <2>1. /\ ttl' \in 0 .. Ttl /\ faults' \in 0 .. MaxFaults
        /\ (ttl' = 0) <=> (slot' = Free)
    BY <1>1, <1>2 DEF Tick, LoseData, Fault
  <2> QED
    BY <1>1, <1>2, <2>1 DEF LockInv, TypeOK
<1>4. OrphanNeedsFault'
  <2>1. faults' = MaxFaults => faults = MaxFaults
    BY <1>2 DEF Tick, LoseData, Fault
  <2> QED
    BY <1>1, <2>1 DEF LockInv, OrphanNeedsFault, TokenOf
<1>5. \A d \in Client : LeaseInv(d)'
  BY <1>1 DEF LockInv, LeaseInv, TokenOf
<1> QED
  BY <1>1, <1>3, <1>4, <1>5 DEF LockInv, Issued

\* Whatever step is taken.
LEMMA NextLockInv == LockInv /\ [Next]_vars => LockInv'
<1>1. LockInv /\ UNCHANGED vars => LockInv'
  BY DEF vars, LockInv, TypeOK, OrphanNeedsFault, LeaseInv, Issued, TokenOf
<1> QED
  BY <1>1, AcquireKeepsLockInv, ClientKeepsLockInv, EvalAcquireKeepsLockInv,
     EvalReleaseKeepsLockInv, RedisKeepsLockInv DEF Next

\* LockInv says what it is for: two holders have two tokens, and the key has
\* room for one.
LEMMA LockInvImplies == LockInv => TypeOK /\ LeaseIsKept /\ OverlapNeedsLapse /\ OrphanNeedsFault
<1> SUFFICES ASSUME LockInv PROVE LeaseIsKept /\ OverlapNeedsLapse
  BY DEF LockInv
<1>1. LeaseIsKept
  BY DEF LockInv, LeaseInv, LeaseIsKept, Holds
<1>2. OverlapNeedsLapse
  BY <1>1, TokenNames DEF LeaseIsKept, OverlapNeedsLapse, TokenOf
<1> QED
  BY <1>1, <1>2

-----------------------------------------------------------------------------
(* RateLimiter: a refusal leaves the counter above the limit until the      *)
(* window ends, the counter counts nobody twice without a fault, and the    *)
(* time a refused caller is told runs out with the window, within half a    *)
(* second.                                                                  *)

LimiterTypes ==
    /\ count \in Nat /\ count <= Limit + 1 /\ left \in Nat /\ left <= Limiter!Window
    /\ (left = 0) <=> (count = 0)
    /\ limitPhase \in [Request -> {"idle", "sent", "counted", "allowed", "refused"}]
    /\ wait \in [Request -> 0 .. Limiter!Window]
    /\ limitFaults \in Nat /\ limitFaults <= MaxLimiterFaults

RefusalInv ==
    /\ counted \in Nat /\ counted <= Limit + 1
    /\ blocked \subseteq Request
    /\ blocked # {} => count = Limit + 1
    /\ limitFaults = MaxLimiterFaults => count = counted /\ \A r \in Request : limitPhase[r] # "counted"
    /\ \A r \in blocked : left <= wait[r] + 2

LimiterInv == LimiterTypes /\ RefusalInv /\ Limiter!RefusedNeedsFullWindow

\* The bounds are numbers, and a window is a number of seconds.
LEMMA LimiterBounds ==
  /\ Limit \in Nat /\ Limit > 0 /\ WindowSeconds \in Nat /\ WindowSeconds > 0 /\ MaxLimiterFaults \in Nat
  /\ Limiter!Second = 4 /\ Limiter!Window \in Nat /\ Limiter!Window = 4 * WindowSeconds /\ Limiter!Window > 0
<1>1. /\ Limit \in Nat /\ Limit > 0 /\ WindowSeconds \in Nat /\ WindowSeconds > 0 /\ MaxLimiterFaults \in Nat
  BY LimiterAssumption DEF Limiter!RateLimiterAssumption
<1> QED
  BY <1>1 DEF Limiter!Second, Limiter!Window

\* The smaller and the greater of two numbers.
LEMMA OfTwo ==
  ASSUME NEW a \in Int, NEW b \in Int
  PROVE  /\ Limiter!Min({a, b}) = IF a <= b THEN a ELSE b
         /\ Limiter!Max({a, b}) = IF a <= b THEN b ELSE a
<1>1. \A x \in {a, b} : (\A y \in {a, b} : x <= y) <=> x = IF a <= b THEN a ELSE b
  OBVIOUS
<1>2. \A x \in {a, b} : (\A y \in {a, b} : x >= y) <=> x = IF a <= b THEN b ELSE a
  OBVIOUS
<1>3. Limiter!Min({a, b}) = IF a <= b THEN a ELSE b
  BY <1>1 DEF Limiter!Min
<1>4. Limiter!Max({a, b}) = IF a <= b THEN b ELSE a
  BY <1>2 DEF Limiter!Max
<1> QED
  BY <1>3, <1>4

\* Redis rounds to the nearest second: what a refused caller is told is within
\* the window, and ends at most half a second before it.
LEMMA TimeTold ==
  ASSUME NEW n \in Nat, n <= Limiter!Window
  PROVE  LET told == Limiter!Second * Limiter!RetryAfterSeconds(Limiter!TTL(n)) IN
         told \in Nat /\ told <= Limiter!Window /\ n <= told + 2
<1> DEFINE seconds == (n + 2) \div 4
           chosen == IF seconds > 0 THEN seconds ELSE WindowSeconds
<1>1. seconds \in Nat /\ n <= 4 * seconds + 1 /\ 4 * seconds <= n + 2
  OBVIOUS
<1>2. seconds <= WindowSeconds
  BY <1>1, LimiterBounds
<1>3. Limiter!TTL(n) = seconds
  BY LimiterBounds DEF Limiter!TTL
<1> HIDE DEF seconds
<1>4. chosen \in Nat /\ chosen >= 1 /\ chosen <= WindowSeconds /\ n <= 4 * chosen + 1
  BY <1>1, <1>2, LimiterBounds
<1> HIDE DEF chosen
<1>5. Limiter!RetryAfterSeconds(seconds) = chosen
  <2>1. Limiter!Max({1, chosen}) = chosen
    <3>1. chosen \in Int /\ 1 \in Int
      BY <1>4
    <3>2. Limiter!Max({1, chosen}) = IF 1 <= chosen THEN chosen ELSE 1
      BY <3>1, OfTwo
    <3> QED
      BY <1>4, <3>2
  <2> QED
    BY <2>1 DEF Limiter!RetryAfterSeconds, chosen
<1> QED
  BY <1>3, <1>4, <1>5, LimiterBounds

\* At first nobody asks.
LEMMA InitLimiterInv == Limiter!Init => LimiterInv
  BY LimiterBounds
  DEF Limiter!Init, LimiterInv, LimiterTypes, RefusalInv, Limiter!RefusedNeedsFullWindow

\* What one run of the script does.
LEMMA ScriptCounts ==
  ASSUME LimiterTypes, Limiter!ConsumeScript
  PROVE  /\ count' \in Nat /\ count' <= Limit + 1 /\ count' > 0
         /\ count' = IF count + 1 <= Limit + 1 THEN count + 1 ELSE Limit + 1
         /\ left' \in Nat /\ left' <= Limiter!Window /\ left' > 0
         /\ count # 0 => left' = left
<1>1. count \in Nat /\ count <= Limit + 1 /\ left \in Nat /\ left <= Limiter!Window
  BY DEF LimiterTypes
<1>2. count' = IF count + 1 <= Limit + 1 THEN count + 1 ELSE Limit + 1
  BY <1>1, OfTwo, LimiterBounds DEF Limiter!ConsumeScript
<1>3. left' = IF count + 1 = 1 THEN Limiter!Window ELSE left
  BY DEF Limiter!ConsumeScript, Limiter!Expire
<1>4. count # 0 => left # 0
  BY DEF LimiterTypes
<1> QED
  BY <1>1, <1>2, <1>3, <1>4, LimiterBounds

\* A request is counted, and let through or refused.
LEMMA DecideKeepsLimiterInv ==
  ASSUME LimiterInv, NEW r \in Request, Limiter!Consume(r) \/ Limiter!ConsumeAgain(r)
  PROVE  LimiterInv'
<1> DEFINE told == Limiter!Second * Limiter!RetryAfterSeconds(Limiter!TTL(left'))
           ok == count + 1 <= Limit
<1>1. /\ LimiterTypes /\ RefusalInv /\ Limiter!RefusedNeedsFullWindow
      /\ Limiter!ConsumeScript /\ limitFaults' = limitFaults
      /\ limitPhase' = [limitPhase EXCEPT ![r] = IF ok THEN "allowed" ELSE "refused"]
      /\ wait' = [wait EXCEPT ![r] = IF ok THEN 0 ELSE told]
      /\ blocked' = IF ok THEN blocked ELSE blocked \union {r}
  BY DEF LimiterInv, Limiter!Consume, Limiter!ConsumeAgain, Limiter!Decide, Limiter!Allows
<1>2. /\ count' \in Nat /\ count' <= Limit + 1 /\ count' > 0
      /\ count' = IF count + 1 <= Limit + 1 THEN count + 1 ELSE Limit + 1
      /\ left' \in Nat /\ left' <= Limiter!Window /\ left' > 0
      /\ count # 0 => left' = left
      /\ count \in Nat /\ count <= Limit + 1
  BY <1>1, ScriptCounts DEF LimiterTypes
<1>3. told \in Nat /\ told <= Limiter!Window /\ left' <= told + 2
  BY <1>2, TimeTold
<1> HIDE DEF told, ok
<1>4. /\ wait' \in [Request -> 0 .. Limiter!Window]
      /\ \A q \in Request : wait'[q] = IF q = r THEN (IF ok THEN 0 ELSE told) ELSE wait[q]
  <2>1. (IF ok THEN 0 ELSE told) \in 0 .. Limiter!Window
    BY <1>3, LimiterBounds
  <2> QED
    BY <1>1, <2>1 DEF LimiterTypes
<1>5. limitPhase' \in [Request -> {"idle", "sent", "counted", "allowed", "refused"}]
  BY <1>1 DEF LimiterTypes
<1>6. LimiterTypes'
  BY <1>1, <1>2, <1>4, <1>5 DEF LimiterTypes
<1>7. /\ counted' \in Nat /\ counted' <= Limit + 1 /\ counted <= counted'
      /\ limitFaults = MaxLimiterFaults => counted' = IF counted + 1 <= Limit + 1 THEN counted + 1 ELSE Limit + 1
  <2>1. counted \in Nat /\ counted <= Limit + 1
    BY <1>1 DEF RefusalInv
  <2>2. CASE Limiter!Consume(r)
    <3>1. counted' = IF counted + 1 <= Limit + 1 THEN counted + 1 ELSE Limit + 1
      BY <2>1, <2>2, OfTwo, LimiterBounds DEF Limiter!Consume
    <3> QED
      BY <2>1, <3>1, LimiterBounds
  <2>3. CASE Limiter!ConsumeAgain(r)
    BY <1>1, <2>1, <2>3 DEF Limiter!ConsumeAgain, RefusalInv
  <2> QED
    BY <2>2, <2>3
<1>8. ~ok => count' = Limit + 1 /\ count # 0
  BY <1>2, LimiterBounds DEF ok
<1>9. blocked # {} => count' = Limit + 1 /\ count # 0
  BY <1>1, <1>2, LimiterBounds DEF RefusalInv
<1>10. limitFaults = MaxLimiterFaults => count' = counted'
  BY <1>1, <1>2, <1>7 DEF RefusalInv
<1>11. RefusalInv'
  <2>1. blocked' \subseteq Request /\ (blocked' # {} => count' = Limit + 1)
    BY <1>1, <1>8, <1>9 DEF RefusalInv
  <2>2. limitFaults' = MaxLimiterFaults => \A q \in Request : limitPhase'[q] # "counted"
    BY <1>1 DEF RefusalInv, LimiterTypes
  <2>3. ASSUME NEW q \in blocked' PROVE left' <= wait'[q] + 2
    <3>1. q \in Request
      BY <2>1, <2>3
    <3>2. CASE q = r /\ ~ok
      BY <1>3, <1>4, <3>1, <3>2
    <3>3. CASE q # r
      <4>1. q \in blocked /\ left' = left
        BY <1>1, <1>2, <1>9, <2>3, <3>3
      <4> QED
        BY <1>1, <1>4, <3>1, <3>3, <4>1 DEF RefusalInv
    <3>4. CASE q = r /\ ok
      <4>1. q \in blocked
        BY <1>1, <2>3, <3>4
      <4>2. count = Limit + 1
        BY <1>1, <4>1 DEF RefusalInv
      <4> QED
        BY <1>2, <3>4, <4>2, LimiterBounds DEF ok
    <3> QED
      BY <3>2, <3>3, <3>4
  <2> QED
    BY <1>1, <1>7, <1>10, <2>1, <2>2, <2>3 DEF RefusalInv
<1>12. Limiter!RefusedNeedsFullWindow'
  <2> SUFFICES ASSUME blocked' # {} PROVE counted' > Limit \/ limitFaults' < MaxLimiterFaults
    BY DEF Limiter!RefusedNeedsFullWindow
  <2>1. count' = Limit + 1
    BY <1>11 DEF RefusalInv
  <2> QED
    BY <1>1, <1>10, <2>1, LimiterBounds DEF LimiterTypes
<1> QED
  BY <1>6, <1>11, <1>12 DEF LimiterInv

\* The script's answer is lost: from here on a request may be counted twice.
LEMMA UnansweredKeepsLimiterInv ==
  ASSUME LimiterInv, NEW r \in Request, Limiter!ConsumeUnanswered(r)
  PROVE  LimiterInv'
<1>1. /\ LimiterTypes /\ RefusalInv
      /\ Limiter!ConsumeScript /\ limitFaults > 0 /\ limitFaults' = limitFaults - 1
      /\ limitPhase' = [limitPhase EXCEPT ![r] = "counted"]
      /\ counted' = Limiter!Min({counted + 1, Limit + 1})
      /\ UNCHANGED <<wait, blocked>>
  BY DEF LimiterInv, Limiter!ConsumeUnanswered, Limiter!Fault
<1>2. /\ count' \in Nat /\ count' <= Limit + 1 /\ count' > 0
      /\ count' = IF count + 1 <= Limit + 1 THEN count + 1 ELSE Limit + 1
      /\ left' \in Nat /\ left' <= Limiter!Window /\ left' > 0
      /\ count # 0 => left' = left
      /\ count \in Nat /\ count <= Limit + 1
  BY <1>1, ScriptCounts DEF LimiterTypes
<1>3. limitFaults' \in Nat /\ limitFaults' < MaxLimiterFaults
  BY <1>1, LimiterBounds DEF LimiterTypes
<1>4. LimiterTypes'
  <2>1. limitPhase' \in [Request -> {"idle", "sent", "counted", "allowed", "refused"}]
    BY <1>1 DEF LimiterTypes
  <2> QED
    BY <1>1, <1>2, <1>3, <2>1, LimiterBounds DEF LimiterTypes
<1>5. counted' \in Nat /\ counted' <= Limit + 1
  <2>1. counted \in Nat /\ counted <= Limit + 1
    BY <1>1 DEF RefusalInv
  <2> QED
    BY <1>1, <2>1, OfTwo, LimiterBounds
<1>6. blocked # {} => count' = Limit + 1 /\ left' = left
  BY <1>1, <1>2, LimiterBounds DEF RefusalInv
<1>7. RefusalInv'
  BY <1>1, <1>3, <1>5, <1>6, LimiterBounds DEF RefusalInv
<1>8. Limiter!RefusedNeedsFullWindow'
  BY <1>3 DEF Limiter!RefusedNeedsFullWindow
<1> QED
  BY <1>4, <1>7, <1>8 DEF LimiterInv

\* A request arrives, goes on without the limiter, or is done.
LEMMA CallerKeepsLimiterInv ==
  ASSUME LimiterInv, NEW r \in Request, Limiter!Arrive(r) \/ Limiter!FailOpen(r) \/ Limiter!Answered(r)
  PROVE  LimiterInv'
<1>1. /\ LimiterTypes /\ RefusalInv /\ Limiter!RefusedNeedsFullWindow
      /\ UNCHANGED <<count, left, counted>>
      /\ \E to \in {"idle", "sent", "allowed"} : limitPhase' = [limitPhase EXCEPT ![r] = to]
      /\ limitFaults' = limitFaults \/ (limitFaults > 0 /\ limitFaults' = limitFaults - 1)
      /\ \/ UNCHANGED <<wait, blocked>>
         \/ wait' = [wait EXCEPT ![r] = 0] /\ blocked' = blocked \ {r}
  BY DEF LimiterInv, Limiter!Arrive, Limiter!FailOpen, Limiter!Answered, Limiter!Fault
<1>2. /\ limitPhase' \in [Request -> {"idle", "sent", "counted", "allowed", "refused"}]
      /\ \A q \in Request : limitPhase'[q] = "counted" => limitPhase[q] = "counted"
  BY <1>1 DEF LimiterTypes
<1>3. limitFaults' \in Nat /\ limitFaults' <= limitFaults /\ limitFaults' <= MaxLimiterFaults
  BY <1>1, LimiterBounds DEF LimiterTypes
<1>4. /\ wait' \in [Request -> 0 .. Limiter!Window] /\ blocked' \subseteq blocked
      /\ \A q \in blocked' : q \in Request => wait'[q] = wait[q]
  <2>1. 0 \in 0 .. Limiter!Window
    BY LimiterBounds
  <2> QED
    BY <1>1, <2>1 DEF LimiterTypes
<1>5. LimiterTypes'
  BY <1>1, <1>2, <1>3, <1>4 DEF LimiterTypes
<1>6. limitFaults' = MaxLimiterFaults => limitFaults = MaxLimiterFaults
  BY <1>1, <1>3, LimiterBounds DEF LimiterTypes
<1>7. RefusalInv'
  BY <1>1, <1>2, <1>4, <1>6 DEF RefusalInv
<1>8. Limiter!RefusedNeedsFullWindow'
  BY <1>1, <1>3, <1>4, LimiterBounds DEF Limiter!RefusedNeedsFullWindow, LimiterTypes
<1> QED
  BY <1>5, <1>7, <1>8 DEF LimiterInv

\* Time passes: the window and the waits grow shorter together, and the window
\* ends with everything it refused.
LEMMA TickKeepsLimiterInv ==
  ASSUME LimiterInv, Limiter!Tick
  PROVE  LimiterInv'
<1>1. /\ LimiterTypes /\ RefusalInv /\ Limiter!RefusedNeedsFullWindow
      /\ UNCHANGED <<limitPhase, limitFaults>>
      /\ wait' = [r \in Request |-> Limiter!Max({0, wait[r] - 1})]
      /\ \/ left = 1 /\ count' = 0 /\ left' = 0 /\ blocked' = {} /\ counted' = 0
         \/ /\ left # 1 /\ left' = (IF left = 0 THEN 0 ELSE left - 1)
            /\ UNCHANGED <<count, blocked, counted>>
  BY DEF LimiterInv, Limiter!Tick, Limiter!WindowEnds
<1>2. \A r \in Request : wait[r] \in Nat /\ wait[r] <= Limiter!Window
  BY <1>1, LimiterBounds DEF LimiterTypes
<1>3. \A r \in Request : wait'[r] = IF 0 <= wait[r] - 1 THEN wait[r] - 1 ELSE 0
  <2> TAKE r \in Request
  <2>1. wait[r] \in Nat /\ wait[r] - 1 \in Int /\ 0 \in Int
    BY <1>2
  <2>2. Limiter!Max({0, wait[r] - 1}) = IF 0 <= wait[r] - 1 THEN wait[r] - 1 ELSE 0
    BY <2>1, OfTwo
  <2> QED
    BY <1>1, <2>2
<1>4. wait' \in [Request -> 0 .. Limiter!Window]
  <2>1. \A r \in Request : wait'[r] \in 0 .. Limiter!Window
    BY <1>2, <1>3, LimiterBounds
  <2>2. wait' = [r \in Request |-> wait'[r]]
    BY <1>1
  <2> QED
    BY <2>1, <2>2
<1>5. /\ count \in Nat /\ count <= Limit + 1 /\ left \in Nat /\ left <= Limiter!Window
      /\ (left = 0) <=> (count = 0)
  BY <1>1 DEF LimiterTypes
<1>6. /\ count' \in Nat /\ count' <= Limit + 1 /\ left' \in Nat /\ left' <= Limiter!Window
      /\ (left' = 0) <=> (count' = 0)
  BY <1>1, <1>5, LimiterBounds
<1>7. LimiterTypes'
  BY <1>1, <1>4, <1>6 DEF LimiterTypes
<1>8. RefusalInv'
  <2>1. CASE blocked' = {} /\ count' = 0 /\ counted' = 0
    BY <1>1, <2>1, LimiterBounds DEF RefusalInv
  <2>2. CASE left # 1 /\ left' = (IF left = 0 THEN 0 ELSE left - 1) /\ UNCHANGED <<count, blocked, counted>>
    <3>1. ASSUME NEW r \in blocked' PROVE left' <= wait'[r] + 2
      <4>1. r \in Request /\ left <= wait[r] + 2
        BY <1>1, <2>2, <3>1 DEF RefusalInv
      <4> QED
        BY <1>2, <1>3, <1>5, <2>2, <4>1
    <3> QED
      BY <1>1, <2>2, <3>1 DEF RefusalInv
  <2> QED
    BY <1>1, <2>1, <2>2
<1>9. Limiter!RefusedNeedsFullWindow'
  BY <1>1 DEF Limiter!RefusedNeedsFullWindow
<1> QED
  BY <1>7, <1>8, <1>9 DEF LimiterInv

\* Redis loses the key: the next window begins with nobody refused.
LEMMA LossKeepsLimiterInv ==
  ASSUME LimiterInv, Limiter!LoseData
  PROVE  LimiterInv'
<1>1. /\ LimiterTypes /\ RefusalInv
      /\ limitFaults > 0 /\ limitFaults' = limitFaults - 1
      /\ count' = 0 /\ left' = 0 /\ blocked' = {} /\ counted' = 0 /\ UNCHANGED <<limitPhase, wait>>
  BY DEF LimiterInv, Limiter!LoseData, Limiter!Fault, Limiter!WindowEnds
<1>2. limitFaults' \in Nat /\ limitFaults' < MaxLimiterFaults
  BY <1>1, LimiterBounds DEF LimiterTypes
<1> QED
  BY <1>1, <1>2, LimiterBounds DEF LimiterInv, LimiterTypes, RefusalInv, Limiter!RefusedNeedsFullWindow

\* Whatever step is taken.
LEMMA NextLimiterInv == LimiterInv /\ [Limiter!Next]_limiterVars => LimiterInv'
<1>1. LimiterInv /\ UNCHANGED limiterVars => LimiterInv'
  BY DEF limiterVars, LimiterInv, LimiterTypes, RefusalInv, Limiter!RefusedNeedsFullWindow
<1> QED
  BY <1>1, DecideKeepsLimiterInv, UnansweredKeepsLimiterInv, CallerKeepsLimiterInv, TickKeepsLimiterInv,
     LossKeepsLimiterInv DEF Limiter!Next

\* A caller who has waited is at most half a second early.
LEMMA LimiterInvImplies ==
  LimiterInv => Limiter!TypeOK /\ Limiter!RefusedNeedsFullWindow /\ Limiter!RetryAfterReachesTheEnd
<1> SUFFICES ASSUME LimiterInv PROVE Limiter!TypeOK /\ Limiter!RetryAfterReachesTheEnd
  BY DEF LimiterInv
<1>1. Limiter!TypeOK
  <2>1. count \in 0 .. Limit + 1 /\ left \in 0 .. Limiter!Window /\ limitFaults \in 0 .. MaxLimiterFaults
    BY LimiterBounds DEF LimiterInv, LimiterTypes
  <2> QED
    BY <2>1 DEF LimiterInv, LimiterTypes, Limiter!TypeOK
<1>2. Limiter!RetryAfterReachesTheEnd
  <2>1. Limiter!Second \div 2 = 2
    BY LimiterBounds
  <2> QED
    BY <2>1 DEF LimiterInv, RefusalInv, Limiter!RetryAfterReachesTheEnd
<1> QED
  BY <1>1, <1>2

-----------------------------------------------------------------------------
(* The burst: what the last n quarters admitted is what the running window   *)
(* granted once they lie within it; further back they also reach the window  *)
(* before it, and one more for each time Redis lost the key.                 *)

LetIn == IF count <= Limit THEN count ELSE Limit

Earlier == (1 + losses) * Limit

BurstInv ==
    /\ losses \in Nat
    /\ \A n \in 1 .. Limiter!Window :
        /\ recent[n] \in Nat
        /\ recent[n] <= Earlier + LetIn
        /\ left > 0 /\ n <= Limiter!Window - left => recent[n] <= LetIn

\* The windows before the running one granted one limit, and one for each loss.
LEMMA EarlierWindows ==
  ASSUME losses \in Nat
  PROVE  /\ Earlier \in Nat /\ Limit <= Earlier
         /\ (2 + losses) * Limit = Earlier + Limit
         /\ losses' = losses + 1 => Earlier' = Earlier + Limit
<1> DEFINE more == losses * Limit
<1>1. more \in Nat
  BY LimiterBounds
<1>2. /\ (1 + losses) * Limit = Limit + more
      /\ (2 + losses) * Limit = Limit + Limit + more
      /\ (1 + (losses + 1)) * Limit = Limit + Limit + more
  BY LimiterBounds
<1> QED
  BY <1>1, <1>2, LimiterBounds DEF Earlier

\* What the running window granted is at most the limit, and nothing without one.
LEMMA LetInBounds == LimiterTypes => LetIn \in Nat /\ LetIn <= Limit /\ (left = 0 => LetIn = 0)
  BY LimiterBounds DEF LimiterTypes, LetIn

\* At first nothing is admitted.
LEMMA InitBurstInv == Limiter!Init => BurstInv
<1> SUFFICES ASSUME Limiter!Init PROVE BurstInv
  OBVIOUS
<1>1. losses = 0 /\ losses \in Nat /\ count = 0 /\ left = 0
  BY DEF Limiter!Init
<1>2. Earlier \in Nat /\ LetIn = 0
  BY <1>1, EarlierWindows, LimiterBounds DEF LetIn
<1>3. \A n \in 1 .. Limiter!Window : recent[n] = 0
  BY DEF Limiter!Init
<1> QED
  BY <1>1, <1>2, <1>3 DEF BurstInv

\* The script admits a request and the window has granted one more.
LEMMA DecideKeepsBurst ==
  ASSUME LimiterTypes, BurstInv, NEW r \in Request, Limiter!Consume(r) \/ Limiter!ConsumeAgain(r)
  PROVE  BurstInv'
<1> DEFINE ok == count + 1 <= Limit
<1>1. /\ Limiter!ConsumeScript /\ losses' = losses /\ losses \in Nat
      /\ recent' = IF ok THEN [n \in 1 .. Limiter!Window |-> recent[n] + 1] ELSE recent
  BY DEF Limiter!Consume, Limiter!ConsumeAgain, Limiter!Decide, Limiter!Allows, BurstInv
<1>2. /\ count' = IF count + 1 <= Limit + 1 THEN count + 1 ELSE Limit + 1
      /\ left' = IF count = 0 THEN Limiter!Window ELSE left
      /\ count \in Nat /\ count <= Limit + 1 /\ left \in Nat /\ (count # 0 => left > 0)
  BY <1>1, ScriptCounts DEF LimiterTypes, Limiter!ConsumeScript, Limiter!Expire
<1>3. LetIn \in Nat /\ LetIn' = IF ok THEN LetIn + 1 ELSE LetIn
  BY <1>2, LimiterBounds DEF LetIn
<1>4. Earlier \in Nat /\ Earlier' = Earlier
  BY <1>1, EarlierWindows DEF Earlier
<1>5. ASSUME NEW n \in 1 .. Limiter!Window
      PROVE  /\ recent'[n] \in Nat /\ recent'[n] <= Earlier' + LetIn'
             /\ left' > 0 /\ n <= Limiter!Window - left' => recent'[n] <= LetIn'
  <2>1. /\ recent[n] \in Nat /\ recent[n] <= Earlier + LetIn
        /\ left > 0 /\ n <= Limiter!Window - left => recent[n] <= LetIn
    BY <1>5 DEF BurstInv
  <2>2. recent'[n] = IF ok THEN recent[n] + 1 ELSE recent[n]
    BY <1>1, <1>5
  <2>3. n \in Nat /\ n > 0
    BY <1>5, LimiterBounds
  <2> HIDE DEF ok
  <2> QED
    BY <1>2, <1>3, <1>4, <2>1, <2>2, <2>3, LimiterBounds
<1> QED
  BY <1>1, <1>5 DEF BurstInv

\* The script counts a request whose answer is lost.
LEMMA UnansweredKeepsBurst ==
  ASSUME LimiterTypes, BurstInv, NEW r \in Request, Limiter!ConsumeUnanswered(r)
  PROVE  BurstInv'
<1>1. Limiter!ConsumeScript /\ losses' = losses /\ losses \in Nat /\ recent' = recent
  BY DEF Limiter!ConsumeUnanswered, BurstInv
<1>2. /\ count' = IF count + 1 <= Limit + 1 THEN count + 1 ELSE Limit + 1
      /\ left' = IF count = 0 THEN Limiter!Window ELSE left
      /\ count \in Nat /\ count <= Limit + 1 /\ left \in Nat /\ (count # 0 => left > 0)
  BY <1>1, ScriptCounts DEF LimiterTypes, Limiter!ConsumeScript, Limiter!Expire
<1>3. LetIn \in Nat /\ LetIn' \in Nat /\ LetIn <= LetIn'
  BY <1>2, LimiterBounds DEF LetIn
<1>4. Earlier \in Nat /\ Earlier' = Earlier
  BY <1>1, EarlierWindows DEF Earlier
<1>5. ASSUME NEW n \in 1 .. Limiter!Window
      PROVE  /\ recent'[n] \in Nat /\ recent'[n] <= Earlier' + LetIn'
             /\ left' > 0 /\ n <= Limiter!Window - left' => recent'[n] <= LetIn'
  <2>1. /\ recent[n] \in Nat /\ recent[n] <= Earlier + LetIn
        /\ left > 0 /\ n <= Limiter!Window - left => recent[n] <= LetIn
        /\ n \in Nat /\ n > 0
    BY <1>5, LimiterBounds DEF BurstInv
  <2> QED
    BY <1>1, <1>2, <1>3, <1>4, <2>1, LimiterBounds
<1> QED
  BY <1>1, <1>5 DEF BurstInv

\* A quarter passes; a window that ends becomes the one before the next.
LEMMA TickKeepsBurst ==
  ASSUME LimiterTypes, BurstInv, Limiter!Tick
  PROVE  BurstInv'
<1>1. /\ recent' = [n \in 1 .. Limiter!Window |-> IF n = 1 THEN 0 ELSE recent[n - 1]]
      /\ losses' = losses /\ losses \in Nat
      /\ \/ left = 1 /\ count' = 0 /\ left' = 0
         \/ left # 1 /\ left' = (IF left = 0 THEN 0 ELSE left - 1) /\ count' = count
  BY DEF Limiter!Tick, Limiter!WindowEnds, BurstInv
<1>2. Earlier \in Nat /\ Earlier' = Earlier /\ Limit <= Earlier
  BY <1>1, EarlierWindows DEF Earlier
<1>3. /\ LetIn \in Nat /\ LetIn <= Limit /\ (left = 0 => LetIn = 0)
      /\ left \in Nat /\ left <= Limiter!Window
  BY LetInBounds DEF LimiterTypes
<1>4. LetIn' = IF left = 1 THEN 0 ELSE LetIn
  BY <1>1, LimiterBounds DEF LetIn
<1>5. ASSUME NEW n \in 1 .. Limiter!Window
      PROVE  /\ recent'[n] \in Nat /\ recent'[n] <= Earlier' + LetIn'
             /\ left' > 0 /\ n <= Limiter!Window - left' => recent'[n] <= LetIn'
  <2>1. CASE n = 1
    BY <1>1, <1>2, <1>3, <1>4, <1>5, <2>1, LimiterBounds
  <2>2. CASE n # 1
    <3>1. n - 1 \in 1 .. Limiter!Window /\ n \in Nat /\ n <= Limiter!Window
      BY <1>5, <2>2, LimiterBounds
    <3>2. /\ recent'[n] = recent[n - 1]
          /\ recent[n - 1] \in Nat /\ recent[n - 1] <= Earlier + LetIn
          /\ left > 0 /\ n - 1 <= Limiter!Window - left => recent[n - 1] <= LetIn
      BY <1>1, <1>5, <2>2, <3>1 DEF BurstInv
    <3> QED
      BY <1>1, <1>2, <1>3, <1>4, <3>1, <3>2, LimiterBounds
  <2> QED
    BY <2>1, <2>2
<1> QED
  BY <1>1, <1>5 DEF BurstInv

\* Redis loses the key: what its window granted counts among the earlier ones.
LEMMA LossKeepsBurst ==
  ASSUME LimiterTypes, BurstInv, Limiter!LoseData
  PROVE  BurstInv'
<1>1. recent' = recent /\ losses' = losses + 1 /\ losses \in Nat /\ count' = 0 /\ left' = 0
  BY DEF Limiter!LoseData, Limiter!WindowEnds, BurstInv
<1>2. Earlier \in Nat /\ Earlier' = Earlier + Limit
  BY <1>1, EarlierWindows
<1>3. LetIn \in Nat /\ LetIn <= Limit /\ LetIn' = 0
  BY <1>1, LetInBounds, LimiterBounds DEF LetIn
<1>4. ASSUME NEW n \in 1 .. Limiter!Window
      PROVE  recent'[n] \in Nat /\ recent'[n] <= Earlier' + LetIn'
  <2>1. recent[n] \in Nat /\ recent[n] <= Earlier + LetIn
    BY <1>4 DEF BurstInv
  <2> QED
    BY <1>1, <1>2, <1>3, <2>1, LimiterBounds
<1> QED
  BY <1>1, <1>4 DEF BurstInv

\* Whatever step is taken.
LEMMA NextBurstInv == LimiterTypes /\ BurstInv /\ [Limiter!Next]_limiterVars => BurstInv'
<1>1. ASSUME BurstInv, UNCHANGED <<count, left, recent, losses>> PROVE BurstInv'
  BY <1>1 DEF BurstInv, Earlier, LetIn
<1>2. ASSUME BurstInv, NEW r \in Request, Limiter!Arrive(r) \/ Limiter!FailOpen(r) \/ Limiter!Answered(r)
      PROVE  BurstInv'
  BY <1>1, <1>2 DEF Limiter!Arrive, Limiter!FailOpen, Limiter!Answered
<1> QED
  BY <1>1, <1>2, DecideKeepsBurst, UnansweredKeepsBurst, TickKeepsBurst, LossKeepsBurst
  DEF Limiter!Next, limiterVars

\* The last window's length holds what two windows grant, and the lost ones.
LEMMA BurstInvImplies == LimiterTypes /\ BurstInv => Limiter!BurstBounded
<1> SUFFICES ASSUME LimiterTypes, BurstInv PROVE Limiter!BurstBounded
  OBVIOUS
<1>1. losses \in Nat /\ Limiter!Window \in 1 .. Limiter!Window
  BY LimiterBounds DEF BurstInv
<1>2. recent[Limiter!Window] \in Nat /\ recent[Limiter!Window] <= Earlier + LetIn
  BY <1>1 DEF BurstInv
<1>3. Earlier \in Nat /\ (2 + losses) * Limit = Earlier + Limit
  BY <1>1, EarlierWindows
<1> QED
  BY <1>2, <1>3, LetInBounds, LimiterBounds DEF Limiter!BurstBounded

-----------------------------------------------------------------------------
(* RedisPubSub: the connection has a channel, and messages of it, because   *)
(* somebody subscribed to it, and whoever did stays recognizable by its     *)
(* phase; only an unsubscribe takes a channel away.                         *)

SubPhases == {"idle", "waiting", "subscribing", "subscribed", "unsubscribing", "done", "failed"}
JoinedPhases == {"subscribed", "unsubscribing", "done"}

Heard(k) == \E t \in Subscriber : channelOf[t] = k /\ subPhase[t] \in JoinedPhases

FanOutInv ==
    /\ PubSub!TypeOK
    /\ PubSub!DeafNeedsPeerLeaving /\ PubSub!SilentAfterUnsubscribe /\ PubSub!LeakedHandlerNeedsPeer
    /\ \A k \in channels : Heard(k)
    /\ \A k \in Channel : messages[k] <= published /\ (messages[k] > 0 => Heard(k))

\* At first nobody listens and nothing is published.
LEMMA InitFanOutInv == PubSub!Init => FanOutInv
  BY PubSubAssumption
  DEF PubSub!Init, FanOutInv, PubSub!TypeOK, PubSub!DeafNeedsPeerLeaving, PubSub!SilentAfterUnsubscribe,
      PubSub!LeakedHandlerNeedsPeer, PubSub!RedisPubSubAssumption

\* Who has joined a channel is known by its phase for good.
LEMMA JoinedStaysJoined ==
  ASSUME FanOutInv, NEW s \in Subscriber, NEW from \in SubPhases, NEW to \in SubPhases,
         PubSub!Moves(s, from, to), channelOf' = channelOf,
         from \in JoinedPhases => to \in JoinedPhases
  PROVE  /\ subPhase' \in [Subscriber -> SubPhases]
         /\ \A t \in Subscriber : subPhase'[t] = IF t = s THEN to ELSE subPhase[t]
         /\ \A k : Heard(k) => Heard(k)'
         /\ strays' = strays => PubSub!LeakedHandlerNeedsPeer'
<1>1. subPhase[s] = from /\ subPhase' = [subPhase EXCEPT ![s] = to]
  BY DEF PubSub!Moves
<1>2. subPhase \in [Subscriber -> SubPhases]
  BY DEF FanOutInv, PubSub!TypeOK, SubPhases
<1>3. /\ subPhase' \in [Subscriber -> SubPhases]
      /\ \A t \in Subscriber : subPhase'[t] = IF t = s THEN to ELSE subPhase[t]
  BY <1>1, <1>2
<1>4. \A t \in Subscriber : subPhase[t] \in JoinedPhases => subPhase'[t] \in JoinedPhases
  BY <1>1, <1>3
<1>5. \A k : Heard(k) => Heard(k)'
  BY <1>4 DEF Heard
<1>6. ASSUME strays' = strays PROVE PubSub!LeakedHandlerNeedsPeer'
  <2>1. PubSub!LeakedHandlerNeedsPeer
    BY DEF FanOutInv
  <2>2. \A x : PubSub!Peers(x)' = PubSub!Peers(x) /\ PubSub!Peers(x) \subseteq Subscriber
    BY DEF PubSub!Peers
  <2> QED
    BY <1>4, <1>6, <2>1, <2>2 DEF PubSub!LeakedHandlerNeedsPeer, JoinedPhases
<1> QED
  BY <1>3, <1>5, <1>6

\* subscribe: a listener, the wait, and a SUBSCRIBE that fails.
LEMMA SubscribingKeepsFanOutInv ==
  ASSUME FanOutInv, NEW s \in Subscriber,
         \/ PubSub!Subscribe(s) \/ PubSub!Ready(s) \/ PubSub!NotReady(s) \/ PubSub!SubscribeFailed(s)
  PROVE  FanOutInv'
<1>1. /\ UNCHANGED <<channelOf, ready, channels, messages, published, subFaults, strays>>
      /\ listeners' = IF PubSub!Subscribe(s) THEN listeners \union {s} ELSE listeners
  BY DEF PubSub!Subscribe, PubSub!Ready, PubSub!NotReady, PubSub!SubscribeFailed, PubSub!Moves
<1>2. PICK from \in SubPhases, to \in SubPhases :
        /\ PubSub!Moves(s, from, to) /\ from \notin JoinedPhases /\ to \notin JoinedPhases
        /\ to \in {"waiting", "subscribing", "failed"}
        /\ IF PubSub!Subscribe(s) THEN from = "idle" ELSE from \in {"waiting", "subscribing"}
  BY DEF PubSub!Subscribe, PubSub!Ready, PubSub!NotReady, PubSub!SubscribeFailed, SubPhases, JoinedPhases,
         PubSub!Moves
<1>3. /\ subPhase' \in [Subscriber -> SubPhases]
      /\ \A t \in Subscriber : subPhase'[t] = IF t = s THEN to ELSE subPhase[t]
      /\ \A k : Heard(k) => Heard(k)'
      /\ PubSub!LeakedHandlerNeedsPeer'
  BY <1>1, <1>2, JoinedStaysJoined
<1>4. subPhase[s] = from
  BY <1>2 DEF PubSub!Moves
<1>5. PubSub!TypeOK'
  <2>1. listeners' = {t \in Subscriber : subPhase'[t] \in {"waiting", "subscribing", "subscribed", "failed"}}
    BY <1>1, <1>2, <1>3, <1>4 DEF FanOutInv, PubSub!TypeOK
  <2> QED
    BY <1>1, <1>3, <2>1 DEF FanOutInv, PubSub!TypeOK, SubPhases
<1>6. PubSub!DeafNeedsPeerLeaving'
  <2>1. \A t \in Subscriber : /\ subPhase'[t] = "subscribed" => subPhase[t] = "subscribed"
                              /\ subPhase[t] = "done" => subPhase'[t] = "done"
    BY <1>2, <1>3, <1>4 DEF JoinedPhases
  <2>2. \A t : PubSub!Peers(t)' = PubSub!Peers(t) /\ PubSub!Peers(t) \subseteq Subscriber
    BY <1>1 DEF PubSub!Peers
  <2>3. PubSub!DeafNeedsPeerLeaving
    BY DEF FanOutInv
  <2> QED
    BY <1>1, <2>1, <2>2, <2>3 DEF PubSub!DeafNeedsPeerLeaving
<1>7. PubSub!SilentAfterUnsubscribe'
  BY <1>1 DEF FanOutInv, PubSub!SilentAfterUnsubscribe
<1> QED
  BY <1>1, <1>3, <1>5, <1>6, <1>7 DEF FanOutInv

\* SUBSCRIBE is answered: the connection has the channel.
LEMMA SubscribedKeepsFanOutInv ==
  ASSUME FanOutInv, NEW s \in Subscriber, PubSub!Subscribed(s)
  PROVE  FanOutInv'
<1>1. /\ UNCHANGED <<channelOf, listeners, ready, messages, published, subFaults, strays>>
      /\ channels' = channels \union {channelOf[s]}
      /\ PubSub!Moves(s, "subscribing", "subscribed") /\ subPhase[s] = "subscribing"
  BY DEF PubSub!Subscribed, PubSub!Moves
<1>2. /\ subPhase' \in [Subscriber -> SubPhases]
      /\ \A t \in Subscriber : subPhase'[t] = IF t = s THEN "subscribed" ELSE subPhase[t]
      /\ \A k : Heard(k) => Heard(k)'
      /\ PubSub!LeakedHandlerNeedsPeer'
  BY <1>1, JoinedStaysJoined DEF SubPhases, JoinedPhases
<1>3. PubSub!TypeOK'
  <2>1. listeners' = {t \in Subscriber : subPhase'[t] \in {"waiting", "subscribing", "subscribed", "failed"}}
    BY <1>1, <1>2 DEF FanOutInv, PubSub!TypeOK
  <2>2. channels' \subseteq Channel
    BY <1>1 DEF FanOutInv, PubSub!TypeOK
  <2> QED
    BY <1>1, <1>2, <2>1, <2>2 DEF FanOutInv, PubSub!TypeOK, SubPhases
<1>4. PubSub!DeafNeedsPeerLeaving'
  <2>1. \A t : PubSub!Peers(t)' = PubSub!Peers(t) /\ PubSub!Peers(t) \subseteq Subscriber
    BY <1>1 DEF PubSub!Peers
  <2>2. PubSub!DeafNeedsPeerLeaving
    BY DEF FanOutInv
  <2> QED
    BY <1>1, <1>2, <2>1, <2>2 DEF PubSub!DeafNeedsPeerLeaving
<1>5. Heard(channelOf[s])'
  BY <1>1, <1>2 DEF Heard, JoinedPhases
<1>6. PubSub!SilentAfterUnsubscribe'
  BY <1>1 DEF FanOutInv, PubSub!SilentAfterUnsubscribe
<1> QED
  BY <1>1, <1>2, <1>3, <1>4, <1>5, <1>6 DEF FanOutInv

\* The returned function: no listener any more, then no channel.
LEMMA UnsubscribingKeepsFanOutInv ==
  ASSUME FanOutInv, NEW s \in Subscriber, PubSub!Unsubscribe(s) \/ PubSub!Unsubscribed(s)
  PROVE  FanOutInv'
<1>1. /\ UNCHANGED <<channelOf, ready, messages, published, subFaults, strays>>
      /\ channels' = channels \/ (PubSub!Unsubscribed(s) /\ channels' = channels \ {channelOf[s]})
      /\ listeners' = IF PubSub!Unsubscribe(s) THEN listeners \ {s} ELSE listeners
  BY DEF PubSub!Unsubscribe, PubSub!Unsubscribed, PubSub!Moves
<1>2. PICK from \in {"subscribed", "unsubscribing"}, to \in {"unsubscribing", "done"} :
        /\ PubSub!Moves(s, from, to) /\ subPhase[s] = from
        /\ PubSub!Unsubscribed(s) => to = "done"
        /\ ~PubSub!Unsubscribe(s) => from = "unsubscribing"
  BY DEF PubSub!Unsubscribe, PubSub!Unsubscribed, PubSub!Moves
<1>3. /\ subPhase' \in [Subscriber -> SubPhases]
      /\ \A t \in Subscriber : subPhase'[t] = IF t = s THEN to ELSE subPhase[t]
      /\ \A k : Heard(k) => Heard(k)'
      /\ PubSub!LeakedHandlerNeedsPeer'
  BY <1>1, <1>2, JoinedStaysJoined DEF SubPhases, JoinedPhases
<1>4. PubSub!TypeOK'
  <2>1. listeners' = {t \in Subscriber : subPhase'[t] \in {"waiting", "subscribing", "subscribed", "failed"}}
    BY <1>1, <1>2, <1>3 DEF FanOutInv, PubSub!TypeOK
  <2>2. channels' \subseteq Channel
    BY <1>1 DEF FanOutInv, PubSub!TypeOK
  <2> QED
    BY <1>1, <1>3, <2>1, <2>2 DEF FanOutInv, PubSub!TypeOK, SubPhases
<1>5. PubSub!DeafNeedsPeerLeaving'
  <2> SUFFICES ASSUME NEW t \in Subscriber, subPhase'[t] = "subscribed", channelOf[t] \notin channels'
               PROVE  \E u \in PubSub!Peers(t) : subPhase'[u] = "done"
    BY <1>1 DEF PubSub!DeafNeedsPeerLeaving, PubSub!Peers
  <2>1. t # s /\ subPhase[t] = "subscribed"
    BY <1>2, <1>3
  <2>2. CASE channelOf[t] \notin channels
    <3>1. PICK u \in PubSub!Peers(t) : subPhase[u] = "done"
      BY <2>1, <2>2 DEF FanOutInv, PubSub!DeafNeedsPeerLeaving
    <3>2. u \in Subscriber /\ u # s
      BY <1>2, <3>1 DEF PubSub!Peers
    <3> QED
      BY <1>3, <3>1, <3>2
  <2>3. CASE channelOf[t] \in channels
    <3>1. channelOf[t] = channelOf[s] /\ to = "done"
      BY <1>1, <1>2, <2>3
    <3>2. s \in PubSub!Peers(t) /\ subPhase'[s] = "done"
      BY <1>3, <2>1, <3>1 DEF PubSub!Peers
    <3> QED
      BY <3>2
  <2> QED
    BY <2>2, <2>3
<1>6. PubSub!SilentAfterUnsubscribe'
  BY <1>1 DEF FanOutInv, PubSub!SilentAfterUnsubscribe
<1> QED
  BY <1>1, <1>3, <1>4, <1>5, <1>6 DEF FanOutInv

\* PUBLISH reaches the connection if it has the channel.
LEMMA PublishKeepsFanOutInv ==
  ASSUME FanOutInv, NEW k \in Channel, PubSub!Publish(k)
  PROVE  FanOutInv'
<1>1. /\ UNCHANGED <<channelOf, subPhase, listeners, ready, channels, subFaults, strays>>
      /\ published < MaxPublished /\ published' = published + 1
      /\ messages' = IF ready /\ k \in channels THEN [messages EXCEPT ![k] = messages[k] + 1] ELSE messages
  BY DEF PubSub!Publish
<1>2. /\ messages \in [Channel -> 0 .. MaxPublished] /\ published \in 0 .. MaxPublished
      /\ MaxPublished \in Nat /\ \A j \in Channel : messages[j] <= published
  BY PubSubAssumption DEF FanOutInv, PubSub!TypeOK, PubSub!RedisPubSubAssumption
<1>3. /\ messages' \in [Channel -> 0 .. MaxPublished] /\ published' \in 0 .. MaxPublished
      /\ \A j \in Channel : messages'[j] <= published'
  <2>1. published' \in 0 .. MaxPublished /\ \A j \in Channel : messages[j] + 1 \in 0 .. MaxPublished
    BY <1>1, <1>2
  <2> QED
    BY <1>1, <1>2, <2>1
<1>4. \A j \in Channel : messages'[j] > 0 => Heard(j)
  BY <1>1, <1>2 DEF FanOutInv
<1>5. UNCHANGED <<PubSub!DeafNeedsPeerLeaving, PubSub!SilentAfterUnsubscribe, PubSub!LeakedHandlerNeedsPeer>>
  BY <1>1 DEF PubSub!DeafNeedsPeerLeaving, PubSub!SilentAfterUnsubscribe, PubSub!LeakedHandlerNeedsPeer,
              PubSub!Peers
<1>6. \A j : Heard(j)' <=> Heard(j)
  BY <1>1 DEF Heard
<1> QED
  BY <1>1, <1>3, <1>4, <1>5, <1>6 DEF FanOutInv, PubSub!TypeOK

\* A message runs the handlers of its channel: none has begun to unsubscribe,
\* and one whose subscribe failed is not the one that asked for the channel.
LEMMA DeliverKeepsFanOutInv ==
  ASSUME FanOutInv, NEW k \in Channel, PubSub!Deliver(k)
  PROVE  FanOutInv'
<1> DEFINE Stray == {<<s, subPhase[s]>> : s \in {t \in listeners : channelOf[t] = k /\ subPhase[t] # "subscribed"}}
<1>1. /\ UNCHANGED <<channelOf, subPhase, listeners, ready, channels, published, subFaults>>
      /\ messages[k] > 0 /\ messages' = [messages EXCEPT ![k] = messages[k] - 1]
      /\ strays' = strays \union Stray
  BY DEF PubSub!Deliver
<1>2. /\ messages \in [Channel -> 0 .. MaxPublished] /\ published \in 0 .. MaxPublished
      /\ MaxPublished \in Nat /\ \A j \in Channel : messages[j] <= published
      /\ listeners = {s \in Subscriber : subPhase[s] \in {"waiting", "subscribing", "subscribed", "failed"}}
  BY PubSubAssumption DEF FanOutInv, PubSub!TypeOK, PubSub!RedisPubSubAssumption
<1>3. /\ messages' \in [Channel -> 0 .. MaxPublished]
      /\ \A j \in Channel : messages'[j] <= published /\ (messages'[j] > 0 => messages[j] > 0)
  <2>1. messages[k] - 1 \in 0 .. MaxPublished /\ messages[k] - 1 <= published
    BY <1>1, <1>2
  <2> QED
    BY <1>1, <1>2, <2>1
<1>4. PubSub!SilentAfterUnsubscribe'
  BY <1>1, <1>2 DEF FanOutInv, PubSub!SilentAfterUnsubscribe
<1>5. PubSub!LeakedHandlerNeedsPeer'
  <2> SUFFICES ASSUME NEW x \in strays', x[2] = "failed"
               PROVE  \E t \in PubSub!Peers(x[1]) : subPhase[t] \in JoinedPhases
    BY <1>1 DEF PubSub!LeakedHandlerNeedsPeer, PubSub!Peers, JoinedPhases
  <2>1. CASE x \in strays
    BY <2>1 DEF FanOutInv, PubSub!LeakedHandlerNeedsPeer, JoinedPhases
  <2>2. CASE x \in Stray
    <3>1. PICK s \in Subscriber : x = <<s, subPhase[s]>> /\ channelOf[s] = k
      BY <1>2, <2>2
    <3>2. PICK t \in Subscriber : channelOf[t] = k /\ subPhase[t] \in JoinedPhases
      BY <1>1 DEF FanOutInv, Heard
    <3>3. x[1] = s /\ t # s
      BY <3>1, <3>2 DEF JoinedPhases
    <3> QED
      BY <3>1, <3>2, <3>3 DEF PubSub!Peers
  <2> QED
    BY <1>1, <2>1, <2>2
<1>6. PubSub!DeafNeedsPeerLeaving'
  BY <1>1 DEF FanOutInv, PubSub!DeafNeedsPeerLeaving, PubSub!Peers
<1>7. \A j : Heard(j)' <=> Heard(j)
  BY <1>1 DEF Heard
<1> QED
  BY <1>1, <1>3, <1>4, <1>5, <1>6, <1>7 DEF FanOutInv, PubSub!TypeOK

\* The connection drops with what was under way, and comes back.
LEMMA ConnectionKeepsFanOutInv ==
  ASSUME FanOutInv, PubSub!Drop \/ PubSub!Reconnect
  PROVE  FanOutInv'
<1>1. /\ UNCHANGED <<channelOf, subPhase, listeners, channels, published, strays>>
      /\ ready' \in BOOLEAN
      /\ messages' = messages \/ messages' = [k \in Channel |-> 0]
  BY DEF PubSub!Drop, PubSub!Reconnect
<1>2. published \in 0 .. MaxPublished /\ MaxPublished \in Nat
  BY PubSubAssumption DEF FanOutInv, PubSub!TypeOK, PubSub!RedisPubSubAssumption
<1>3. UNCHANGED <<PubSub!DeafNeedsPeerLeaving, PubSub!SilentAfterUnsubscribe, PubSub!LeakedHandlerNeedsPeer>>
  BY <1>1 DEF PubSub!DeafNeedsPeerLeaving, PubSub!SilentAfterUnsubscribe, PubSub!LeakedHandlerNeedsPeer,
              PubSub!Peers
<1>4. \A j : Heard(j)' <=> Heard(j)
  BY <1>1 DEF Heard
<1>5. PubSub!TypeOK'
  BY <1>1, <1>2 DEF FanOutInv, PubSub!TypeOK
<1>6. \A k \in Channel : messages'[k] <= published' /\ (messages'[k] > 0 => Heard(k)')
  BY <1>1, <1>2, <1>4 DEF FanOutInv
<1> QED
  BY <1>1, <1>3, <1>4, <1>5, <1>6 DEF FanOutInv

\* Whatever step is taken.
LEMMA NextFanOutInv == FanOutInv /\ [PubSub!Next]_pubSubVars => FanOutInv'
<1>1. FanOutInv /\ UNCHANGED pubSubVars => FanOutInv'
  BY DEF pubSubVars, FanOutInv, PubSub!TypeOK, PubSub!DeafNeedsPeerLeaving, PubSub!SilentAfterUnsubscribe,
         PubSub!LeakedHandlerNeedsPeer, PubSub!Peers, Heard
<1> QED
  BY <1>1, SubscribingKeepsFanOutInv, SubscribedKeepsFanOutInv, UnsubscribingKeepsFanOutInv,
     PublishKeepsFanOutInv, DeliverKeepsFanOutInv, ConnectionKeepsFanOutInv DEF PubSub!Next

\* FanOutInv says what it is for.
LEMMA FanOutInvImplies ==
  FanOutInv => /\ PubSub!TypeOK /\ PubSub!DeafNeedsPeerLeaving
               /\ PubSub!SilentAfterUnsubscribe /\ PubSub!LeakedHandlerNeedsPeer
  BY DEF FanOutInv

-----------------------------------------------------------------------------
(* HttpClient: an attempt's clock runs at most a timeout for each hop, and  *)
(* the call's at most an attempt's for each attempt that has begun; a write *)
(* nobody consented to repeat has one attempt, of one hop.                  *)

\* The time an attempt may take.
AttemptMs == (1 + MaxRedirects) * TimeoutMs

Times ==
    /\ received \in Nat /\ elapsed \in Nat
    /\ tryTime <= AttemptMs
    /\ (httpPhase = "dispatch" /\ redirects = 0) => elapsed <= attempt * AttemptMs
    /\ (httpPhase = "dispatch" /\ redirects # 0) =>
          tryTime <= redirects * TimeoutMs /\ elapsed <= attempt * AttemptMs + tryTime
    /\ httpPhase \in Http!Waiting =>
          tryTime <= redirects * TimeoutMs + hopTime /\ elapsed <= attempt * AttemptMs + tryTime
    /\ httpPhase \in {"backoff", "settled"} => elapsed <= attempt * AttemptMs + AttemptMs
    /\ httpPhase = "backoff" => attempt < MaxRetries

Consented == req.safe \/ req.keyed \/ req.retry # NoPolicy \/ req.scope # NoPolicy

SentOnce ==
    ~Consented =>
        /\ attempt = 0 /\ redirects = 0 /\ httpPhase # "backoff"
        /\ received <= 1
        /\ httpPhase \in {"dispatch", "fetching"} => received = 0

CallInv == Http!TypeOK /\ Times /\ SentOnce

\* Products of natural numbers.
LEMMA Products ==
  ASSUME NEW m \in Nat, NEW n \in Nat, NEW k \in Nat, m <= n
  PROVE  m * k \in Nat /\ m * k <= n * k /\ (m + 1) * k = m * k + k
<1>1. PICK d \in Nat : n = m + d
  <2>1. n - m \in Nat /\ n = m + (n - m)
    OBVIOUS
  <2> QED
    BY <2>1
<1>2. n * k = m * k + d * k
  BY <1>1
<1>3. m * k \in Nat /\ d * k \in Nat
  BY <1>1
<1> QED
  BY <1>2, <1>3

\* The bounds are numbers.
LEMMA HttpBounds ==
  /\ TimeoutMs \in Nat /\ TimeoutMs > 0 /\ MaxRedirects \in Nat /\ MaxRetries \in Nat
  /\ AttemptMs \in Nat /\ AttemptMs = Http!Hops * TimeoutMs /\ AttemptMs = TimeoutMs * Http!Hops
  /\ AttemptMs = MaxRedirects * TimeoutMs + TimeoutMs
<1>1. TimeoutMs \in Nat /\ TimeoutMs > 0 /\ MaxRedirects \in Nat /\ MaxRetries \in Nat
  BY HttpAssumption DEF Http!HttpClientAssumption
<1>2. MaxRedirects * TimeoutMs \in Nat /\ (1 + MaxRedirects) * TimeoutMs = MaxRedirects * TimeoutMs + TimeoutMs
  BY <1>1
<1> QED
  BY <1>1, <1>2 DEF AttemptMs, Http!Hops

\* What the types say.
LEMMA CallTypes ==
  ASSUME CallInv
  PROVE  /\ attempt \in Nat /\ attempt <= MaxRetries /\ redirects \in Nat /\ redirects <= MaxRedirects
         /\ hopTime \in Nat /\ hopTime <= TimeoutMs /\ tryTime \in Nat /\ tryTime <= AttemptMs
         /\ elapsed \in Nat /\ received \in Nat
         /\ attempt * AttemptMs \in Nat /\ redirects * TimeoutMs \in Nat
         /\ redirects * TimeoutMs + TimeoutMs <= AttemptMs
<1>1. /\ attempt \in Nat /\ attempt <= MaxRetries /\ redirects \in Nat /\ redirects <= MaxRedirects
      /\ hopTime \in Nat /\ hopTime <= TimeoutMs /\ tryTime \in Nat
  BY HttpBounds DEF CallInv, Http!TypeOK
<1>2. attempt * AttemptMs \in Nat
  BY <1>1, HttpBounds, Products
<1>3. redirects * TimeoutMs \in Nat /\ redirects * TimeoutMs <= MaxRedirects * TimeoutMs
  BY <1>1, HttpBounds, Products
<1>4. redirects * TimeoutMs + TimeoutMs <= AttemptMs
  BY <1>3, HttpBounds
<1> QED
  BY <1>1, <1>2, <1>3, <1>4 DEF CallInv, Times

\* At first nothing is sent.
LEMMA InitCallInv == Http!Init => CallInv
<1> SUFFICES ASSUME Http!Init PROVE CallInv
  OBVIOUS
<1>1. 0 * AttemptMs = 0 /\ TimeoutMs * Http!Hops \in Nat
  BY HttpBounds
<1> QED
  BY <1>1, HttpBounds DEF Http!Init, CallInv, Http!TypeOK, Times, SentOnce, Http!Waiting

\* An attempt ends: the loop goes on if a policy lets it.
LEMMA SettlingKeepsCallInv ==
  ASSUME CallInv, NEW o \in {"ok", "429", "503", "tooLarge", "network", "timeout", "aborted"},
         Http!Settle(o), UNCHANGED <<req, attempt, redirects, aborted, hopTime, tryTime, elapsed>>,
         UNCHANGED <<received, answered>>,
         httpPhase \in Http!Waiting \union {"dispatch"}
  PROVE  CallInv'
<1>1. /\ httpPhase' \in {"backoff", "settled"} /\ outcome' = o
      /\ httpPhase' = "backoff" => Http!ResolveRetry # NoPolicy /\ attempt < MaxRetries
  BY DEF Http!Settle
<1>2. Http!TypeOK'
  BY <1>1 DEF CallInv, Http!TypeOK
<1>3. Times'
  <2>1. elapsed <= attempt * AttemptMs + AttemptMs
    BY CallTypes, HttpBounds DEF CallInv, Times
  <2> QED
    BY <1>1, <2>1 DEF CallInv, Times, Http!Waiting
<1>4. SentOnce'
  <2>1. ~Consented => Http!ResolveRetry = NoPolicy
    BY DEF Consented, Http!ResolveRetry
  <2>2. Consented' <=> Consented
    BY DEF Consented
  <2> QED
    BY <1>1, <2>1, <2>2 DEF CallInv, SentOnce, Http!Waiting
<1> QED
  BY <1>2, <1>3, <1>4 DEF CallInv

\* Every way an attempt ends.
LEMMA EndKeepsCallInv ==
  ASSUME CallInv,
         \/ Http!DispatchAborted \/ Http!ReadBody \/ Http!NetworkFails \/ Http!Timeout \/ Http!CallerStops
  PROVE  CallInv'
<1>1. \A o \in {"tooLarge", "network", "timeout", "aborted"} :
        Http!Rethrow(o) \in {"tooLarge", "network", "timeout", "aborted"}
  BY DEF Http!Rethrow
<1>2. PICK o \in {"ok", "429", "503", "tooLarge", "network", "timeout", "aborted"} : Http!Settle(o)
  BY <1>1 DEF Http!DispatchAborted, Http!ReadBody, Http!NetworkFails, Http!Timeout, Http!CallerStops
<1>3. /\ UNCHANGED <<req, attempt, redirects, aborted, hopTime, tryTime, elapsed>>
      /\ UNCHANGED <<received, answered>>
      /\ httpPhase \in Http!Waiting \union {"dispatch"}
  BY DEF Http!DispatchAborted, Http!ReadBody, Http!NetworkFails, Http!Timeout, Http!CallerStops,
         Http!clocks, Http!ghosts, Http!Waiting
<1> QED
  BY <1>2, <1>3, SettlingKeepsCallInv

\* A hop begins; the first one of an attempt starts its clock.
LEMMA DispatchKeepsCallInv ==
  ASSUME CallInv, Http!Dispatch
  PROVE  CallInv'
<1>1. /\ httpPhase = "dispatch" /\ httpPhase' = "fetching" /\ hopTime' = 0
      /\ tryTime' = IF redirects = 0 THEN 0 ELSE tryTime
      /\ UNCHANGED <<req, attempt, redirects, elapsed, aborted, outcome, received, answered>>
  BY DEF Http!Dispatch, Http!ghosts
<1>2. Http!TypeOK'
  BY <1>1, HttpBounds DEF CallInv, Http!TypeOK, Http!Waiting
<1>3. Times'
  <2>1. /\ tryTime' \in Nat /\ tryTime' <= AttemptMs
        /\ tryTime' <= redirects * TimeoutMs + 0 /\ elapsed <= attempt * AttemptMs + tryTime'
    <3>1. CASE redirects = 0
      <4>1. redirects * TimeoutMs = 0
        BY <3>1, HttpBounds
      <4>2. tryTime' = 0 /\ elapsed <= attempt * AttemptMs
        BY <1>1, <3>1 DEF CallInv, Times
      <4>3. tryTime' \in Nat /\ tryTime' <= AttemptMs
        BY <4>2, HttpBounds
      <4>4. tryTime' <= redirects * TimeoutMs + 0
        BY <4>1, <4>2
      <4>5. elapsed <= attempt * AttemptMs + 0
        BY <4>2, CallTypes
      <4> QED
        BY <4>2, <4>3, <4>4, <4>5
    <3>2. CASE redirects # 0
      BY <1>1, <3>2, CallTypes DEF CallInv, Times
    <3> QED
      BY <3>1, <3>2
  <2> QED
    BY <1>1, <2>1 DEF CallInv, Times, Http!Waiting
<1>4. SentOnce'
  BY <1>1 DEF CallInv, SentOnce, Consented
<1> QED
  BY <1>2, <1>3, <1>4 DEF CallInv

\* The peer gets the hop, and answers with headers.
LEMMA PeerKeepsCallInv ==
  ASSUME CallInv, Http!Receive \/ Http!Headers
  PROVE  CallInv'
<1>1. /\ UNCHANGED <<req, attempt, redirects, aborted, outcome, hopTime, tryTime, elapsed>>
      /\ httpPhase \in {"fetching", "reached"} /\ httpPhase' \in {"reached", "reading"}
      /\ received' = received \/ (httpPhase = "fetching" /\ received' = received + 1)
  BY DEF Http!Receive, Http!Headers, Http!clocks
<1>2. Http!TypeOK'
  BY <1>1 DEF CallInv, Http!TypeOK, Http!Waiting
<1>3. Times'
  BY <1>1 DEF CallInv, Times, Http!Waiting
<1>4. SentOnce'
  <2>1. received \in Nat
    BY DEF CallInv, Times
  <2> QED
    BY <1>1, <2>1 DEF CallInv, SentOnce, Consented
<1> QED
  BY <1>2, <1>3, <1>4 DEF CallInv

\* A redirect is followed, of a safe method only.
LEMMA RedirectKeepsCallInv ==
  ASSUME CallInv, Http!Redirect
  PROVE  CallInv'
<1>1. /\ httpPhase = "reached" /\ httpPhase' = "dispatch"
      /\ req.safe /\ redirects < MaxRedirects /\ redirects' = redirects + 1
      /\ UNCHANGED <<req, attempt, aborted, outcome, received, hopTime, tryTime, elapsed>>
  BY DEF Http!Redirect, Http!Follows, Http!clocks
<1>2. Http!TypeOK'
  <2>1. redirects' \in 0 .. MaxRedirects
    BY <1>1, CallTypes, HttpBounds
  <2> QED
    BY <1>1, <2>1 DEF CallInv, Http!TypeOK, Http!Waiting
<1>3. Times'
  <2>1. redirects' # 0 /\ redirects' * TimeoutMs = redirects * TimeoutMs + TimeoutMs
    BY <1>1, CallTypes, HttpBounds, Products
  <2>2. tryTime <= redirects * TimeoutMs + hopTime /\ elapsed <= attempt * AttemptMs + tryTime
    BY <1>1 DEF CallInv, Times, Http!Waiting
  <2>3. tryTime <= redirects' * TimeoutMs
    BY <2>1, <2>2, CallTypes, HttpBounds
  <2> QED
    BY <1>1, <2>1, <2>2, <2>3 DEF CallInv, Times, Http!Waiting
<1>4. SentOnce'
  BY <1>1 DEF SentOnce, Consented
<1> QED
  BY <1>2, <1>3, <1>4 DEF CallInv

\* The next attempt, which no clock has run for yet.
LEMMA BackoffKeepsCallInv ==
  ASSUME CallInv, Http!Backoff
  PROVE  CallInv'
<1>1. /\ httpPhase = "backoff" /\ httpPhase' = "dispatch"
      /\ attempt' = attempt + 1 /\ redirects' = 0
      /\ UNCHANGED <<req, aborted, outcome, received, hopTime, tryTime, elapsed>>
  BY DEF Http!Backoff, Http!clocks
<1>2. Http!TypeOK'
  <2>1. attempt' \in 0 .. MaxRetries /\ redirects' \in 0 .. MaxRedirects
    BY <1>1, CallTypes, HttpBounds DEF CallInv, Times
  <2> QED
    BY <1>1, <2>1 DEF CallInv, Http!TypeOK
<1>3. Times'
  <2>1. attempt' * AttemptMs = attempt * AttemptMs + AttemptMs
    BY <1>1, CallTypes, HttpBounds, Products
  <2> QED
    BY <1>1, <2>1 DEF CallInv, Times, Http!Waiting
<1>4. SentOnce'
  BY <1>1 DEF CallInv, SentOnce, Consented
<1> QED
  BY <1>2, <1>3, <1>4 DEF CallInv

\* A tick of the clock, before the timer of the hop is due.
LEMMA TimeKeepsCallInv ==
  ASSUME CallInv, Http!Tick
  PROVE  CallInv'
<1>1. /\ httpPhase \in Http!Waiting /\ hopTime < TimeoutMs
      /\ hopTime' = hopTime + 1 /\ tryTime' = tryTime + 1 /\ elapsed' = elapsed + 1
      /\ UNCHANGED <<req, httpPhase, attempt, redirects, aborted, outcome, received, answered>>
  BY DEF Http!Tick, Http!ghosts
<1>2. /\ tryTime <= redirects * TimeoutMs + hopTime /\ elapsed <= attempt * AttemptMs + tryTime
  BY <1>1 DEF CallInv, Times
<1>3. /\ hopTime' \in 0 .. TimeoutMs /\ tryTime' \in Nat /\ tryTime' <= AttemptMs /\ elapsed' \in Nat
      /\ tryTime' <= redirects * TimeoutMs + hopTime' /\ elapsed' <= attempt * AttemptMs + tryTime'
  BY <1>1, <1>2, CallTypes, HttpBounds
<1>4. Http!TypeOK'
  <2>1. tryTime' \in 0 .. TimeoutMs * Http!Hops
    BY <1>3, HttpBounds
  <2> QED
    BY <1>1, <1>3, <2>1 DEF CallInv, Http!TypeOK
<1>5. Times'
  BY <1>1, <1>3 DEF CallInv, Times, Http!Waiting
<1>6. SentOnce'
  BY <1>1 DEF CallInv, SentOnce, Consented
<1> QED
  BY <1>4, <1>5, <1>6 DEF CallInv

\* The caller aborts.
LEMMA AbortKeepsCallInv ==
  ASSUME CallInv, Http!Abort
  PROVE  CallInv'
  BY DEF Http!Abort, Http!clocks, Http!ghosts, CallInv, Http!TypeOK, Times, SentOnce, Consented

\* Whatever step is taken.
LEMMA NextCallInv == CallInv /\ [Http!Next]_httpVars => CallInv'
<1>1. CallInv /\ UNCHANGED httpVars => CallInv'
  BY DEF httpVars, CallInv, Http!TypeOK, Times, SentOnce, Consented
<1> QED
  BY <1>1, EndKeepsCallInv, DispatchKeepsCallInv, PeerKeepsCallInv, RedirectKeepsCallInv, BackoffKeepsCallInv,
     TimeKeepsCallInv, AbortKeepsCallInv DEF Http!Next

\* The attempts add up to the time a call may take.
LEMMA CallInvImplies == CallInv => Http!TypeOK /\ Http!WriteTwiceNeedsConsent /\ Http!CallIsBounded
<1> SUFFICES ASSUME CallInv PROVE Http!WriteTwiceNeedsConsent /\ Http!CallIsBounded
  BY DEF CallInv
<1>1. Http!WriteTwiceNeedsConsent
  BY CallTypes DEF CallInv, SentOnce, Consented, Http!WriteTwiceNeedsConsent
<1>2. Http!CallIsBounded
  <2>1. elapsed <= attempt * AttemptMs + AttemptMs
    BY CallTypes, HttpBounds DEF CallInv, Times, Http!TypeOK
  <2>2. attempt * AttemptMs <= MaxRetries * AttemptMs /\ (MaxRetries + 1) * AttemptMs = MaxRetries * AttemptMs + AttemptMs
    BY CallTypes, HttpBounds, Products
  <2>3. MaxRetries * AttemptMs \in Nat
    BY HttpBounds, Products
  <2>4. elapsed <= (MaxRetries + 1) * AttemptMs
    BY <2>1, <2>2, <2>3, CallTypes, HttpBounds
  <2>5. (1 + MaxRetries) * Http!Hops * TimeoutMs = (MaxRetries + 1) * AttemptMs
    BY HttpBounds DEF Http!Hops, AttemptMs
  <2> QED
    BY <2>4, <2>5 DEF Http!CallIsBounded
<1> QED
  BY <1>1, <1>2

-----------------------------------------------------------------------------
(* WebSession: a call that has not settled has not been executed.  A tab    *)
(* refreshes with the cookie, and as long as one tab does at a time and no  *)
(* message is lost, the cookie is a token the server has not rotated yet.   *)
(* Every token was paid for by a call: the ones that are minted, the        *)
(* refreshes that may mint one and the requests that may still lead to a    *)
(* refresh are never more than the calls, so there is a fresh token.        *)

Slots == Tab \X Request
Refreshes ==
    [pc : {"none", "sent", "answered"}, token : {Web!NoToken} \union Web!Token,
     next : {Web!NoToken} \union Web!Token]
Requests ==
    [pc : {"idle", "sent", "refused", "waiting", "retried"}, access : Web!Access, route : {"global", "tenant"}]

Refreshing == {b \in Tab : refresh[b].pc = "sent"}
Owing == {i \in Slots : request[i].pc \in {"sent", "refused"}}

MintedTo(n) == \A t \in Web!Token : row[t] = "none" <=> t > n

PaidFor == \E n \in Nat : MintedTo(n) /\ n + Cardinality(Refreshing) + Cardinality(Owing) <= calls

Untried == \A i \in Slots : executed[i] <= 1 /\ (request[i].pc # "idle" => executed[i] = 0)

Unanswered == \A b \in Tab : refresh[b].pc = "sent" => refresh[b].next = Web!NoToken

Usable(t) == t = Web!NoToken \/ row[t] = "active"

Calm == ~crossed /\ webFaults = MaxLost

CalmInv ==
    Calm =>
        /\ ~reused
        /\ \A b, c \in Tab : refresh[b].pc # "none" /\ refresh[c].pc # "none" => b = c
        /\ \A b \in Tab : refresh[b].pc = "sent" => Usable(refresh[b].token)
        /\ \A b \in Tab : refresh[b].pc = "answered" => Usable(refresh[b].next)
        /\ (\A b \in Tab : refresh[b].pc = "answered" => refresh[b].next = Web!NoToken) => Usable(cookie)

WebInv == Web!TypeOK /\ Untried /\ Unanswered /\ PaidFor /\ CalmInv

\* The bounds are numbers, and a browser has finitely many tabs and requests.
LEMMA WebBounds ==
  /\ MaxCalls \in Nat /\ MaxLost \in Nat
  /\ IsFiniteSet(Tab) /\ IsFiniteSet(Slots)
  /\ Web!Token = 1 .. MaxCalls /\ Web!NoToken = 0 /\ Web!NoToken \notin Web!Token
<1>1. MaxCalls \in Nat /\ MaxLost \in Nat
  BY WebAssumption DEF Web!BoundAssumption
<1>2. IsFiniteSet(Tab) /\ IsFiniteSet(Request)
  BY WebAssumption DEF Web!TabAssumption, Web!IsFiniteSet, IsFiniteSet
<1>3. IsFiniteSet(Slots)
  BY <1>2, FS_Product DEF Slots
<1> QED
  BY <1>1, <1>2, <1>3 DEF Web!Token, Web!NoToken

\* What the types say.
LEMMA WebTypes ==
  ASSUME Web!TypeOK
  PROVE  /\ row \in [Web!Token -> {"none", "active", "revoked"}]
         /\ family \in [Web!Token -> {Web!NoToken} \union Web!Token]
         /\ cookie \in {Web!NoToken} \union Web!Token
         /\ session \in [Tab -> Web!Access]
         /\ refresh \in [Tab -> Refreshes]
         /\ request \in [Slots -> Requests]
         /\ \A i \in Slots : request[i].pc = "waiting" => refresh[i[1]].pc # "none"
         /\ calls \in Nat /\ calls <= MaxCalls /\ webFaults \in Nat /\ webFaults <= MaxLost
         /\ executed \in [Slots -> Nat]
         /\ reused \in BOOLEAN /\ crossed \in BOOLEAN /\ futile \in BOOLEAN
<1>1. calls \in Nat /\ calls <= MaxCalls /\ webFaults \in Nat /\ webFaults <= MaxLost
  BY WebBounds DEF Web!TypeOK
<1> QED
  BY <1>1 DEF Web!TypeOK, Refreshes, Requests, Slots

\* The parts of the type invariant.
LEMMA WebTypesHold ==
  ASSUME /\ row' \in [Web!Token -> {"none", "active", "revoked"}]
         /\ family' \in [Web!Token -> {Web!NoToken} \union Web!Token]
         /\ cookie' \in {Web!NoToken} \union Web!Token
         /\ session' \in [Tab -> Web!Access]
         /\ refresh' \in [Tab -> Refreshes]
         /\ request' \in [Slots -> Requests]
         /\ \A i \in Slots : request'[i].pc = "waiting" => refresh'[i[1]].pc # "none"
         /\ calls' \in Nat /\ calls' <= MaxCalls /\ webFaults' \in Nat /\ webFaults' <= MaxLost
         /\ executed' \in [Slots -> Nat]
         /\ reused' \in BOOLEAN /\ crossed' \in BOOLEAN /\ futile' \in BOOLEAN
  PROVE  Web!TypeOK'
<1>1. calls' \in 0 .. MaxCalls /\ webFaults' \in 0 .. MaxLost
  BY WebBounds
<1> QED
  BY <1>1 DEF Web!TypeOK, Refreshes, Requests, Slots

\* The sets that are counted.
LEMMA Counts ==
  /\ IsFiniteSet(Refreshing) /\ Cardinality(Refreshing) \in Nat
  /\ IsFiniteSet(Owing) /\ Cardinality(Owing) \in Nat
<1>1. Refreshing \subseteq Tab /\ Owing \subseteq Slots
  BY DEF Refreshing, Owing
<1> QED
  BY <1>1, WebBounds, FS_Subset, FS_CardinalityType

\* At most one is added, at least one is taken away.
LEMMA Counted ==
  ASSUME NEW S, NEW T, NEW x, IsFiniteSet(S)
  PROVE  /\ T \subseteq S => IsFiniteSet(T) /\ Cardinality(T) \in Nat /\ Cardinality(T) <= Cardinality(S)
         /\ T \subseteq S \union {x} => IsFiniteSet(T) /\ Cardinality(T) \in Nat /\ Cardinality(T) <= Cardinality(S) + 1
         /\ x \in S /\ T \subseteq S \ {x} =>
               IsFiniteSet(T) /\ Cardinality(T) \in Nat /\ Cardinality(T) + 1 <= Cardinality(S)
<1>1. /\ Cardinality(S) \in Nat
      /\ IsFiniteSet(S \union {x}) /\ Cardinality(S \union {x}) <= Cardinality(S) + 1
      /\ Cardinality(S \union {x}) \in Nat
  <2>1. /\ IsFiniteSet(S \union {x}) /\ Cardinality(S) \in Nat
        /\ Cardinality(S \union {x}) = IF x \in S THEN Cardinality(S) ELSE Cardinality(S) + 1
    BY FS_AddElement, FS_CardinalityType
  <2> QED
    BY <2>1
<1>2. IsFiniteSet(S \ {x}) /\ Cardinality(S \ {x}) \in Nat
  BY FS_RemoveElement, FS_CardinalityType
<1>3. x \in S => Cardinality(S \ {x}) = Cardinality(S) - 1
  BY FS_RemoveElement
<1>4. T \subseteq S => IsFiniteSet(T) /\ Cardinality(T) \in Nat /\ Cardinality(T) <= Cardinality(S)
  BY FS_Subset, FS_CardinalityType
<1>5. T \subseteq S \union {x} =>
        IsFiniteSet(T) /\ Cardinality(T) \in Nat /\ Cardinality(T) <= Cardinality(S \union {x})
  BY <1>1, FS_Subset, FS_CardinalityType
<1>6. T \subseteq S \ {x} => IsFiniteSet(T) /\ Cardinality(T) \in Nat /\ Cardinality(T) <= Cardinality(S \ {x})
  BY <1>2, FS_Subset, FS_CardinalityType
<1>7. T \subseteq S \union {x} => Cardinality(T) <= Cardinality(S) + 1
  BY <1>1, <1>5
<1>8. x \in S /\ T \subseteq S \ {x} => Cardinality(T) + 1 <= Cardinality(S)
  BY <1>1, <1>2, <1>3, <1>6
<1> QED
  BY <1>4, <1>5, <1>6, <1>7, <1>8

\* The fresh token is the one after those that are minted.
LEMMA FreshToken ==
  ASSUME NEW n \in Nat, MintedTo(n), n < MaxCalls
  PROVE  Web!Fresh = n + 1 /\ n + 1 \in Web!Token /\ row[n + 1] = "none"
<1>1. n + 1 \in Web!Token
  BY WebBounds
<1>2. \A t \in Web!Token : t \in Int
  BY WebBounds
<1>3. row[n + 1] = "none" /\ \A s \in Web!Token : s < n + 1 => row[s] # "none"
  BY <1>1, <1>2 DEF MintedTo
<1>4. ASSUME NEW t \in Web!Token, row[t] = "none", \A s \in Web!Token : s < t => row[s] # "none"
      PROVE  t = n + 1
  <2>1. t \in Int /\ t > n /\ ~(n + 1 < t)
    BY <1>1, <1>2, <1>3, <1>4 DEF MintedTo
  <2> QED
    BY <2>1
<1> QED
  BY <1>1, <1>3, <1>4 DEF Web!Fresh


\* At first no call is made.
LEMMA InitWebInv == Web!Init => WebInv
<1> SUFFICES ASSUME Web!Init PROVE WebInv
  OBVIOUS
<1>1. /\ row = [t \in Web!Token |-> "none"] /\ family = [t \in Web!Token |-> Web!NoToken]
      /\ cookie = Web!NoToken /\ session = [b \in Tab |-> Web!NoAccess]
      /\ refresh = [b \in Tab |-> Web!NoRefresh] /\ request = [i \in Slots |-> Web!Settled]
      /\ calls = 0 /\ webFaults = MaxLost /\ executed = [i \in Slots |-> 0]
      /\ reused = FALSE /\ crossed = FALSE /\ futile = FALSE
  BY DEF Web!Init, Slots
<1>2. Web!TypeOK
  <2>1. Web!NoAccess \in Web!Access
    BY DEF Web!NoAccess, Web!Access
  <2>2. 0 \in 0 .. MaxCalls /\ MaxLost \in 0 .. MaxLost
    BY WebBounds
  <2>3. /\ Web!NoRefresh \in Refreshes /\ Web!Settled \in Requests
        /\ Web!Settled.pc = "idle"
    BY <2>1 DEF Web!NoRefresh, Web!Settled, Refreshes, Requests
  <2> QED
    BY <1>1, <2>1, <2>2, <2>3 DEF Web!TypeOK, Refreshes, Requests, Slots
<1>3. Untried /\ Unanswered
  BY <1>1 DEF Untried, Unanswered, Web!Settled, Web!NoRefresh
<1>4. PaidFor
  <2>1. Refreshing = {} /\ Owing = {}
    BY <1>1 DEF Refreshing, Owing, Web!NoRefresh, Web!Settled
  <2>2. MintedTo(0)
    BY <1>1, WebBounds DEF MintedTo
  <2>3. Cardinality({}) = 0
    BY FS_EmptySet
  <2> QED
    BY <1>1, <2>1, <2>2, <2>3 DEF PaidFor
<1>5. CalmInv
  BY <1>1 DEF CalmInv, Usable, Web!NoRefresh
<1> QED
  BY <1>2, <1>3, <1>4, <1>5 DEF WebInv

\* Sending a request, and what becomes of it: only an answer without a 401
\* executes it, and settles it.
LEMMA RequestKeepsWebInv ==
  ASSUME WebInv, NEW b \in Tab, NEW r \in Request,
         Web!Send(b, r) \/ Web!Answer(b, r) \/ Web!AnswerLost(b, r)
  PROVE  WebInv'
<1> DEFINE i == <<b, r>>
           q == request[i]
<1>1. /\ i \in Slots /\ Web!TypeOK /\ Untried /\ Unanswered /\ PaidFor /\ CalmInv
      /\ q \in Requests
  BY WebTypes DEF Slots, WebInv
<1> HIDE DEF i
<1>2. UNCHANGED <<row, family, cookie, session, refresh, reused, crossed>>
  BY DEF Web!Send, Web!Answer, Web!AnswerLost, Web!server
<1>3. PICK p \in Requests :
        /\ request' = [request EXCEPT ![i] = p]
        /\ p.pc \in {"idle", "sent", "refused"}
        /\ p.pc = "refused" => q.pc = "sent" /\ executed' = [executed EXCEPT ![i] = executed[i] + 0]
        /\ p.pc = "sent" => /\ q.pc = "idle" /\ calls < MaxCalls /\ calls' = calls + 1
                            /\ executed' = [executed EXCEPT ![i] = 0]
        /\ p.pc = "idle" => /\ q.pc # "idle"
                            /\ \/ executed' = [executed EXCEPT ![i] = executed[i] + 0]
                               \/ executed' = [executed EXCEPT ![i] = executed[i] + 1]
                               \/ executed' = executed
        /\ p.pc # "sent" => calls' = calls
        /\ webFaults' = webFaults \/ (webFaults > 0 /\ webFaults' = webFaults - 1)
        /\ futile' \in BOOLEAN
  <2>1. CASE Web!Send(b, r)
    <3>1. PICK route \in {"global", "tenant"} :
            request' = [request EXCEPT ![<<b, r>>] = [pc |-> "sent", access |-> session[b], route |-> route]]
      BY <2>1 DEF Web!Send
    <3>2. session[b] \in Web!Access /\ futile \in BOOLEAN
      BY <1>1, WebTypes
    <3>3. [pc |-> "sent", access |-> session[b], route |-> route] \in Requests
      BY <3>2 DEF Requests
    <3> QED
      BY <2>1, <3>1, <3>2, <3>3 DEF Web!Send, Web!Call, i
  <2>2. CASE Web!Answer(b, r)
    <3> DEFINE p == IF ~Web!Authorized(q) /\ q.pc = "sent" THEN [q EXCEPT !.pc = "refused"] ELSE Web!Settled
    <3>1. /\ q.pc \in {"sent", "retried"} /\ request' = [request EXCEPT ![i] = p]
          /\ executed' = [executed EXCEPT ![i] = executed[i] + (IF Web!Authorized(q) THEN 1 ELSE 0)]
          /\ UNCHANGED <<calls, webFaults>>
      BY <2>2 DEF Web!Answer, i
    <3>2. Web!Settled \in Requests /\ Web!Settled.pc = "idle"
      BY DEF Web!Settled, Requests, Web!NoAccess, Web!Access
    <3>3. [q EXCEPT !.pc = "refused"] \in Requests /\ [q EXCEPT !.pc = "refused"].pc = "refused"
      BY <1>1 DEF Requests
    <3>4. futile' \in BOOLEAN
      <4>1. futile' = (futile \/ (q.pc = "retried" /\ q.access.valid /\ ~Web!Authorized(q)))
        BY <2>2 DEF Web!Answer, i
      <4> HIDE DEF q
      <4> QED
        BY <4>1
    <3>5. CASE ~Web!Authorized(q) /\ q.pc = "sent"
      <4>1. p = [q EXCEPT !.pc = "refused"]
        BY <3>5
      <4> HIDE DEF p, q
      <4> QED
        BY <3>1, <3>3, <3>4, <3>5, <4>1
    <3>6. CASE ~(~Web!Authorized(q) /\ q.pc = "sent")
      <4>1. p = Web!Settled
        BY <3>6
      <4> HIDE DEF p, q
      <4> QED
        BY <3>1, <3>2, <3>4, <4>1
    <3> QED
      BY <3>5, <3>6
  <2>3. CASE Web!AnswerLost(b, r)
    <3>1. Web!Settled \in Requests /\ Web!Settled.pc = "idle"
      BY DEF Web!Settled, Requests, Web!NoAccess, Web!Access
    <3>2. /\ q.pc \in {"sent", "retried"} /\ request' = [request EXCEPT ![i] = Web!Settled]
          /\ \/ executed' = [executed EXCEPT ![i] = executed[i] + (IF Web!Authorized(q) THEN 1 ELSE 0)]
             \/ executed' = executed
          /\ webFaults > 0 /\ webFaults' = webFaults - 1 /\ calls' = calls /\ futile' = futile
      BY <2>3 DEF Web!AnswerLost, Web!Fault, Web!Lost, i
    <3>3. futile \in BOOLEAN
      BY <1>1, WebTypes
    <3> HIDE DEF q
    <3> QED
      BY <3>1, <3>2, <3>3
  <2> QED
    BY <2>1, <2>2, <2>3
<1> HIDE DEF q
<1>4. request \in [Slots -> Requests] /\ executed \in [Slots -> Nat] /\ q = request[i]
  BY <1>1, WebTypes DEF q
<1>5. /\ request' \in [Slots -> Requests] /\ \A j \in Slots : request'[j] = IF j = i THEN p ELSE request[j]
  BY <1>1, <1>3, <1>4
<1>6. /\ calls' \in Nat /\ calls' <= MaxCalls /\ calls <= calls'
      /\ webFaults' \in Nat /\ webFaults' <= MaxLost /\ webFaults' <= webFaults
  BY <1>1, <1>3, WebTypes, WebBounds
<1>7. executed' \in [Slots -> Nat] /\ Untried'
  <2>1. executed[i] \in Nat /\ executed[i] <= 1 /\ (q.pc # "idle" => executed[i] = 0)
    BY <1>1, <1>4 DEF Untried
  <2>2. PICK e \in Nat : /\ executed' = [executed EXCEPT ![i] = e] /\ e <= 1
                         /\ p.pc # "idle" => e = 0
    <3>1. p.pc # "idle" => executed' = [executed EXCEPT ![i] = 0]
      BY <1>3, <2>1
    <3>2. p.pc = "idle" => executed' = [executed EXCEPT ![i] = 0] \/ executed' = [executed EXCEPT ![i] = 1]
      <4>1. [executed EXCEPT ![i] = executed[i]] = executed
        BY <1>1, <1>4
      <4> QED
        BY <1>3, <2>1, <4>1
    <3> QED
      BY <3>1, <3>2
  <2>3. executed' \in [Slots -> Nat] /\ \A j \in Slots : executed'[j] = IF j = i THEN e ELSE executed[j]
    BY <1>1, <1>4, <2>2
  <2> QED
    BY <1>1, <1>5, <2>2, <2>3 DEF Untried
<1>8. Web!TypeOK'
  <2>1. \A j \in Slots : request'[j].pc = "waiting" => refresh'[j[1]].pc # "none"
    BY <1>1, <1>2, <1>3, <1>5, WebTypes
  <2>2. /\ row' \in [Web!Token -> {"none", "active", "revoked"}]
        /\ family' \in [Web!Token -> {Web!NoToken} \union Web!Token]
        /\ cookie' \in {Web!NoToken} \union Web!Token
        /\ session' \in [Tab -> Web!Access]
        /\ refresh' \in [Tab -> Refreshes]
        /\ reused' \in BOOLEAN /\ crossed' \in BOOLEAN
    BY <1>1, <1>2, WebTypes
  <2> QED
    BY <1>3, <1>5, <1>6, <1>7, <2>1, <2>2, WebTypesHold
<1>9. Unanswered'
  BY <1>1, <1>2 DEF Unanswered
<1>10. PaidFor'
  <2>1. PICK n \in Nat : MintedTo(n) /\ n + Cardinality(Refreshing) + Cardinality(Owing) <= calls
    BY <1>1 DEF PaidFor
  <2>2. MintedTo(n)' /\ Refreshing' = Refreshing
    BY <1>2, <2>1 DEF MintedTo, Refreshing
  <2>3. /\ Owing' \subseteq Owing \union {i}
        /\ p.pc # "sent" => Owing' \subseteq Owing
    <3>1. \A j \in Slots : j \in Owing' <=> request'[j].pc \in {"sent", "refused"}
      BY DEF Owing
    <3>2. \A j \in Slots : j \in Owing <=> request[j].pc \in {"sent", "refused"}
      BY DEF Owing
    <3>3. Owing' \subseteq Slots
      BY DEF Owing
    <3> QED
      BY <1>1, <1>3, <1>4, <1>5, <3>1, <3>2, <3>3
  <2>4. Cardinality(Owing') \in Nat
    BY <2>3, Counts, Counted
  <2>5. CASE p.pc = "sent"
    <3>1. Cardinality(Owing') <= Cardinality(Owing) + 1
      BY <2>3, Counts, Counted
    <3>2. calls' = calls + 1
      BY <1>3, <2>5
    <3> QED
      BY <1>1, <2>1, <2>2, <2>4, <3>1, <3>2, Counts, WebTypes DEF PaidFor
  <2>6. CASE p.pc # "sent"
    <3>1. Cardinality(Owing') <= Cardinality(Owing)
      BY <2>3, <2>6, Counts, Counted
    <3>2. calls' = calls
      BY <1>3, <2>6
    <3> QED
      BY <1>1, <2>1, <2>2, <2>4, <3>1, <3>2, Counts, WebTypes DEF PaidFor
  <2> QED
    BY <2>5, <2>6
<1>11. CalmInv'
  <2>1. Calm' => Calm
    BY <1>1, <1>2, <1>6, WebTypes DEF Calm
  <2> QED
    BY <1>1, <1>2, <2>1 DEF CalmInv, Usable
<1> QED
  BY <1>7, <1>8, <1>9, <1>10, <1>11 DEF WebInv


\* The login form: the next token, of a family of its own.
LEMMA LoginKeepsWebInv ==
  ASSUME WebInv, NEW b \in Tab, Web!Login(b)
  PROVE  WebInv'
<1>1. /\ Web!TypeOK /\ Untried /\ Unanswered /\ PaidFor /\ CalmInv
  BY DEF WebInv
<1>2. PICK n \in Nat : MintedTo(n) /\ n + Cardinality(Refreshing) + Cardinality(Owing) <= calls
  BY <1>1 DEF PaidFor
<1>3. calls < MaxCalls /\ calls' = calls + 1
  BY DEF Web!Login, Web!Call
<1>4. n < MaxCalls
  BY <1>1, <1>2, <1>3, Counts, WebTypes, WebBounds
<1>5. Web!Fresh = n + 1 /\ n + 1 \in Web!Token /\ row[n + 1] = "none"
  BY <1>2, <1>4, FreshToken
<1>6. /\ row' = [row EXCEPT ![n + 1] = "active"] /\ family' = [family EXCEPT ![n + 1] = n + 1]
      /\ cookie' = n + 1
      /\ session' = [session EXCEPT ![b] = [present |-> TRUE, valid |-> TRUE, tenant |-> TRUE]]
      /\ UNCHANGED <<refresh, request, webFaults, executed, reused, crossed, futile>>
  BY <1>5 DEF Web!Login, Web!history
<1>7. [present |-> TRUE, valid |-> TRUE, tenant |-> TRUE] \in Web!Access
  BY DEF Web!Access
<1>8. Web!TypeOK'
  <2>1. /\ row' \in [Web!Token -> {"none", "active", "revoked"}]
        /\ family' \in [Web!Token -> {Web!NoToken} \union Web!Token]
        /\ session' \in [Tab -> Web!Access]
    BY <1>1, <1>5, <1>6, <1>7, WebTypes
  <2>2. calls' \in Nat /\ calls' <= MaxCalls
    BY <1>1, <1>3, WebTypes, WebBounds
  <2> QED
    BY <1>1, <1>5, <1>6, <2>1, <2>2, WebTypes, WebTypesHold
<1>9. Untried' /\ Unanswered'
  BY <1>1, <1>6 DEF Untried, Unanswered
<1>10. PaidFor'
  <2>1. Refreshing' = Refreshing /\ Owing' = Owing
    BY <1>6 DEF Refreshing, Owing
  <2>2. MintedTo(n + 1)'
    <3>1. \A t \in Web!Token : row'[t] = IF t = n + 1 THEN "active" ELSE row[t]
      BY <1>1, <1>5, <1>6, WebTypes
    <3>2. \A t \in Web!Token : t \in Int
      BY WebBounds
    <3> QED
      BY <1>2, <3>1, <3>2 DEF MintedTo
  <2>3. n + 1 + Cardinality(Refreshing) + Cardinality(Owing) <= calls'
    BY <1>1, <1>2, <1>3, Counts, WebTypes
  <2> QED
    BY <2>1, <2>2, <2>3 DEF PaidFor
<1>11. CalmInv'
  <2>1. Calm' <=> Calm
    BY <1>6 DEF Calm
  <2>2. \A t \in {Web!NoToken} \union Web!Token : Usable(t) => Usable(t)'
    BY <1>1, <1>5, <1>6, WebTypes DEF Usable
  <2>3. \A c \in Tab : refresh[c].token \in {Web!NoToken} \union Web!Token /\ refresh[c].next \in {Web!NoToken} \union Web!Token
    BY <1>1, WebTypes DEF Refreshes
  <2>4. Usable(cookie)'
    BY <1>1, <1>5, <1>6, WebTypes DEF Usable
  <2> QED
    BY <1>1, <1>6, <2>1, <2>2, <2>3, <2>4 DEF CalmInv
<1> QED
  BY <1>8, <1>9, <1>10, <1>11 DEF WebInv

\* A refresh begins, or the one in flight is joined: for a refused request, or
\* for a page without a session.
LEMMA RefreshKeepsWebInv ==
  ASSUME WebInv, NEW b \in Tab,
         Web!Restore(b) \/ \E r \in Request : Web!Refused(b, r)
  PROVE  WebInv'
<1>1. /\ Web!TypeOK /\ Untried /\ Unanswered /\ PaidFor /\ CalmInv
      /\ refresh \in [Tab -> Refreshes] /\ request \in [Slots -> Requests]
  BY WebTypes DEF WebInv
<1>2. /\ UNCHANGED <<row, family, cookie, session, webFaults, executed, reused, futile>>
      /\ refresh' = [refresh EXCEPT ![b] = Web!Run(b)]
      /\ crossed' = (crossed \/ \E c \in Tab \ {b} : refresh[c].pc # "none")
  BY DEF Web!Restore, Web!Refused, Web!Refresh, Web!server
<1>3. /\ Web!Run(b) \in Refreshes /\ Web!Run(b).pc # "none"
      /\ IF refresh[b].pc # "none" THEN Web!Run(b) = refresh[b]
         ELSE Web!Run(b).pc = "sent" /\ Web!Run(b).token = cookie /\ Web!Run(b).next = Web!NoToken
  <2>1. [pc |-> "sent", token |-> cookie, next |-> Web!NoToken] \in Refreshes
    BY <1>1, WebTypes DEF Refreshes
  <2> QED
    BY <1>1, <2>1 DEF Web!Run
<1> DEFINE run == Web!Run(b)
<1> HIDE DEF run
<1>4. /\ refresh' \in [Tab -> Refreshes]
      /\ \A c \in Tab : refresh'[c] = IF c = b THEN run ELSE refresh[c]
      /\ run.pc # "none"
      /\ IF refresh[b].pc # "none" THEN run = refresh[b]
         ELSE run.pc = "sent" /\ run.token = cookie /\ run.next = Web!NoToken
  BY <1>1, <1>2, <1>3 DEF run
<1>5. crossed' \in BOOLEAN /\ (~crossed' => ~crossed /\ \A c \in Tab : c # b => refresh[c].pc = "none")
  BY <1>1, <1>2, WebTypes
<1>6. \/ request' = request /\ calls < MaxCalls /\ calls' = calls + 1
      \/ \E i \in Slots : /\ i[1] = b /\ request[i].pc = "refused" /\ calls' = calls
                          /\ request' = [request EXCEPT ![i] = [request[i] EXCEPT !.pc = "waiting"]]
  <2>1. CASE Web!Restore(b)
    BY <2>1 DEF Web!Restore, Web!Call
  <2>2. ASSUME NEW r \in Request, Web!Refused(b, r)
        PROVE  \E i \in Slots : /\ i[1] = b /\ request[i].pc = "refused" /\ calls' = calls
                                /\ request' = [request EXCEPT ![i] = [request[i] EXCEPT !.pc = "waiting"]]
    <3>1. /\ request[<<b, r>>].pc = "refused" /\ calls' = calls
          /\ request' = [request EXCEPT ![<<b, r>>].pc = "waiting"]
      BY <2>2 DEF Web!Refused
    <3>2. <<b, r>> \in Slots /\ <<b, r>>[1] = b
      BY DEF Slots
    <3> QED
      BY <3>1, <3>2
  <2> QED
    BY <2>1, <2>2
<1>7. /\ request' \in [Slots -> Requests]
      /\ \A i \in Slots : /\ request'[i].pc \in {request[i].pc, "waiting"}
                          /\ request'[i].pc # request[i].pc => i[1] = b /\ request[i].pc = "refused"
  <2>1. CASE request' = request
    BY <1>1, <2>1
  <2>2. ASSUME NEW i \in Slots, i[1] = b, request[i].pc = "refused",
               request' = [request EXCEPT ![i] = [request[i] EXCEPT !.pc = "waiting"]]
        PROVE  /\ request' \in [Slots -> Requests]
               /\ \A j \in Slots : /\ request'[j].pc \in {request[j].pc, "waiting"}
                                   /\ request'[j].pc # request[j].pc => j[1] = b /\ request[j].pc = "refused"
    <3> DEFINE p == [request[i] EXCEPT !.pc = "waiting"]
    <3>1. request[i] \in Requests
      BY <1>1
    <3>2. p \in Requests /\ p.pc = "waiting"
      BY <3>1 DEF Requests
    <3> HIDE DEF p
    <3>3. request' = [request EXCEPT ![i] = p]
      BY <2>2 DEF p
    <3>4. request' \in [Slots -> Requests] /\ \A j \in Slots : request'[j] = IF j = i THEN p ELSE request[j]
      BY <1>1, <3>2, <3>3
    <3> QED
      BY <2>2, <3>2, <3>4
  <2> QED
    BY <1>6, <2>1, <2>2
<1>8. calls' \in Nat /\ calls' <= MaxCalls
  BY <1>1, <1>6, WebTypes, WebBounds
<1>9. Web!TypeOK'
  <2>1. \A i \in Slots : request'[i].pc = "waiting" => refresh'[i[1]].pc # "none"
    <3> SUFFICES ASSUME NEW i \in Slots, request'[i].pc = "waiting" PROVE refresh'[i[1]].pc # "none"
      OBVIOUS
    <3>1. i[1] \in Tab
      BY DEF Slots
    <3>2. CASE request[i].pc = "waiting"
      BY <1>1, <1>4, <3>1, <3>2, WebTypes
    <3>3. CASE request[i].pc # "waiting"
      BY <1>4, <1>7, <3>1, <3>3
    <3> QED
      BY <3>2, <3>3
  <2>2. /\ row' \in [Web!Token -> {"none", "active", "revoked"}]
        /\ family' \in [Web!Token -> {Web!NoToken} \union Web!Token]
        /\ cookie' \in {Web!NoToken} \union Web!Token
        /\ session' \in [Tab -> Web!Access]
        /\ webFaults' \in Nat /\ webFaults' <= MaxLost /\ executed' \in [Slots -> Nat]
        /\ reused' \in BOOLEAN /\ futile' \in BOOLEAN
    BY <1>1, <1>2, WebTypes
  <2> QED
    BY <1>4, <1>5, <1>7, <1>8, <2>1, <2>2, WebTypesHold
<1>10. Untried' /\ Unanswered'
  <2>1. \A i \in Slots : request'[i].pc # "idle" => request[i].pc # "idle"
    BY <1>7
  <2> QED
    BY <1>1, <1>2, <1>4, <2>1 DEF Untried, Unanswered
<1>11. PaidFor'
  <2>1. PICK n \in Nat : MintedTo(n) /\ n + Cardinality(Refreshing) + Cardinality(Owing) <= calls
    BY <1>1 DEF PaidFor
  <2>2. MintedTo(n)'
    BY <1>2, <2>1 DEF MintedTo
  <2>3. Refreshing' \subseteq Refreshing \union {b}
    BY <1>4 DEF Refreshing
  <2>4. Cardinality(Refreshing') \in Nat /\ Cardinality(Refreshing') <= Cardinality(Refreshing) + 1
    BY <2>3, Counts, Counted
  <2>5. CASE request' = request /\ calls' = calls + 1
    <3>1. Owing' = Owing
      BY <2>5 DEF Owing
    <3> QED
      BY <1>1, <2>1, <2>2, <2>4, <2>5, <3>1, Counts, WebTypes DEF PaidFor
  <2>6. ASSUME NEW i \in Slots, request[i].pc = "refused", calls' = calls,
               request' = [request EXCEPT ![i] = [request[i] EXCEPT !.pc = "waiting"]]
        PROVE  PaidFor'
    <3>1. request[i] \in Requests /\ request'[i].pc = "waiting"
      BY <1>1, <2>6 DEF Requests
    <3>2. i \in Owing /\ Owing' \subseteq Owing \ {i}
      <4>1. \A j \in Slots : request'[j].pc \in {"sent", "refused"} => j # i /\ request'[j].pc = request[j].pc
        BY <1>7, <3>1
      <4> QED
        BY <2>6, <4>1 DEF Owing
    <3>3. Cardinality(Owing') \in Nat /\ Cardinality(Owing') + 1 <= Cardinality(Owing)
      BY <3>2, Counts, Counted
    <3> QED
      BY <1>1, <2>1, <2>2, <2>4, <2>6, <3>3, Counts, WebTypes DEF PaidFor
  <2> QED
    BY <1>6, <2>5, <2>6
<1>12. CalmInv'
  <2>1. Calm' => Calm /\ \A c \in Tab : c # b => refresh[c].pc = "none"
    BY <1>2, <1>5 DEF Calm
  <2>2. \A t : Usable(t)' <=> Usable(t)
    BY <1>2 DEF Usable
  <2> SUFFICES ASSUME Calm'
               PROVE  /\ \A c, d \in Tab : refresh'[c].pc # "none" /\ refresh'[d].pc # "none" => c = d
                      /\ \A c \in Tab : refresh'[c].pc = "sent" => Usable(refresh'[c].token)
                      /\ \A c \in Tab : refresh'[c].pc = "answered" => Usable(refresh'[c].next)
                      /\ (\A c \in Tab : refresh'[c].pc = "answered" => refresh'[c].next = Web!NoToken)
                            => Usable(cookie)
    BY <1>1, <1>2, <2>1, <2>2 DEF CalmInv
  <2>3. \A c, d \in Tab : refresh'[c].pc # "none" /\ refresh'[d].pc # "none" => c = d
    BY <1>4, <2>1
  <2>4. CASE refresh[b].pc # "none"
    <3>1. \A c \in Tab : refresh'[c] = refresh[c]
      BY <1>4, <2>4
    <3> QED
      BY <1>1, <2>1, <2>3, <3>1 DEF CalmInv
  <2>5. CASE refresh[b].pc = "none"
    <3>1. \A c \in Tab : refresh[c].pc = "none"
      BY <2>1, <2>5
    <3>2. Usable(cookie)
      BY <1>1, <2>1, <3>1 DEF CalmInv
    <3>3. \A c \in Tab : IF c = b THEN refresh'[c].pc = "sent" /\ refresh'[c].token = cookie
                         ELSE refresh'[c].pc = "none"
      BY <1>4, <2>5, <3>1
    <3> QED
      BY <2>3, <3>2, <3>3
  <2> QED
    BY <2>4, <2>5
<1> QED
  BY <1>9, <1>10, <1>11, <1>12 DEF WebInv

\* An access token expires.
LEMMA ExpireKeepsWebInv ==
  ASSUME WebInv, NEW b \in Tab, Web!Expire(b)
  PROVE  WebInv'
<1>1. Web!TypeOK /\ session \in [Tab -> Web!Access]
  BY WebTypes DEF WebInv
<1>2. /\ session' = [session EXCEPT ![b].valid = FALSE]
      /\ UNCHANGED <<row, family, cookie, refresh, request, calls, webFaults, executed, reused, crossed, futile>>
  BY DEF Web!Expire, Web!server, Web!history
<1>3. session' \in [Tab -> Web!Access]
  BY <1>1, <1>2 DEF Web!Access
<1>4. Web!TypeOK'
  BY <1>1, <1>2, <1>3, WebTypes, WebTypesHold
<1> QED
  BY <1>2, <1>4 DEF WebInv, Untried, Unanswered, PaidFor, MintedTo, Refreshing, Owing, CalmInv, Calm, Usable


\* The server rotates an active token, or takes a rotated one for stolen.
LEMMA RotateKeepsWebInv ==
  ASSUME WebInv, NEW b \in Tab, Web!Rotate(b)
  PROVE  WebInv'
<1> DEFINE t == refresh[b].token
           nxt == IF t # Web!NoToken /\ row[t] = "active" THEN Web!Fresh ELSE Web!NoToken
<1>1. /\ Web!TypeOK /\ Untried /\ Unanswered /\ PaidFor /\ CalmInv
      /\ refresh \in [Tab -> Refreshes]
      /\ row \in [Web!Token -> {"none", "active", "revoked"}]
      /\ family \in [Web!Token -> {Web!NoToken} \union Web!Token]
  BY WebTypes DEF WebInv
<1>2. /\ refresh[b].pc = "sent" /\ refresh[b].next = Web!NoToken
      /\ refresh[b] \in Refreshes /\ t \in {Web!NoToken} \union Web!Token
      /\ UNCHANGED <<cookie, session, request, calls, webFaults, executed, crossed, futile>>
  BY <1>1 DEF Web!Rotate, Unanswered, Refreshes
<1>3. PICK n \in Nat : MintedTo(n) /\ n + Cardinality(Refreshing) + Cardinality(Owing) <= calls
  BY <1>1 DEF PaidFor
<1>4. b \in Refreshing /\ Refreshing' \subseteq Refreshing
  BY <1>1, <1>2 DEF Refreshing, Web!Rotate
<1>5. n < MaxCalls
  <2>1. Cardinality({}) = 0 /\ 1 <= Cardinality(Refreshing)
    <3>1. {} \subseteq Refreshing \ {b} /\ Cardinality({}) = 0
      BY FS_EmptySet
    <3> QED
      BY <1>4, <3>1, Counts, Counted
  <2> QED
    BY <1>1, <1>3, <2>1, Counts, WebTypes, WebBounds
<1>6. Web!Fresh = n + 1 /\ n + 1 \in Web!Token /\ row[n + 1] = "none"
  BY <1>3, <1>5, FreshToken
<1>7. /\ nxt \in {Web!NoToken} \union Web!Token
      /\ refresh' = [refresh EXCEPT ![b] = [refresh[b] EXCEPT !.pc = "answered", !.next = nxt]]
  <2>1. CASE t # Web!NoToken /\ row[t] = "active"
    BY <1>6, <2>1 DEF Web!Rotate
  <2>2. CASE ~(t # Web!NoToken /\ row[t] = "active")
    <3>1. refresh' = [refresh EXCEPT ![b] = [refresh[b] EXCEPT !.pc = "answered"]] /\ nxt = Web!NoToken
      BY <2>2 DEF Web!Rotate
    <3>2. [refresh[b] EXCEPT !.pc = "answered"] = [refresh[b] EXCEPT !.pc = "answered", !.next = Web!NoToken]
      BY <1>2 DEF Refreshes
    <3> QED
      BY <3>1, <3>2
  <2> QED
    BY <2>1, <2>2
<1>8. /\ refresh' \in [Tab -> Refreshes]
      /\ \A c \in Tab : c # b => refresh'[c] = refresh[c]
      /\ refresh'[b].pc = "answered" /\ refresh'[b].next = nxt /\ refresh'[b].token = t
  <2> DEFINE a == [refresh[b] EXCEPT !.pc = "answered", !.next = nxt]
  <2>1. a \in Refreshes /\ a.pc = "answered" /\ a.next = nxt /\ a.token = refresh[b].token
    BY <1>2, <1>7 DEF Refreshes
  <2>2. refresh' = [refresh EXCEPT ![b] = a]
    BY <1>7
  <2> HIDE DEF a, nxt
  <2> QED
    BY <1>1, <2>1, <2>2
<1>9. \/ /\ t # Web!NoToken /\ row[t] = "active" /\ nxt = n + 1 /\ t # n + 1
         /\ row' = [row EXCEPT ![t] = "revoked", ![n + 1] = "active"]
         /\ family' = [family EXCEPT ![n + 1] = family[t]]
         /\ reused' = reused
      \/ /\ ~(t # Web!NoToken /\ row[t] = "active") /\ nxt = Web!NoToken
         /\ row' = [s \in Web!Token |-> IF t # Web!NoToken /\ row[s] = "active" /\ family[s] = family[t]
                                        THEN "revoked" ELSE row[s]]
         /\ family' = family
         /\ reused' = (reused \/ t # Web!NoToken)
  BY <1>6 DEF Web!Rotate
<1> HIDE DEF nxt
<1>10. PICK m \in {n, n + 1} :
         /\ MintedTo(m)'
         /\ row' \in [Web!Token -> {"none", "active", "revoked"}]
         /\ family' \in [Web!Token -> {Web!NoToken} \union Web!Token]
         /\ reused' \in BOOLEAN
  <2>1. CASE /\ t # Web!NoToken /\ row[t] = "active" /\ nxt = n + 1 /\ t # n + 1
             /\ row' = [row EXCEPT ![t] = "revoked", ![n + 1] = "active"]
             /\ family' = [family EXCEPT ![n + 1] = family[t]]
             /\ reused' = reused
    <3>1. t \in Web!Token
      BY <1>2, <2>1
    <3>2. /\ row' \in [Web!Token -> {"none", "active", "revoked"}]
          /\ \A s \in Web!Token : row'[s] = IF s = n + 1 THEN "active" ELSE IF s = t THEN "revoked" ELSE row[s]
      BY <1>1, <1>6, <2>1, <3>1
    <3>3. family' \in [Web!Token -> {Web!NoToken} \union Web!Token]
      BY <1>1, <1>6, <2>1, <3>1
    <3>4. \A s \in Web!Token : s \in Int
      BY WebBounds
    <3>5. MintedTo(n + 1)'
      BY <1>3, <1>6, <2>1, <3>1, <3>2, <3>4 DEF MintedTo
    <3> QED
      BY <1>1, <2>1, <3>2, <3>3, <3>5, WebTypes
  <2>2. CASE /\ ~(t # Web!NoToken /\ row[t] = "active") /\ nxt = Web!NoToken
             /\ row' = [s \in Web!Token |-> IF t # Web!NoToken /\ row[s] = "active" /\ family[s] = family[t]
                                            THEN "revoked" ELSE row[s]]
             /\ family' = family
             /\ reused' = (reused \/ t # Web!NoToken)
    <3>1. /\ row' \in [Web!Token -> {"none", "active", "revoked"}]
          /\ \A s \in Web!Token : row'[s] = "none" <=> row[s] = "none"
      BY <1>1, <2>2
    <3>2. MintedTo(n)'
      BY <1>3, <3>1 DEF MintedTo
    <3> QED
      BY <1>1, <2>2, <3>1, <3>2
  <2> QED
    BY <1>9, <2>1, <2>2
<1>11. Web!TypeOK'
  <2>1. \A i \in Slots : request'[i].pc = "waiting" => refresh'[i[1]].pc # "none"
    BY <1>1, <1>2, <1>8, WebTypes DEF Slots
  <2>2. /\ cookie' \in {Web!NoToken} \union Web!Token /\ session' \in [Tab -> Web!Access]
        /\ request' \in [Slots -> Requests] /\ executed' \in [Slots -> Nat]
        /\ calls' \in Nat /\ calls' <= MaxCalls /\ webFaults' \in Nat /\ webFaults' <= MaxLost
        /\ crossed' \in BOOLEAN /\ futile' \in BOOLEAN
    BY <1>1, <1>2, WebTypes
  <2> QED
    BY <1>8, <1>10, <2>1, <2>2, WebTypesHold
<1>12. Untried' /\ Unanswered'
  BY <1>1, <1>2, <1>8 DEF Untried, Unanswered
<1>13. PaidFor'
  <2>1. Refreshing' \subseteq Refreshing \ {b}
    BY <1>4, <1>8 DEF Refreshing
  <2>2. Cardinality(Refreshing') \in Nat /\ Cardinality(Refreshing') + 1 <= Cardinality(Refreshing)
    BY <1>4, <2>1, Counts, Counted
  <2>3. Owing' = Owing /\ calls' = calls
    BY <1>2 DEF Owing
  <2>4. m \in Nat /\ m <= n + 1
    OBVIOUS
  <2>5. m + Cardinality(Refreshing') + Cardinality(Owing) <= calls
    BY <1>1, <1>3, <2>2, <2>4, Counts, WebTypes
  <2> QED
    BY <1>10, <2>3, <2>4, <2>5 DEF PaidFor
<1>14. CalmInv'
  <2> DEFINE Then(x) == x = Web!NoToken \/ row'[x] = "active"
  <2> SUFFICES ASSUME Calm'
               PROVE  /\ ~reused'
                      /\ \A c, d \in Tab : refresh'[c].pc # "none" /\ refresh'[d].pc # "none" => c = d
                      /\ \A c \in Tab : refresh'[c].pc = "sent" => Then(refresh'[c].token)
                      /\ \A c \in Tab : refresh'[c].pc = "answered" => Then(refresh'[c].next)
                      /\ (\A c \in Tab : refresh'[c].pc = "answered" => refresh'[c].next = Web!NoToken)
                            => Then(cookie')
    BY DEF CalmInv, Usable
  <2>1. Calm
    BY <1>2 DEF Calm
  <2>2. /\ ~reused /\ Usable(t)
        /\ \A c \in Tab : c # b => refresh[c].pc = "none" /\ refresh'[c].pc = "none"
    BY <1>1, <1>2, <1>8, <2>1 DEF CalmInv
  <2>3. Usable(cookie)
    BY <1>1, <1>2, <2>1, <2>2 DEF CalmInv
  <2>4. CASE /\ t # Web!NoToken /\ row[t] = "active" /\ nxt = n + 1 /\ t # n + 1
             /\ row' = [row EXCEPT ![t] = "revoked", ![n + 1] = "active"]
             /\ reused' = reused
    <3>1. row'[n + 1] = "active"
      BY <1>1, <1>6, <2>4
    <3>2. Then(nxt) /\ nxt # Web!NoToken
      <4>1. n + 1 # Web!NoToken
        BY <1>6, WebBounds
      <4> QED
        BY <1>8, <2>4, <3>1, <4>1 DEF Usable, Web!NoToken
    <3> QED
      BY <1>8, <2>2, <2>4, <3>2
  <2>5. CASE /\ ~(t # Web!NoToken /\ row[t] = "active") /\ nxt = Web!NoToken
             /\ row' = [s \in Web!Token |-> IF t # Web!NoToken /\ row[s] = "active" /\ family[s] = family[t]
                                            THEN "revoked" ELSE row[s]]
             /\ reused' = (reused \/ t # Web!NoToken)
    <3>1. t = Web!NoToken
      BY <2>2, <2>5 DEF Usable
    <3>2. \A s \in Web!Token : row'[s] = row[s]
      BY <1>1, <2>5, <3>1
    <3>3. cookie \in {Web!NoToken} \union Web!Token /\ cookie' = cookie
      BY <1>1, <1>2, WebTypes
    <3>4. Then(cookie')
      BY <2>3, <3>2, <3>3 DEF Usable, Web!NoToken
    <3>5. Then(Web!NoToken)
      BY DEF Usable, Web!NoToken
    <3>6. ~reused'
      BY <2>2, <2>5, <3>1
    <3> QED
      BY <1>8, <2>2, <2>5, <3>4, <3>5, <3>6
  <2> QED
    BY <1>9, <2>4, <2>5
<1> QED
  BY <1>11, <1>12, <1>13, <1>14 DEF WebInv

\* What the tab makes of a refresh: the cookie is the new token, the requests that
\* waited are sent once more or fail.
LEMMA OutcomeKeepsWebInv ==
  ASSUME WebInv, NEW b \in Tab, Web!RefreshAnswered(b) \/ Web!RefreshLost(b)
  PROVE  WebInv'
<1>1. /\ Web!TypeOK /\ Untried /\ Unanswered /\ PaidFor /\ CalmInv
      /\ refresh \in [Tab -> Refreshes] /\ request \in [Slots -> Requests]
      /\ session \in [Tab -> Web!Access]
  BY WebTypes DEF WebInv
<1>2. PICK access \in Web!Access : Web!Outcome(b, access)
  <2>1. Web!NoAccess \in Web!Access /\ [present |-> TRUE, valid |-> TRUE, tenant |-> FALSE] \in Web!Access
    BY DEF Web!NoAccess, Web!Access
  <2> QED
    BY <2>1 DEF Web!RefreshAnswered, Web!RefreshLost
<1>3. /\ session' = [session EXCEPT ![b] = access]
      /\ request' = [i \in Slots |->
            IF i[1] # b \/ request[i].pc # "waiting" THEN request[i]
            ELSE IF access.present THEN [request[i] EXCEPT !.pc = "retried", !.access = access]
            ELSE Web!Settled]
      /\ refresh' = [refresh EXCEPT ![b] = Web!NoRefresh]
  BY <1>2 DEF Web!Outcome, Slots
<1>4. UNCHANGED <<row, family, calls, executed, reused, crossed, futile>>
  BY DEF Web!RefreshAnswered, Web!RefreshLost, Web!server, Web!history
<1>5. Web!NoRefresh \in Refreshes /\ Web!NoRefresh.pc = "none"
  BY DEF Web!NoRefresh, Refreshes
<1>6. /\ refresh' \in [Tab -> Refreshes] /\ session' \in [Tab -> Web!Access]
      /\ \A c \in Tab : IF c = b THEN refresh'[c].pc = "none" ELSE refresh'[c] = refresh[c]
  <2> DEFINE none == Web!NoRefresh
  <2>1. none \in Refreshes /\ none.pc = "none" /\ refresh' = [refresh EXCEPT ![b] = none]
    BY <1>3, <1>5
  <2> HIDE DEF none
  <2> QED
    BY <1>1, <1>3, <2>1
<1>7. /\ request' \in [Slots -> Requests]
      /\ \A i \in Slots : /\ i[1] = b => request'[i].pc # "waiting"
                          /\ request'[i] = request[i]
                             \/ (request[i].pc = "waiting" /\ request'[i].pc \in {"retried", "idle"})
  <2>1. \A i \in Slots :
          /\ request'[i] \in Requests
          /\ i[1] = b => request'[i].pc # "waiting"
          /\ \/ request'[i] = request[i]
             \/ (request[i].pc = "waiting" /\ request'[i].pc \in {"retried", "idle"})
    <3> SUFFICES ASSUME NEW i \in Slots
                 PROVE  /\ request'[i] \in Requests
                        /\ i[1] = b => request'[i].pc # "waiting"
                        /\ \/ request'[i] = request[i]
                           \/ (request[i].pc = "waiting" /\ request'[i].pc \in {"retried", "idle"})
      OBVIOUS
    <3> DEFINE p == request[i]
               again == [request[i] EXCEPT !.pc = "retried", !.access = access]
    <3>1. p \in Requests
      BY <1>1
    <3>2. again \in Requests /\ again.pc = "retried"
      BY <3>1 DEF Requests
    <3>3. Web!Settled \in Requests /\ Web!Settled.pc = "idle"
      BY DEF Web!Settled, Requests, Web!NoAccess, Web!Access
    <3>4. request'[i] = IF i[1] # b \/ request[i].pc # "waiting" THEN request[i]
                        ELSE IF access.present THEN again ELSE Web!Settled
      BY <1>3
    <3> HIDE DEF again
    <3> QED
      BY <3>1, <3>2, <3>3, <3>4
  <2>2. request' = [i \in Slots |-> request'[i]]
    BY <1>3
  <2> QED
    BY <2>1, <2>2
<1>8. /\ webFaults' \in Nat /\ webFaults' <= MaxLost
      /\ \/ webFaults' = webFaults /\ Web!RefreshAnswered(b)
         \/ webFaults' = webFaults - 1
  <2>1. \/ webFaults' = webFaults /\ Web!RefreshAnswered(b)
        \/ webFaults > 0 /\ webFaults' = webFaults - 1
    BY DEF Web!RefreshAnswered, Web!RefreshLost, Web!Fault
  <2> QED
    BY <1>1, <2>1, WebTypes, WebBounds
<1>9. Web!TypeOK'
  <2>1. \A i \in Slots : request'[i].pc = "waiting" => refresh'[i[1]].pc # "none"
    <3> SUFFICES ASSUME NEW i \in Slots, request'[i].pc = "waiting" PROVE refresh'[i[1]].pc # "none"
      OBVIOUS
    <3>1. i[1] \in Tab /\ i[1] # b /\ request[i].pc = "waiting"
      BY <1>7 DEF Slots
    <3> QED
      BY <1>1, <1>6, <3>1, WebTypes
  <2>2. cookie' \in {Web!NoToken} \union Web!Token
    BY <1>1, WebTypes DEF Web!RefreshAnswered, Web!RefreshLost, Refreshes
  <2>3. /\ row' \in [Web!Token -> {"none", "active", "revoked"}]
        /\ family' \in [Web!Token -> {Web!NoToken} \union Web!Token]
        /\ calls' \in Nat /\ calls' <= MaxCalls /\ executed' \in [Slots -> Nat]
        /\ reused' \in BOOLEAN /\ crossed' \in BOOLEAN /\ futile' \in BOOLEAN
    BY <1>1, <1>4, WebTypes
  <2> QED
    BY <1>6, <1>7, <1>8, <2>1, <2>2, <2>3, WebTypesHold
<1>10. Untried' /\ Unanswered'
  <2>1. \A i \in Slots : request'[i].pc # "idle" => request[i].pc # "idle"
    BY <1>7
  <2> QED
    BY <1>1, <1>4, <1>6, <2>1 DEF Untried, Unanswered
<1>11. PaidFor'
  <2>1. PICK n \in Nat : MintedTo(n) /\ n + Cardinality(Refreshing) + Cardinality(Owing) <= calls
    BY <1>1 DEF PaidFor
  <2>2. MintedTo(n)'
    BY <1>4, <2>1 DEF MintedTo
  <2>3. Refreshing' \subseteq Refreshing
    BY <1>6 DEF Refreshing
  <2>4. Owing' \subseteq Owing
    BY <1>7 DEF Owing
  <2>5. /\ Cardinality(Refreshing') \in Nat /\ Cardinality(Refreshing') <= Cardinality(Refreshing)
        /\ Cardinality(Owing') \in Nat /\ Cardinality(Owing') <= Cardinality(Owing)
    BY <2>3, <2>4, Counts, Counted
  <2>6. n + Cardinality(Refreshing') + Cardinality(Owing') <= calls'
    BY <1>1, <1>4, <2>1, <2>5, Counts, WebTypes
  <2> QED
    BY <2>2, <2>6 DEF PaidFor
<1>12. CalmInv'
  <2> SUFFICES ASSUME Calm' PROVE CalmInv'
    BY DEF CalmInv
  <2>1. Calm /\ Web!RefreshAnswered(b)
    BY <1>1, <1>4, <1>8, WebTypes, WebBounds DEF Calm
  <2>2. /\ refresh[b].pc = "answered"
        /\ cookie' = IF refresh[b].next = Web!NoToken THEN cookie ELSE refresh[b].next
    BY <2>1 DEF Web!RefreshAnswered
  <2>3. \A c \in Tab : c # b => refresh[c].pc = "none"
    BY <1>1, <2>1, <2>2 DEF CalmInv
  <2>4. \A c \in Tab : refresh'[c].pc = "none"
    BY <1>6, <2>3
  <2>5. Usable(cookie)'
    <3>1. Usable(refresh[b].next)
      BY <1>1, <2>1, <2>2 DEF CalmInv
    <3>2. CASE refresh[b].next = Web!NoToken
      BY <1>1, <1>4, <2>1, <2>2, <2>3, <3>2 DEF CalmInv, Usable
    <3>3. CASE refresh[b].next # Web!NoToken
      BY <1>4, <2>2, <3>1, <3>3 DEF Usable
    <3> QED
      BY <3>2, <3>3
  <2>6. ~reused'
    BY <1>1, <1>4, <2>1 DEF CalmInv
  <2> QED
    BY <2>4, <2>5, <2>6 DEF CalmInv
<1> QED
  BY <1>9, <1>10, <1>11, <1>12 DEF WebInv

\* Whatever step is taken.
LEMMA NextWebInv == WebInv /\ [Web!Next]_webVars => WebInv'
<1>1. WebInv /\ UNCHANGED webVars => WebInv'
  <2> SUFFICES ASSUME WebInv, UNCHANGED webVars PROVE WebInv'
    OBVIOUS
  <2>1. /\ UNCHANGED <<row, family, cookie, session, refresh, request>>
        /\ UNCHANGED <<calls, webFaults, executed, reused, crossed, futile>>
    BY DEF webVars
  <2>2. Web!TypeOK' /\ Untried' /\ Unanswered'
    BY <2>1 DEF WebInv, Web!TypeOK, Untried, Unanswered
  <2>3. PaidFor' /\ CalmInv'
    BY <2>1 DEF WebInv, PaidFor, MintedTo, Refreshing, Owing, CalmInv, Calm, Usable
  <2> QED
    BY <2>2, <2>3 DEF WebInv
<1> QED
  BY <1>1, RequestKeepsWebInv, LoginKeepsWebInv, RefreshKeepsWebInv, ExpireKeepsWebInv, RotateKeepsWebInv,
     OutcomeKeepsWebInv DEF Web!Next

\* A call that is not settled is not executed; a calm session is never revoked.
LEMMA WebInvImplies == WebInv => Web!TypeOK /\ Web!ExecutedAtMostOnce /\ Web!ReuseNeedsTabsOrLoss
<1> SUFFICES ASSUME WebInv PROVE Web!ExecutedAtMostOnce /\ Web!ReuseNeedsTabsOrLoss
  BY DEF WebInv
<1>1. Web!ExecutedAtMostOnce
  BY DEF WebInv, Untried, Slots, Web!ExecutedAtMostOnce
<1>2. Web!ReuseNeedsTabsOrLoss
  BY WebTypes, WebBounds DEF WebInv, CalmInv, Calm, Web!ReuseNeedsTabsOrLoss
<1> QED
  BY <1>1, <1>2

-----------------------------------------------------------------------------
(* Processes: a job runs in a consumer that has not closed, and a consumer  *)
(* that has not closed has the pool it was started with.  A worker that is  *)
(* told to stop has been up, so its consumers are the ones it started.      *)

Consuming(q) == consumer[q] \in {"open", "closing"}

WorkerPhase ==
    "worker" \in Processes =>
        /\ processPhase["worker"] = "down" => consumer = Runtime!Idle
        /\ processPhase["worker"] = "init" =>
              consumer = Runtime!Idle \/ \A q \in Runtime!QueueName : consumer[q] = "open"
        /\ processPhase["worker"] = "up" => \A q \in Runtime!QueueName : consumer[q] = "open"

RuntimeInv ==
    /\ Runtime!TypeOK /\ Runtime!NoTickAfterStop /\ WorkerPhase
    /\ \A q \in active : Consuming(q)
    /\ \A q \in Runtime!QueueName : Consuming(q) => "worker" \in Processes /\ pool["worker"]

ClientStates ==
    {Runtime!Unconnected, Runtime!Ready, Runtime!Ended} \union {Runtime!Connecting(n) : n \in 0 .. Retries}

\* At first every process is down.
LEMMA InitRuntimeInv == Runtime!Init => RuntimeInv
<1> SUFFICES ASSUME Runtime!Init PROVE RuntimeInv
  OBVIOUS
<1>1. 0 \in 0 .. MaxTroubles
  BY RuntimeAssumption DEF Runtime!ProcessesAssumption
<1>2. Runtime!TypeOK
  BY <1>1 DEF Runtime!Init, Runtime!TypeOK, Runtime!Idle
<1>3. \A q \in Runtime!QueueName : ~Consuming(q)
  BY DEF Runtime!Init, Runtime!Idle, Consuming
<1>4. WorkerPhase
  BY DEF Runtime!Init, WorkerPhase
<1> QED
  BY <1>2, <1>3, <1>4 DEF Runtime!Init, RuntimeInv, Runtime!NoTickAfterStop

\* What dies with a process: its pool and its consumers together.
LEMMA GoneKeepsRuntimeInv ==
  ASSUME RuntimeInv, NEW p \in Processes, Runtime!Gone(p), server' = server, troubles' \in 0 .. MaxTroubles
  PROVE  RuntimeInv'
<1>1. /\ processPhase' = [processPhase EXCEPT ![p] = "down"]
      /\ client' = [client EXCEPT ![p] = Runtime!Unconnected]
      /\ pool' = [pool EXCEPT ![p] = FALSE]
      /\ IF p = "worker"
         THEN stopped' = FALSE /\ drain' = "none" /\ consumer' = Runtime!Idle /\ active' = {}
         ELSE UNCHANGED <<stopped, drain, consumer, active>>
  BY DEF Runtime!Gone, Runtime!worker
<1>2. /\ pool \in [Processes -> BOOLEAN] /\ client \in [Processes -> ClientStates]
      /\ processPhase \in [Processes -> {"down", "init", "up", "closing"}]
  BY DEF RuntimeInv, Runtime!TypeOK, ClientStates
<1>3. /\ processPhase' \in [Processes -> {"down", "init", "up", "closing"}]
      /\ client' \in [Processes -> ClientStates]
      /\ pool' \in [Processes -> BOOLEAN]
  BY <1>1, <1>2 DEF ClientStates
<1>4. CASE p = "worker"
  <2>1. Runtime!TypeOK'
    BY <1>1, <1>3, <1>4 DEF RuntimeInv, Runtime!TypeOK, Runtime!Idle, ClientStates
  <2>2. \A q \in Runtime!QueueName : ~Consuming(q)'
    BY <1>1, <1>4 DEF Runtime!Idle, Consuming
  <2>3. WorkerPhase'
    BY <1>1, <1>2, <1>4 DEF WorkerPhase
  <2> QED
    BY <1>1, <1>4, <2>1, <2>2, <2>3 DEF RuntimeInv, Runtime!NoTickAfterStop
<1>5. CASE p # "worker"
  <2>1. Runtime!TypeOK'
    BY <1>1, <1>3, <1>5 DEF RuntimeInv, Runtime!TypeOK, ClientStates
  <2>2. \A q : Consuming(q)' <=> Consuming(q)
    BY <1>1, <1>5 DEF Consuming
  <2>3. "worker" \in Processes => pool'["worker"] = pool["worker"]
    BY <1>1, <1>2, <1>5
  <2>4. WorkerPhase'
    BY <1>1, <1>2, <1>5 DEF RuntimeInv, WorkerPhase
  <2> QED
    BY <1>1, <1>5, <2>1, <2>2, <2>3, <2>4 DEF RuntimeInv, Runtime!NoTickAfterStop
<1> QED
  BY <1>4, <1>5

\* Steps that leave the worker and the pool alone: the servers, the client of a
\* process, its start, its listening.
LEMMA OutsideKeepsRuntimeInv ==
  ASSUME RuntimeInv, UNCHANGED <<pool, stopped, drain, consumer, active>>,
         server' \in [Runtime!Servers -> BOOLEAN], troubles' \in 0 .. MaxTroubles,
         processPhase' \in [Processes -> {"down", "init", "up", "closing"}],
         client' \in [Processes -> ClientStates],
         WorkerPhase'
  PROVE  RuntimeInv'
<1>1. Runtime!TypeOK'
  BY DEF RuntimeInv, Runtime!TypeOK, ClientStates
<1>2. \A q : Consuming(q)' <=> Consuming(q)
  BY DEF Consuming
<1> QED
  BY <1>1, <1>2 DEF RuntimeInv, Runtime!NoTickAfterStop

\* The servers fail and return.
LEMMA ServersKeepRuntimeInv ==
  ASSUME RuntimeInv, NEW s \in Runtime!Servers, Runtime!Fails(s) \/ Runtime!Returns(s)
  PROVE  RuntimeInv'
<1>1. /\ UNCHANGED <<processPhase, client, pool, stopped, drain, consumer, active>>
      /\ server' = [server EXCEPT ![s] = FALSE] \/ server' = [server EXCEPT ![s] = TRUE]
      /\ troubles' = troubles \/ (troubles < MaxTroubles /\ troubles' = troubles + 1)
  BY DEF Runtime!Fails, Runtime!Returns, Runtime!worker
<1>2. /\ server \in [Runtime!Servers -> BOOLEAN] /\ troubles \in 0 .. MaxTroubles /\ MaxTroubles \in Nat
  BY RuntimeAssumption DEF RuntimeInv, Runtime!TypeOK, Runtime!ProcessesAssumption
<1>3. server' \in [Runtime!Servers -> BOOLEAN]
  BY <1>1, <1>2
<1>4. troubles' \in 0 .. MaxTroubles
  BY <1>1, <1>2
<1>5. /\ processPhase' \in [Processes -> {"down", "init", "up", "closing"}]
      /\ client' \in [Processes -> ClientStates]
  BY <1>1 DEF RuntimeInv, Runtime!TypeOK, ClientStates
<1>6. WorkerPhase'
  BY <1>1 DEF RuntimeInv, WorkerPhase
<1> QED
  BY <1>1, <1>3, <1>4, <1>5, <1>6, OutsideKeepsRuntimeInv

\* The client of a process, while the process goes on.
LEMMA ClientKeepsRuntimeInv ==
  ASSUME RuntimeInv, NEW p \in Processes, NEW c \in ClientStates,
         client' = [client EXCEPT ![p] = c],
         UNCHANGED <<server, troubles, pool, stopped, drain, consumer, active>>,
         \/ processPhase' = processPhase
         \/ processPhase[p] = "down" /\ processPhase' = [processPhase EXCEPT ![p] = "init"]
  PROVE  RuntimeInv'
<1>1. /\ server \in [Runtime!Servers -> BOOLEAN] /\ troubles \in 0 .. MaxTroubles
      /\ processPhase \in [Processes -> {"down", "init", "up", "closing"}]
      /\ client \in [Processes -> ClientStates]
  BY DEF RuntimeInv, Runtime!TypeOK, ClientStates
<1>2. /\ client' \in [Processes -> ClientStates]
      /\ processPhase' \in [Processes -> {"down", "init", "up", "closing"}]
  BY <1>1
<1>3. WorkerPhase'
  BY <1>1 DEF RuntimeInv, WorkerPhase
<1> QED
  BY <1>1, <1>2, <1>3, OutsideKeepsRuntimeInv

\* Start, the connection, and its end.
LEMMA ConnectionKeepsRuntimeInv ==
  ASSUME RuntimeInv, NEW p \in Processes,
         \/ Runtime!Start(p) \/ Runtime!Connects(p) \/ Runtime!Drops(p) \/ Runtime!CloseClient(p)
         \/ Runtime!Refused(p)
  PROVE  RuntimeInv'
<1>1. Retries \in Nat /\ troubles \in 0 .. MaxTroubles
  BY RuntimeAssumption DEF RuntimeInv, Runtime!TypeOK, Runtime!ProcessesAssumption
<1>2. Runtime!Connecting(0) \in ClientStates /\ Runtime!Ready \in ClientStates /\ Runtime!Unconnected \in ClientStates
      /\ Runtime!Ended \in ClientStates
  BY <1>1 DEF ClientStates
<1>3. CASE ~Runtime!Refused(p)
  <2>1. PICK c \in ClientStates :
          /\ client' = [client EXCEPT ![p] = c]
          /\ UNCHANGED <<server, troubles, pool, stopped, drain, consumer, active>>
          /\ \/ processPhase' = processPhase
             \/ processPhase[p] = "down" /\ processPhase' = [processPhase EXCEPT ![p] = "init"]
    BY <1>2, <1>3 DEF Runtime!Start, Runtime!Connects, Runtime!Drops, Runtime!CloseClient, Runtime!AfterDrop,
                      Runtime!worker
  <2> QED
    BY <2>1, ClientKeepsRuntimeInv
<1>4. CASE Runtime!Refused(p)
  <2> DEFINE n == client[p].attempts + 1
             next == IF Runtime!RetryStrategy(n) THEN Runtime!Connecting(n) ELSE Runtime!Ended
  <2>1. UNCHANGED <<server, troubles>> /\ client[p].status = "connecting"
    BY <1>4 DEF Runtime!Refused
  <2>2. CASE Runtime!Gone(p)
    BY <1>1, <2>1, <2>2, GoneKeepsRuntimeInv
  <2>3. CASE client' = [client EXCEPT ![p] = next] /\ UNCHANGED <<processPhase, pool, stopped, drain, consumer, active>>
    <3>1. client[p] \in ClientStates
      BY DEF RuntimeInv, Runtime!TypeOK, ClientStates
    <3>2. PICK m \in 0 .. Retries : client[p] = Runtime!Connecting(m)
      BY <2>1, <3>1 DEF ClientStates, Runtime!Unconnected, Runtime!Ready, Runtime!Ended
    <3>3. n = m + 1
      BY <3>2 DEF Runtime!Connecting
    <3>4. Runtime!RetryStrategy(n) => n \in 0 .. Retries
      BY <1>1, <3>3 DEF Runtime!RetryStrategy
    <3>5. next \in ClientStates
      BY <1>2, <3>4 DEF ClientStates
    <3> HIDE DEF next
    <3> QED
      BY <2>1, <2>3, <3>5, ClientKeepsRuntimeInv
  <2> QED
    BY <1>4, <2>2, <2>3 DEF Runtime!Refused, Runtime!worker
<1> QED
  BY <1>3, <1>4

\* The pool opens at boot, and is destroyed after the consumers have closed.
LEMMA PoolKeepsRuntimeInv ==
  ASSUME RuntimeInv, NEW p \in Processes, Runtime!Initialize(p) \/ Runtime!Destroy(p)
  PROVE  RuntimeInv'
<1>1. CASE Runtime!Gone(p) /\ UNCHANGED <<server, troubles>>
  BY <1>1, GoneKeepsRuntimeInv DEF RuntimeInv, Runtime!TypeOK
<1>2. CASE ~Runtime!Gone(p)
  <2>1. PICK b \in BOOLEAN :
          /\ pool' = [pool EXCEPT ![p] = b]
          /\ ~b => (p = "worker" => \A q \in Runtime!QueueName : consumer[q] = "closed")
          /\ UNCHANGED <<server, troubles, processPhase, client, stopped, drain, consumer, active>>
    BY <1>2 DEF Runtime!Initialize, Runtime!Destroy, Runtime!HooksDone, Runtime!worker
  <2>2. pool \in [Processes -> BOOLEAN] /\ active \subseteq Runtime!QueueName
    BY DEF RuntimeInv, Runtime!TypeOK
  <2>3. pool' \in [Processes -> BOOLEAN]
    BY <2>1, <2>2
  <2>4. Runtime!TypeOK'
    BY <2>1, <2>3 DEF RuntimeInv, Runtime!TypeOK
  <2>5. \A q : Consuming(q)' <=> Consuming(q)
    BY <2>1 DEF Consuming
  <2>6. ASSUME NEW q \in Runtime!QueueName, Consuming(q) PROVE "worker" \in Processes /\ pool'["worker"]
    <3>1. "worker" \in Processes /\ pool["worker"]
      BY <2>6 DEF RuntimeInv
    <3>2. p = "worker" => b
      BY <2>1, <2>6 DEF Consuming
    <3> QED
      BY <2>1, <2>2, <3>1, <3>2
  <2>7. WorkerPhase'
    BY <2>1 DEF RuntimeInv, WorkerPhase
  <2> QED
    BY <2>1, <2>4, <2>5, <2>6, <2>7 DEF RuntimeInv, Runtime!NoTickAfterStop
<1> QED
  BY <1>1, <1>2 DEF Runtime!Initialize, Runtime!Destroy

\* A process goes away, by itself or not.
LEMMA EndKeepsRuntimeInv ==
  ASSUME RuntimeInv, NEW p \in Processes, Runtime!Exit(p) \/ Runtime!Crash(p)
  PROVE  RuntimeInv'
<1>1. MaxTroubles \in Nat /\ troubles \in 0 .. MaxTroubles
  BY RuntimeAssumption DEF RuntimeInv, Runtime!TypeOK, Runtime!ProcessesAssumption
<1>2. troubles' \in 0 .. MaxTroubles
  BY <1>1 DEF Runtime!Exit, Runtime!Crash
<1>3. Runtime!Gone(p) /\ server' = server
  BY DEF Runtime!Exit, Runtime!Crash
<1> QED
  BY <1>2, <1>3, GoneKeepsRuntimeInv

\* A process is up: the worker's only with consumers that have started.
LEMMA UpKeepsRuntimeInv ==
  ASSUME RuntimeInv, Runtime!Listen \/ Runtime!UpsertSchedulers
  PROVE  RuntimeInv'
<1>1. PICK p \in Processes :
        /\ processPhase' = [processPhase EXCEPT ![p] = "up"]
        /\ UNCHANGED <<server, troubles, client, pool, stopped, drain, consumer, active>>
        /\ p = "worker" => processPhase["worker"] = "init" /\ consumer # Runtime!Idle
  BY DEF Runtime!Listen, Runtime!UpsertSchedulers, Runtime!worker
<1>2. processPhase \in [Processes -> {"down", "init", "up", "closing"}]
  BY DEF RuntimeInv, Runtime!TypeOK
<1>3. processPhase' \in [Processes -> {"down", "init", "up", "closing"}]
  BY <1>1, <1>2
<1>4. WorkerPhase'
  BY <1>1, <1>2 DEF RuntimeInv, WorkerPhase
<1> QED
  BY <1>1, <1>3, <1>4, OutsideKeepsRuntimeInv DEF RuntimeInv, Runtime!TypeOK, ClientStates

\* A process is told to stop: the relay sets no timer any more, and the consumers
\* begin to close.
LEMMA SignalKeepsRuntimeInv ==
  ASSUME RuntimeInv, NEW p \in Processes, Runtime!Signal(p)
  PROVE  RuntimeInv'
<1>1. /\ processPhase[p] = "up" /\ processPhase' = [processPhase EXCEPT ![p] = "closing"]
      /\ UNCHANGED <<server, troubles, client, pool>>
      /\ IF p = "worker"
         THEN /\ stopped' = TRUE /\ drain' = (IF drain = "timer" THEN "none" ELSE drain)
              /\ consumer' = [q \in Runtime!QueueName |-> "closing"] /\ active' = active
         ELSE UNCHANGED <<stopped, drain, consumer, active>>
  BY DEF Runtime!Signal, Runtime!worker
<1>2. processPhase \in [Processes -> {"down", "init", "up", "closing"}]
  BY DEF RuntimeInv, Runtime!TypeOK
<1>3. processPhase' \in [Processes -> {"down", "init", "up", "closing"}]
  BY <1>1, <1>2
<1>4. WorkerPhase'
  BY <1>1, <1>2 DEF RuntimeInv, WorkerPhase
<1>5. CASE p # "worker"
  BY <1>1, <1>3, <1>4, <1>5, OutsideKeepsRuntimeInv DEF RuntimeInv, Runtime!TypeOK, ClientStates
<1>6. CASE p = "worker"
  <2>1. Runtime!TypeOK'
    BY <1>1, <1>3, <1>6 DEF RuntimeInv, Runtime!TypeOK
  <2>2. active' \subseteq Runtime!QueueName /\ \A q \in Runtime!QueueName : Consuming(q)'
    BY <1>1, <1>6 DEF RuntimeInv, Runtime!TypeOK, Consuming
  <2>3. \A q \in Runtime!QueueName : Consuming(q)
    BY <1>1, <1>6 DEF RuntimeInv, WorkerPhase, Consuming
  <2>4. pool'["worker"]
    BY <1>1, <2>3 DEF RuntimeInv, Runtime!QueueName
  <2> QED
    BY <1>1, <1>4, <1>6, <2>1, <2>2, <2>4 DEF RuntimeInv, Runtime!NoTickAfterStop
<1> QED
  BY <1>5, <1>6

\* The hooks that start the consumers and the relay, with the pool.
LEMMA StartConsumersKeepsRuntimeInv ==
  ASSUME RuntimeInv, Runtime!StartConsumers
  PROVE  RuntimeInv'
<1>1. /\ "worker" \in Processes /\ processPhase["worker"] = "init" /\ pool["worker"] /\ consumer = Runtime!Idle
      /\ consumer' = [q \in Runtime!QueueName |-> "open"] /\ stopped' = FALSE /\ drain' = "claiming"
      /\ UNCHANGED <<server, troubles, processPhase, client, pool, active>>
  BY DEF Runtime!StartConsumers
<1>2. Runtime!TypeOK'
  BY <1>1 DEF RuntimeInv, Runtime!TypeOK
<1>3. WorkerPhase'
  BY <1>1 DEF WorkerPhase
<1>4. \A q \in Runtime!QueueName : Consuming(q)'
  BY <1>1 DEF Consuming
<1> QED
  BY <1>1, <1>2, <1>3, <1>4 DEF RuntimeInv, Runtime!TypeOK, Runtime!NoTickAfterStop

\* The drain of the relay: a tick that ends after the stop sets no timer.
LEMMA DrainKeepsRuntimeInv ==
  ASSUME RuntimeInv, Runtime!Tick \/ Runtime!Claim \/ Runtime!Add
  PROVE  RuntimeInv'
<1>1. /\ UNCHANGED <<server, troubles, processPhase, client, pool, stopped, consumer, active>>
      /\ drain' \in {"none", "timer", "claiming", "adding"} /\ (stopped => drain' # "timer")
  BY DEF Runtime!Tick, Runtime!Claim, Runtime!Add, Runtime!NextTick
<1>2. Runtime!TypeOK'
  BY <1>1 DEF RuntimeInv, Runtime!TypeOK
<1>3. WorkerPhase' /\ \A q : Consuming(q)' <=> Consuming(q)
  BY <1>1 DEF RuntimeInv, WorkerPhase, Consuming
<1> QED
  BY <1>1, <1>2, <1>3 DEF RuntimeInv, Runtime!NoTickAfterStop

\* A job starts in an open consumer, and ends; a consumer closes without one.
LEMMA JobsKeepRuntimeInv ==
  ASSUME RuntimeInv, NEW q \in Runtime!QueueName,
         Runtime!TakeJob(q) \/ Runtime!FinishJob(q) \/ Runtime!CloseConsumer(q)
  PROVE  RuntimeInv'
<1>1. UNCHANGED <<server, troubles, processPhase, client, pool, stopped, drain>>
  BY DEF Runtime!TakeJob, Runtime!FinishJob, Runtime!CloseConsumer
<1>2. CASE Runtime!TakeJob(q) \/ Runtime!FinishJob(q)
  <2>1. /\ consumer' = consumer /\ active' \subseteq active \union {q}
        /\ q \in active' => Consuming(q) \/ q \in active
    BY <1>2 DEF Runtime!TakeJob, Runtime!FinishJob, Runtime!Takes, Consuming
  <2>2. Runtime!TypeOK'
    BY <1>1, <2>1 DEF RuntimeInv, Runtime!TypeOK
  <2>3. WorkerPhase' /\ \A x : Consuming(x)' <=> Consuming(x)
    BY <1>1, <2>1 DEF RuntimeInv, WorkerPhase, Consuming
  <2> QED
    BY <1>1, <2>1, <2>2, <2>3 DEF RuntimeInv, Runtime!NoTickAfterStop
<1>3. CASE Runtime!CloseConsumer(q)
  <2>1. /\ consumer[q] = "closing" /\ q \notin active
        /\ consumer' = [consumer EXCEPT ![q] = "closed"] /\ active' = active
    BY <1>3 DEF Runtime!CloseConsumer, Runtime!MayClose
  <2>2. consumer \in [Runtime!QueueName -> {"none", "open", "closing", "closed"}]
    BY DEF RuntimeInv, Runtime!TypeOK
  <2>3. Runtime!TypeOK'
    BY <1>1, <2>1, <2>2 DEF RuntimeInv, Runtime!TypeOK
  <2>4. \A x \in Runtime!QueueName : /\ Consuming(x)' => Consuming(x)
                                     /\ x # q => (Consuming(x)' <=> Consuming(x))
    BY <2>1, <2>2 DEF Consuming
  <2>5. WorkerPhase'
    BY <1>1, <2>1 DEF RuntimeInv, WorkerPhase, Runtime!Idle
  <2>6. active \subseteq Runtime!QueueName
    BY DEF RuntimeInv, Runtime!TypeOK
  <2> QED
    BY <1>1, <2>1, <2>3, <2>4, <2>5, <2>6 DEF RuntimeInv, Runtime!NoTickAfterStop
<1> QED
  BY <1>2, <1>3

\* Whatever step is taken.
LEMMA NextRuntimeInv == RuntimeInv /\ [Runtime!Next]_processVars => RuntimeInv'
<1>1. RuntimeInv /\ UNCHANGED processVars => RuntimeInv'
  BY DEF processVars, RuntimeInv, Runtime!TypeOK, Runtime!NoTickAfterStop, WorkerPhase, Consuming
<1> QED
  BY <1>1, ServersKeepRuntimeInv, ConnectionKeepsRuntimeInv, PoolKeepsRuntimeInv, EndKeepsRuntimeInv,
     UpKeepsRuntimeInv, SignalKeepsRuntimeInv, StartConsumersKeepsRuntimeInv, DrainKeepsRuntimeInv,
     JobsKeepRuntimeInv DEF Runtime!Next, Runtime!Progress, Runtime!Loops

\* A job's consumer has not closed, so the pool is there.
LEMMA RuntimeInvImplies == RuntimeInv => Runtime!TypeOK /\ Runtime!JobsHaveThePool /\ Runtime!NoTickAfterStop
  BY DEF RuntimeInv, Runtime!TypeOK, Runtime!JobsHaveThePool

-----------------------------------------------------------------------------
(* The theorems.                                                            *)

\* The lock of packages/infrastructure/redis/src/lock: whatever answers are lost,
\* commands resent, holders crashed and keys expired, a lease nobody lost stays
\* its holder's, only a lapsed one lets two clients in, and only a fault leaves
\* a key without a holder.
THEOREM LockIsSound == Spec => [](TypeOK /\ LeaseIsKept /\ OverlapNeedsLapse /\ OrphanNeedsFault)
BY InitLockInv, NextLockInv, LockInvImplies, PTL DEF Spec

\* The same of the run that explores the lock beside the other components.
THEOREM LocksStayKept == ServicesSpec => []LocksAreKept
<1> DEFINE Inv == part = "lock" => LockInv
<1>1. ServicesInit => Inv
  BY InitLockInv DEF ServicesInit
<1>2. Inv /\ [ServicesNext]_<<part, vars, limiterVars, pubSubVars, httpVars, webVars, processVars>>
        => Inv'
  BY NextLockInv
  DEF ServicesNext, Locking, Limiting, Publishing, Calling, Browsing, Running
<1>3. Inv => LocksAreKept
  BY LockInvImplies DEF LocksAreKept
<1> QED
  BY <1>1, <1>2, <1>3, PTL DEF ServicesSpec

\* The rate limiter of packages/infrastructure/redis/src/rate-limit: a refused
\* caller found the window full, unless a resent command counted somebody twice,
\* and one that waits as long as Retry-After says is at most half a second early.
THEOREM RefusalsAreJust == Limiter!Spec => [](Limiter!TypeOK /\ Limiter!RefusedNeedsFullWindow /\ Limiter!RetryAfterReachesTheEnd)
BY InitLimiterInv, NextLimiterInv, LimiterInvImplies, PTL DEF Limiter!Spec, Limiter!vars, limiterVars

\* For any limit and window, wherever a span of a window's length begins, the
\* script admits at most twice the limit in it, and one limit more for each time
\* Redis lost the key.
THEOREM BurstsAreBounded == Limiter!Spec => []Limiter!BurstBounded
<1> DEFINE Inv == LimiterInv /\ BurstInv
<1>1. Limiter!Init => Inv
  BY InitLimiterInv, InitBurstInv
<1>2. Inv /\ [Limiter!Next]_Limiter!vars => Inv'
  BY NextLimiterInv, NextBurstInv DEF LimiterInv, Limiter!vars, limiterVars
<1>3. Inv => Limiter!BurstBounded
  BY BurstInvImplies DEF LimiterInv
<1> QED
  BY <1>1, <1>2, <1>3, PTL DEF Limiter!Spec

\* Both, of the run that explores the limiter beside the other components.
THEOREM LimitsStayKept == ServicesSpec => []LimitsAreKept
<1> DEFINE Inv == part = "limiter" => LimiterInv /\ BurstInv
<1>1. ServicesInit => Inv
  BY InitLimiterInv, InitBurstInv DEF ServicesInit
<1>2. Inv /\ [ServicesNext]_<<part, vars, limiterVars, pubSubVars, httpVars, webVars, processVars>>
        => Inv'
  <2>1. LimiterInv /\ BurstInv /\ [Limiter!Next]_limiterVars => (LimiterInv /\ BurstInv)'
    BY NextLimiterInv, NextBurstInv DEF LimiterInv
  <2> QED
    BY <2>1
    DEF ServicesNext, Locking, Limiting, Publishing, Calling, Browsing, Running
<1>3. Inv => LimitsAreKept
  BY LimiterInvImplies, BurstInvImplies DEF LimitsAreKept, LimiterInv
<1> QED
  BY <1>1, <1>2, <1>3, PTL DEF ServicesSpec

\* The pub/sub of packages/infrastructure/redis/src/pubsub: for any subscribers,
\* channels, messages and faults, a subscriber goes deaf only because a peer of
\* its channel left, and no handler outlives its unsubscribe or its failure
\* unless a peer keeps the channel.
THEOREM FanOutIsSound == PubSub!Spec => [](PubSub!TypeOK /\ PubSub!DeafNeedsPeerLeaving /\ PubSub!SilentAfterUnsubscribe /\ PubSub!LeakedHandlerNeedsPeer)
BY InitFanOutInv, NextFanOutInv, FanOutInvImplies, PTL DEF PubSub!Spec, PubSub!vars, pubSubVars

\* The same of the run that explores the pub/sub beside the other components.
THEOREM SubscriptionsStayKept == ServicesSpec => []SubscriptionsAreKept
<1> DEFINE Inv == part = "pubSub" => FanOutInv
<1>1. ServicesInit => Inv
  BY InitFanOutInv DEF ServicesInit
<1>2. Inv /\ [ServicesNext]_<<part, vars, limiterVars, pubSubVars, httpVars, webVars, processVars>>
        => Inv'
  BY NextFanOutInv
  DEF ServicesNext, Locking, Limiting, Publishing, Calling, Browsing, Running
<1>3. Inv => SubscriptionsAreKept
  BY FanOutInvImplies DEF SubscriptionsAreKept
<1> QED
  BY <1>1, <1>2, <1>3, PTL DEF ServicesSpec

\* The client of packages/infrastructure/http-client: for any retry policies,
\* timeout, redirects and retries, an unsafe request reaches the peer twice only
\* if the caller consented, and the attempts, the hops and the time are bounded.
THEOREM CallsAreBounded == Http!Spec => [](Http!TypeOK /\ Http!WriteTwiceNeedsConsent /\ Http!CallIsBounded)
BY InitCallInv, NextCallInv, CallInvImplies, PTL DEF Http!Spec, Http!vars, httpVars

\* The same of the run that explores the client beside the other components.
THEOREM CallsStayBounded == ServicesSpec => []CallsStayWithinBounds
<1> DEFINE Inv == part = "http" => CallInv
<1>1. ServicesInit => Inv
  BY InitCallInv DEF ServicesInit
<1>2. Inv /\ [ServicesNext]_<<part, vars, limiterVars, pubSubVars, httpVars, webVars, processVars>>
        => Inv'
  BY NextCallInv
  DEF ServicesNext, Locking, Limiting, Publishing, Calling, Browsing, Running
<1>3. Inv => CallsStayWithinBounds
  BY CallInvImplies DEF CallsStayWithinBounds
<1> QED
  BY <1>1, <1>2, <1>3, PTL DEF ServicesSpec

\* The browser's session, api-core's refresh middleware and coordinator: for any
\* finite number of tabs and requests and any bounds, a call is executed at most
\* once, and the session is taken for stolen only if two tabs refreshed together
\* or a message was lost.
THEOREM SessionsAreSound == Web!Spec => [](Web!TypeOK /\ Web!ExecutedAtMostOnce /\ Web!ReuseNeedsTabsOrLoss)
<1>1. WebInv /\ [Web!Next]_(Web!vars) => WebInv'
  <2>1. UNCHANGED Web!vars => UNCHANGED webVars
    BY DEF Web!vars, Web!server, Web!history, webVars
  <2> QED
    BY <2>1, NextWebInv
<1> QED
  BY <1>1, InitWebInv, WebInvImplies, PTL DEF Web!Spec

\* The same of the run that explores the tabs beside the other components.
THEOREM SessionsStayKept == ServicesSpec => []SessionsAreKept
<1> DEFINE Inv == part = "web" => WebInv
<1>1. ServicesInit => Inv
  BY InitWebInv DEF ServicesInit
<1>2. Inv /\ [ServicesNext]_<<part, vars, limiterVars, pubSubVars, httpVars, webVars, processVars>>
        => Inv'
  BY NextWebInv
  DEF ServicesNext, Locking, Limiting, Publishing, Calling, Browsing, Running
<1>3. Inv => SessionsAreKept
  BY WebInvImplies DEF SessionsAreKept
<1> QED
  BY <1>1, <1>2, <1>3, PTL DEF ServicesSpec

\* The life cycle of the api, worker and relay processes: for any of them, any
\* connection attempts and any failures, no job runs without the pool it works
\* on, and no tick of the relay starts after it was told to stop.
THEOREM ShutdownIsSound == Runtime!Spec => [](Runtime!TypeOK /\ Runtime!JobsHaveThePool /\ Runtime!NoTickAfterStop)
<1>1. RuntimeInv /\ [Runtime!Next]_(Runtime!vars) => RuntimeInv'
  <2>1. UNCHANGED Runtime!vars => UNCHANGED processVars
    BY DEF Runtime!vars, Runtime!worker, processVars
  <2> QED
    BY <2>1, NextRuntimeInv
<1> QED
  BY <1>1, InitRuntimeInv, RuntimeInvImplies, PTL DEF Runtime!Spec

\* The same of the run that explores the processes beside the other components.
THEOREM ShutdownStaysOrdered == ServicesSpec => []ShutdownIsOrdered
<1> DEFINE Inv == part = "processes" => RuntimeInv
<1>1. ServicesInit => Inv
  BY InitRuntimeInv DEF ServicesInit
<1>2. Inv /\ [ServicesNext]_<<part, vars, limiterVars, pubSubVars, httpVars, webVars, processVars>>
        => Inv'
  BY NextRuntimeInv
  DEF ServicesNext, Locking, Limiting, Publishing, Calling, Browsing, Running
<1>3. Inv => ShutdownIsOrdered
  BY RuntimeInvImplies DEF ShutdownIsOrdered
<1> QED
  BY <1>1, <1>2, <1>3, PTL DEF ServicesSpec
=============================================================================
