----------------------------- MODULE ToolingProofs -----------------------------
(***************************************************************************)
(* Proofs about what runs beside the services: the CI monitor and the lint *)
(* rules, for any budgets, contexts, resources and bounds, and the         *)
(* migrations, for any builds, tenants, runners and number of reverts.     *)
(***************************************************************************)
EXTENDS MCTooling, FiniteSetTheorems, SequenceTheorems, WellFoundedInduction, TLAPS

-----------------------------------------------------------------------------
(* CiMonitor: a cycle is counted when the attempt the monitor started is     *)
(* done, so the actions taken are the cycles counted and the one under way;  *)
(* whatever is handled, and whatever is waited for, began before the         *)
(* timeout; a poll that sees nothing new takes a minute at least, and the    *)
(* breaker counts it as long as nothing is tracked and CI writes the         *)
(* classification as the script compares it.                                 *)

Fields == {"wait", "polls", "noProgress", "envReruns", "local", "cycles", "lastUrl", "sha", "agent", "prev"}

UnderWay == IF mon.agent THEN 1 ELSE 0

\* What answers that did not parse may add to the time.
Unread == 2 * (MaxUnparsed - unparsed)

AttemptInv ==
    /\ DOMAIN ci = {"url", "sha", "info"}
    /\ ci = [url |-> ci.url, sha |-> ci.sha, info |-> ci.info]
    /\ ci.info \in CiInfo
    /\ ci.url \in Nat /\ 1 <= ci.url /\ ci.url <= MaxAttempts
    /\ head \in Nat /\ due \in Nat /\ due <= head
    /\ ci.sha \in Nat /\ 1 <= ci.sha /\ ci.sha <= head
    /\ due # Monitor!Unset => ci.url < MaxAttempts

BudgetInv ==
    /\ DOMAIN mon = Fields
    /\ mon.wait \in BOOLEAN /\ mon.agent \in BOOLEAN
    /\ mon.noProgress \in Nat
    /\ mon.envReruns \in Nat /\ mon.envReruns <= EnvRerunCap
    /\ mon.local \in Nat /\ mon.local <= LocalAttempts
    /\ mon.cycles \in Nat /\ actions \in Nat
    /\ actions = mon.cycles + UnderWay
    /\ actions <= MaxCycles
    /\ mon.wait => (mon.lastUrl = Monitor!Unset) # (mon.sha = Monitor!Unset)

TimeInv ==
    /\ phase \in {"poll", "handle", "stopped"}
    /\ unparsed \in Nat /\ unparsed <= MaxUnparsed
    /\ elapsed \in Nat
    /\ phase = "handle" /\ Monitor!Flow(code) # {} => elapsed < TimeoutUnits + Unread
    /\ phase = "poll" /\ mon.wait => elapsed < TimeoutUnits + 1 + Unread
    /\ Monitor!StopsAtTimeout

BreakerInv ==
    /\ stale \in Nat
    /\ Monitor!StandstillSpendsTimeout
    /\ ~Monitor!BreakerBypassed => stale <= mon.noProgress /\ stale < NoProgressCap

MonitorInv == AttemptInv /\ BudgetInv /\ TimeInv /\ BreakerInv

\* The bounds are numbers, and the caps of the timeout and the breaker at least 1.
LEMMA MonitorBounds ==
  /\ EnvRerunCap \in Nat /\ MaxCycles \in Nat /\ LocalAttempts \in Nat /\ MaxUnparsed \in Nat
  /\ NoProgressCap \in Nat /\ NoProgressCap > 0 /\ TimeoutUnits \in Nat /\ TimeoutUnits > 0
  /\ NewCipeUnits \in Nat /\ NewCipeUnits > 0 /\ MaxAttempts \in Nat /\ MaxAttempts > 0
  /\ Monitor!Unset = 0
  /\ Monitor!Horizon \in Nat
<1>1. /\ EnvRerunCap \in Nat /\ MaxCycles \in Nat /\ LocalAttempts \in Nat /\ MaxUnparsed \in Nat
      /\ NoProgressCap \in Nat \ {0} /\ TimeoutUnits \in Nat \ {0}
      /\ NewCipeUnits \in Nat \ {0} /\ MaxAttempts \in Nat \ {0}
  BY MonitorAssumption DEF Monitor!CiMonitorAssumption
<1> QED
  BY <1>1 DEF Monitor!Unset, Monitor!Horizon

\* The smaller of two numbers.
LEMMA LessOfTwo ==
  ASSUME NEW a \in Int, NEW b \in Int
  PROVE  Monitor!Min({a, b}) = IF a <= b THEN a ELSE b
<1>1. PICK c \in {a, b} : \A d \in {a, b} : c <= d
  OBVIOUS
<1>2. Monitor!Min({a, b}) \in {a, b} /\ \A d \in {a, b} : Monitor!Min({a, b}) <= d
  BY <1>1 DEF Monitor!Min
<1> QED
  BY <1>2

\* The delay between polls grows with the polls that saw nothing new.
LEMMA BackoffGrows ==
  ASSUME NEW m \in Nat, NEW n \in Nat, m < n
  PROVE  /\ Monitor!backoff(m) \in Nat /\ Monitor!backoff(n) \in Nat
         /\ Monitor!backoff(m) <= Monitor!backoff(n) /\ 3 <= Monitor!backoff(n)
  BY DEF Monitor!backoff

\* A delay between polls is a minute to three.
LEMMA BackoffBounds ==
  ASSUME NEW n \in Nat
  PROVE  Monitor!backoff(n) \in Nat /\ 2 <= Monitor!backoff(n) /\ Monitor!backoff(n) <= 6
  BY DEF Monitor!backoff

\* What the breaker allows as the last delay.
LEMMA LastDelay == Monitor!backoff(NoProgressCap) \in Nat /\ 3 <= Monitor!backoff(NoProgressCap)
<1>1. 0 \in Nat /\ 0 < NoProgressCap
  BY MonitorBounds
<1> QED
  BY <1>1, MonitorBounds, BackoffGrows

\* At first the first attempt runs and nothing is spent.
LEMMA InitMonitorInv == Monitor!Init => MonitorInv
<1> SUFFICES ASSUME Monitor!Init PROVE MonitorInv
  OBVIOUS
<1>1. AttemptInv
  <2>1. ci \in [url : {1}, sha : {1}, info : CiInfo] /\ head = 1 /\ due = 0
    BY MonitorBounds DEF Monitor!Init
  <2> QED
    BY <2>1, MonitorBounds DEF AttemptInv
<1>2. /\ mon = [wait |-> FALSE, polls |-> 0, noProgress |-> 0, envReruns |-> 0, local |-> 0, cycles |-> 0,
                lastUrl |-> Monitor!Unset, sha |-> Monitor!Unset, agent |-> FALSE, prev |-> Monitor!NoStatuses]
      /\ actions = 0 /\ stale = 0 /\ phase = "poll" /\ unparsed = MaxUnparsed /\ elapsed = 0
  BY DEF Monitor!Init
<1>3. BudgetInv
  BY <1>2, MonitorBounds DEF BudgetInv, UnderWay, Fields
<1>4. TimeInv
  BY <1>2, MonitorBounds, LastDelay DEF TimeInv, Unread, Monitor!StopsAtTimeout
<1>5. BreakerInv
  BY <1>2, MonitorBounds DEF BreakerInv, Monitor!StandstillSpendsTimeout
<1> QED
  BY <1>1, <1>3, <1>4, <1>5 DEF MonitorInv

\* What the decision script may answer, as far as time and progress go.
LEMMA Verdicts ==
  ASSUME MonitorInv
  PROVE  /\ Monitor!noProgressCount \in Nat
         /\ mon.wait =>
              \/ Monitor!classify = "new_cipe_detected"
              \/ Monitor!classify = "polling_timeout"
              \/ Monitor!classify \in {"no_new_cipe", "waiting_for_cipe"} /\ elapsed < TimeoutUnits
         /\ ~mon.wait =>
              \/ Monitor!classify = "polling_timeout"
              \/ Monitor!classify = "circuit_breaker"
              \/ elapsed < TimeoutUnits /\ Monitor!noProgressCount < NoProgressCap
<1>1. mon.noProgress \in Nat /\ mon.wait \in BOOLEAN /\ elapsed \in Nat
  BY DEF MonitorInv, BudgetInv, TimeInv
<1>2. Monitor!noProgressCount \in Nat
  BY <1>1 DEF Monitor!noProgressCount
<1>3. Monitor!isTimedOut <=> ~(elapsed < TimeoutUnits)
  BY <1>1, MonitorBounds DEF Monitor!isTimedOut
<1>4. CASE mon.wait
  BY <1>2, <1>3, <1>4 DEF Monitor!classify, Monitor!classifyWait
<1>5. CASE ~mon.wait
  <2>1. ~(Monitor!noProgressCount >= NoProgressCap) => Monitor!noProgressCount < NoProgressCap
    BY <1>2, MonitorBounds
  <2> QED
    BY <1>2, <1>3, <1>5, <2>1 DEF Monitor!classify
<1> QED
  BY <1>1, <1>4, <1>5

\* How long a poll may delay the next.
LEMMA Delays ==
  ASSUME MonitorInv
  PROVE  LET c == Monitor!classify IN
         /\ Monitor!Delay(c) \in Nat
         /\ c \notin Monitor!PollCodes \union {"waiting_for_cipe"} => Monitor!Delay(c) = 0
         /\ c = "waiting_for_cipe" => Monitor!Delay(c) = 1
         /\ c = "new_cipe_detected" => Monitor!Delay(c) = 2
         /\ c \in Monitor!PollCodes => 2 <= Monitor!Delay(c) /\ Monitor!Delay(c) <= 6
         /\ ~mon.wait /\ c \notin {"polling_timeout", "circuit_breaker"} =>
                Monitor!Delay(c) <= Monitor!backoff(NoProgressCap)
<1>1. /\ Monitor!noProgressCount \in Nat
      /\ ~mon.wait /\ Monitor!classify \notin {"polling_timeout", "circuit_breaker"} =>
            Monitor!noProgressCount < NoProgressCap
  BY Verdicts
<1>2. Monitor!backoff(Monitor!noProgressCount) \in Nat
  <2>1. Monitor!noProgressCount + 1 \in Nat /\ Monitor!noProgressCount < Monitor!noProgressCount + 1
    BY <1>1
  <2> QED
    BY <1>1, <2>1, BackoffGrows
<1>3. ~mon.wait /\ Monitor!classify \notin {"polling_timeout", "circuit_breaker"} =>
        Monitor!backoff(Monitor!noProgressCount) <= Monitor!backoff(NoProgressCap)
  BY <1>1, BackoffGrows, MonitorBounds
<1> DEFINE c == Monitor!classify
           slow == Monitor!backoff(Monitor!noProgressCount)
           last == Monitor!backoff(NoProgressCap)
<1>4. Monitor!Delay(c) =
        IF c = "waiting_for_cipe" THEN 1
        ELSE IF c = "new_cipe_detected" THEN 2
        ELSE IF c \in Monitor!PollCodes THEN slow ELSE 0
  BY DEF Monitor!Delay, Monitor!PollCodes
<1>5. "new_cipe_detected" \in Monitor!PollCodes
  BY DEF Monitor!PollCodes
<1>6. last \in Nat /\ 3 <= last
  BY LastDelay
<1>7. ~mon.wait /\ c \notin {"polling_timeout", "circuit_breaker"} => slow <= last
  BY <1>3
<1>8. slow \in Nat /\ 2 <= slow /\ slow <= 6
  BY <1>1, BackoffBounds
<1>9. "waiting_for_cipe" \notin Monitor!PollCodes
  BY DEF Monitor!PollCodes
<1> HIDE DEF slow, c, last
<1> QED
  BY <1>4, <1>5, <1>6, <1>7, <1>8, <1>9 DEF c, last

\* Only a monitor that waits is told to go on waiting.
LEMMA WaitsWhileWaiting == ~mon.wait => Monitor!classify # "waiting_for_cipe"
<1>1. \A i : Monitor!classifyFix(i) # "waiting_for_cipe"
  BY DEF Monitor!classifyFix
<1>2. Monitor!classifyInfo(ci.info) # "waiting_for_cipe"
  BY <1>1 DEF Monitor!classifyInfo
<1> QED
  BY <1>2 DEF Monitor!classify

\* What was seen in lower case and is seen again is no change.
LEMMA SeenAgainIsNoChange ==
  ASSUME Monitor!Seen = mon.prev, Monitor!Lower(mon.prev.fc) = mon.prev.fc
  PROVE  ~Monitor!hasStateChanged
<1> DEFINE seen == Monitor!Seen
           now == [seen EXCEPT !.fc = Monitor!Lower(@)]
<1>1. seen = [f \in DOMAIN seen |-> seen[f]]
  BY DEF Monitor!Seen, Monitor!NoStatuses
<1> HIDE DEF seen
<1>2. DOMAIN now = DOMAIN seen /\ \A f \in DOMAIN seen : now[f] = seen[f]
  BY <1>1 DEF seen
<1> QED
  BY <1>2 DEF Monitor!hasStateChanged, seen

\* A poll: what it finds it hands on before the timeout, and it delays the next
\* one by what the breaker allows.
LEMMA PollKeepsMonitorInv ==
  ASSUME MonitorInv, Monitor!Poll
  PROVE  MonitorInv'
<1> DEFINE c == Monitor!classify
           count == Monitor!noProgressCount
           last == Monitor!backoff(NoProgressCap)
<1>1. /\ phase = "poll" /\ code' = c
      /\ phase' = IF c \in Monitor!PollCodes \union {"waiting_for_cipe"} THEN "poll" ELSE "handle"
      /\ elapsed' = Monitor!Min({elapsed + Monitor!Delay(c), Monitor!Horizon})
      /\ stale' = IF mon.wait \/ Monitor!Seen # mon.prev \/ phase' # "poll" THEN 0
                  ELSE Monitor!Min({stale + 1, NoProgressCap + 1})
      /\ UNCHANGED <<ci, head, due, unparsed, actions>>
  BY DEF Monitor!Poll
<1>2. /\ AttemptInv /\ BudgetInv /\ TimeInv /\ BreakerInv
      /\ DOMAIN mon = Fields
  BY DEF MonitorInv, BudgetInv
<1>3. /\ DOMAIN mon' = Fields
      /\ mon'.wait = (mon.wait /\ c # "new_cipe_detected")
      /\ mon'.noProgress = IF c \in Monitor!resetProgressCodes THEN 0 ELSE count
      /\ mon'.envReruns = IF c = "new_cipe_detected" THEN 0 ELSE mon.envReruns
      /\ mon'.local = IF c = "new_cipe_detected" THEN 0 ELSE mon.local
      /\ mon'.cycles = mon.cycles /\ mon'.agent = mon.agent
      /\ mon'.lastUrl = mon.lastUrl /\ mon'.sha = mon.sha
      /\ mon'.prev = Monitor!Seen
  BY <1>2 DEF Monitor!Poll, Fields
<1>4. /\ count \in Nat
      /\ mon.wait => \/ c = "new_cipe_detected"
                     \/ c = "polling_timeout"
                     \/ c \in {"no_new_cipe", "waiting_for_cipe"} /\ elapsed < TimeoutUnits
      /\ ~mon.wait => \/ c = "polling_timeout"
                      \/ c = "circuit_breaker"
                      \/ elapsed < TimeoutUnits /\ count < NoProgressCap
  BY Verdicts
<1>5. /\ Monitor!Delay(c) \in Nat
      /\ c \notin Monitor!PollCodes \union {"waiting_for_cipe"} => Monitor!Delay(c) = 0
      /\ c = "waiting_for_cipe" => Monitor!Delay(c) = 1
      /\ c = "new_cipe_detected" => Monitor!Delay(c) = 2
      /\ c \in Monitor!PollCodes => 2 <= Monitor!Delay(c) /\ Monitor!Delay(c) <= 6
      /\ ~mon.wait /\ c \notin {"polling_timeout", "circuit_breaker"} => Monitor!Delay(c) <= last
      /\ last \in Nat /\ 3 <= last
  BY Delays, LastDelay
<1>6. /\ "new_cipe_detected" \in Monitor!PollCodes
      /\ {"polling_timeout", "circuit_breaker", "no_new_cipe", "waiting_for_cipe"}
            \intersect Monitor!PollCodes = {}
      /\ Monitor!resetProgressCodes \intersect (Monitor!PollCodes \union {"waiting_for_cipe"}) = {}
      /\ Monitor!Flow("polling_timeout") = {} /\ Monitor!Flow("circuit_breaker") = {}
  BY DEF Monitor!PollCodes, Monitor!resetProgressCodes, Monitor!Flow
<1>7. /\ elapsed \in Nat /\ unparsed \in Nat /\ unparsed <= MaxUnparsed
      /\ mon.wait => elapsed < TimeoutUnits + 1 + Unread
      /\ elapsed < TimeoutUnits + last + Unread
  BY <1>1, <1>2 DEF TimeInv, Monitor!StopsAtTimeout, Unread
<1>8. Unread \in Nat /\ Unread' = Unread
  BY <1>1, <1>7, MonitorBounds DEF Unread
<1> HIDE DEF c, count, last
<1>9. elapsed' \in Nat /\ elapsed' <= elapsed + Monitor!Delay(c)
  BY <1>1, <1>5, <1>7, LessOfTwo, MonitorBounds
<1>10. AttemptInv'
  BY <1>1, <1>2 DEF AttemptInv
<1>11. BudgetInv'
  <2>1. mon'.envReruns \in Nat /\ mon'.envReruns <= EnvRerunCap
    BY <1>2, <1>3, MonitorBounds DEF BudgetInv
  <2>2. mon'.local \in Nat /\ mon'.local <= LocalAttempts
    BY <1>2, <1>3, MonitorBounds DEF BudgetInv
  <2>3. mon'.noProgress \in Nat
    BY <1>3, <1>4
  <2>4. mon'.wait \in BOOLEAN /\ (mon'.wait => mon.wait)
    BY <1>2, <1>3 DEF BudgetInv
  <2>5. UnderWay' = UnderWay
    BY <1>3 DEF UnderWay
  <2> QED
    BY <1>1, <1>2, <1>3, <2>1, <2>2, <2>3, <2>4, <2>5 DEF BudgetInv
<1>12. TimeInv'
  <2>1. phase' = "handle" /\ Monitor!Flow(c) # {} => elapsed' < TimeoutUnits + Unread
    <3> SUFFICES ASSUME phase' = "handle", Monitor!Flow(c) # {} PROVE elapsed' < TimeoutUnits + Unread
      OBVIOUS
    <3>1. c \notin Monitor!PollCodes \union {"waiting_for_cipe"} /\ Monitor!Delay(c) = 0
      BY <1>1, <1>5
    <3>2. elapsed < TimeoutUnits
      BY <1>4, <1>6, <3>1
    <3> QED
      BY <1>7, <1>8, <1>9, <3>1, <3>2, MonitorBounds
  <2>2. mon'.wait => elapsed' < TimeoutUnits + 1 + Unread
    <3> SUFFICES ASSUME mon.wait, c # "new_cipe_detected" PROVE elapsed' < TimeoutUnits + 1 + Unread
      BY <1>3
    <3>1. CASE c = "waiting_for_cipe"
      BY <1>4, <1>5, <1>7, <1>8, <1>9, <3>1, MonitorBounds
    <3>2. CASE c # "waiting_for_cipe"
      <4>1. Monitor!Delay(c) = 0
        BY <1>4, <1>5, <1>6, <3>2
      <4> QED
        BY <1>7, <1>8, <1>9, <4>1, MonitorBounds
    <3> QED
      BY <3>1, <3>2
  <2>3. elapsed' < TimeoutUnits + last + Unread
    <3>1. CASE mon.wait /\ c = "new_cipe_detected"
      BY <1>5, <1>7, <1>8, <1>9, <3>1, MonitorBounds
    <3>2. CASE mon.wait /\ c # "new_cipe_detected"
      <4>1. elapsed' < TimeoutUnits + 1 + Unread
        BY <1>3, <2>2, <3>2
      <4> QED
        BY <1>5, <1>8, <1>9, <4>1, MonitorBounds
    <3>3. CASE ~mon.wait /\ c \in {"polling_timeout", "circuit_breaker"}
      <4>1. Monitor!Delay(c) = 0
        BY <1>5, <1>6, <3>3
      <4> QED
        BY <1>5, <1>7, <1>8, <1>9, <4>1, MonitorBounds
    <3>4. CASE ~mon.wait /\ c \notin {"polling_timeout", "circuit_breaker"}
      <4>1. elapsed < TimeoutUnits /\ Monitor!Delay(c) <= last
        BY <1>4, <1>5, <3>4
      <4> QED
        BY <1>5, <1>7, <1>8, <1>9, <4>1, MonitorBounds
    <3> QED
      BY <3>1, <3>2, <3>3, <3>4
  <2>4. Monitor!StopsAtTimeout'
    BY <1>1, <1>8, <2>3 DEF Monitor!StopsAtTimeout, Unread, last
  <2> QED
    BY <1>1, <1>7, <1>8, <1>9, <2>1, <2>2, <2>4 DEF TimeInv
<1>13. BreakerInv'
  <2>1. stale \in Nat /\ stale' \in Nat
    BY <1>1, <1>2, LessOfTwo, MonitorBounds DEF BreakerInv
  <2>2. stale' # 0 => /\ ~mon.wait /\ Monitor!Seen = mon.prev /\ phase' = "poll"
                      /\ stale' <= stale + 1 /\ c \in Monitor!PollCodes
    <3> SUFFICES ASSUME stale' # 0 PROVE /\ ~mon.wait /\ Monitor!Seen = mon.prev /\ phase' = "poll"
                                         /\ stale' <= stale + 1 /\ c \in Monitor!PollCodes
      OBVIOUS
    <3>1. ~mon.wait /\ Monitor!Seen = mon.prev /\ phase' = "poll"
      BY <1>1
    <3>2. stale' <= stale + 1
      BY <1>1, <2>1, LessOfTwo, MonitorBounds
    <3>3. c # "waiting_for_cipe"
      BY <3>1, WaitsWhileWaiting DEF c
    <3> QED
      BY <1>1, <3>1, <3>2, <3>3
  <2>3. Monitor!StandstillSpendsTimeout'
    <3>1. CASE stale' = 0
      BY <1>9, <3>1 DEF Monitor!StandstillSpendsTimeout
    <3>2. CASE stale' # 0
      <4>1. elapsed < TimeoutUnits /\ 2 <= Monitor!Delay(c) /\ Monitor!Delay(c) <= 6
        BY <1>4, <1>5, <1>6, <2>2, <3>2
      <4>2. elapsed + Monitor!Delay(c) <= Monitor!Horizon
        BY <1>5, <1>7, <4>1, MonitorBounds DEF Monitor!Horizon
      <4>3. elapsed' = elapsed + Monitor!Delay(c)
        BY <1>1, <1>5, <1>7, <4>2, LessOfTwo, MonitorBounds
      <4>4. 2 * stale <= elapsed
        BY <1>2 DEF BreakerInv, Monitor!StandstillSpendsTimeout
      <4>5. 2 * stale' <= elapsed'
        BY <1>5, <1>7, <2>1, <2>2, <3>2, <4>1, <4>3, <4>4
      <4> QED
        BY <4>5 DEF Monitor!StandstillSpendsTimeout
    <3> QED
      BY <3>1, <3>2
  <2>4. ASSUME ~Monitor!BreakerBypassed', stale' # 0
        PROVE  stale' <= mon'.noProgress /\ stale' < NoProgressCap
    <3>1. ~Monitor!BreakerBypassed /\ Monitor!Lower(mon.prev.fc) = mon.prev.fc
      BY <1>3, <2>2, <2>4 DEF Monitor!BreakerBypassed, Monitor!Lower
    <3>2. ~Monitor!isNewCipe
      BY <3>1 DEF Monitor!BreakerBypassed, Monitor!isNewCipe
    <3>3. ~Monitor!hasStateChanged
      BY <2>2, <2>4, <3>1, SeenAgainIsNoChange
    <3>4. count = mon.noProgress + 1
      BY <2>2, <2>4, <3>2, <3>3 DEF Monitor!noProgressCount, count
    <3>5. c \notin Monitor!resetProgressCodes /\ c \notin {"polling_timeout", "circuit_breaker"}
      BY <1>6, <2>2, <2>4
    <3>6. mon'.noProgress = count /\ count < NoProgressCap
      BY <1>3, <1>4, <2>2, <2>4, <3>5
    <3>7. stale <= mon.noProgress /\ mon.noProgress \in Nat
      BY <1>2, <3>1 DEF BreakerInv, BudgetInv
    <3> QED
      BY <1>4, <2>1, <2>2, <2>4, <3>4, <3>6, <3>7, MonitorBounds
  <2>5. stale' = 0 => stale' <= mon'.noProgress /\ stale' < NoProgressCap
    BY <1>3, <1>4, MonitorBounds
  <2> QED
    BY <2>1, <2>3, <2>4, <2>5 DEF BreakerInv
<1> QED
  BY <1>10, <1>11, <1>12, <1>13 DEF MonitorInv

\* An action starts an attempt within the cycles, and the monitor waits for it.
LEMMA ActKeepsMonitorInv ==
  ASSUME MonitorInv, NEW action \in Monitor!CipeUrlActions \union Monitor!CommitShaActions,
         Monitor!Act(action)
  PROVE  MonitorInv'
<1> DEFINE check == Monitor!cycleCheck(code)
           push == action \in Monitor!CommitShaActions
           auto == action = "fix-auto-applying"
<1>1. /\ phase = "handle" /\ phase' = "poll"
      /\ ~check.limitReached /\ action \in Monitor!Flow(code)
      /\ Monitor!Allowed(action, check.envReruns)
      /\ ci.url < MaxAttempts
      /\ head' = (IF push THEN head + 1 ELSE head) /\ due' = head'
      /\ actions' = IF auto THEN actions ELSE actions + 1
      /\ UNCHANGED <<ci, code, elapsed, unparsed, stale>>
  BY DEF Monitor!Act
<1>2. /\ AttemptInv /\ BudgetInv /\ TimeInv /\ BreakerInv
      /\ DOMAIN mon = Fields
  BY DEF MonitorInv, BudgetInv
<1>3. /\ check.cycles = mon.cycles + UnderWay
      /\ check.envReruns \in {mon.envReruns, 0}
      /\ check.limitReached = (mon.cycles + UnderWay >= MaxCycles)
  <2>1. mon.cycles \in Nat
    BY <1>2 DEF BudgetInv
  <2>2. (IF mon.agent THEN mon.cycles + 1 ELSE mon.cycles) = mon.cycles + UnderWay
    BY <2>1 DEF UnderWay
  <2> QED
    BY <2>2 DEF Monitor!cycleCheck
<1>4. /\ DOMAIN mon' = Fields
      /\ mon'.wait = TRUE /\ mon'.agent = (action # "fix-auto-applying")
      /\ mon'.noProgress = mon.noProgress
      /\ mon'.cycles = check.cycles
      /\ mon'.envReruns = IF action = "env-rerun" THEN check.envReruns + 1 ELSE check.envReruns
      /\ mon'.local = IF action \in {"reject-fix-push", "local-fix-push"} THEN mon.local + 1 ELSE mon.local
      /\ mon'.lastUrl = IF action \in Monitor!CipeUrlActions THEN ci.url ELSE Monitor!Unset
      /\ mon'.sha = IF push THEN head' ELSE Monitor!Unset
  BY <1>2 DEF Monitor!Act, Monitor!postAction, Fields
<1> HIDE DEF check
<1>5. AttemptInv'
  BY <1>1, <1>2, MonitorBounds DEF AttemptInv
<1>6. /\ mon.cycles \in Nat /\ actions \in Nat /\ actions = mon.cycles + UnderWay
      /\ mon.cycles + UnderWay < MaxCycles
      /\ UnderWay' = IF auto THEN 0 ELSE 1
  <2>1. mon.cycles \in Nat /\ actions \in Nat /\ actions = mon.cycles + UnderWay
    BY <1>2 DEF BudgetInv
  <2>2. UnderWay' = IF auto THEN 0 ELSE 1
    BY <1>4 DEF UnderWay
  <2>3. UnderWay \in {0, 1} /\ ~(mon.cycles + UnderWay >= MaxCycles)
    BY <1>1, <1>3 DEF UnderWay
  <2> QED
    BY <2>1, <2>2, <2>3, MonitorBounds
<1>7. mon'.envReruns \in Nat /\ mon'.envReruns <= EnvRerunCap
  BY <1>1, <1>2, <1>3, <1>4, MonitorBounds DEF BudgetInv, Monitor!Allowed, Monitor!gateEnvRerun
<1>8. mon'.local \in Nat /\ mon'.local <= LocalAttempts
  BY <1>1, <1>2, <1>4, MonitorBounds DEF BudgetInv, Monitor!Allowed, Monitor!gateLocalFix
<1>9. (mon'.lastUrl = Monitor!Unset) # (mon'.sha = Monitor!Unset)
  <2>1. (action \in Monitor!CipeUrlActions) # push
    BY DEF Monitor!CipeUrlActions, Monitor!CommitShaActions
  <2>2. ci.url # Monitor!Unset /\ head' # Monitor!Unset
    BY <1>2, <1>5, MonitorBounds DEF AttemptInv
  <2> QED
    BY <1>4, <2>1, <2>2
<1>10. BudgetInv'
  <2>1. mon'.noProgress \in Nat
    BY <1>2, <1>4 DEF BudgetInv
  <2>2. /\ mon'.cycles \in Nat /\ actions' \in Nat /\ actions' = mon'.cycles + UnderWay'
        /\ actions' <= MaxCycles
    BY <1>1, <1>3, <1>4, <1>6, MonitorBounds
  <2> QED
    BY <1>4, <1>7, <1>8, <1>9, <2>1, <2>2 DEF BudgetInv
<1>11. TimeInv'
  <2>1. elapsed < TimeoutUnits + Unread /\ elapsed \in Nat /\ unparsed \in Nat /\ unparsed <= MaxUnparsed
    BY <1>1, <1>2 DEF TimeInv
  <2>2. Unread \in Nat /\ Unread' = Unread
    BY <1>1, <2>1, MonitorBounds DEF Unread
  <2>3. Monitor!StopsAtTimeout'
    BY <1>1, <1>2 DEF TimeInv, Monitor!StopsAtTimeout
  <2> QED
    BY <1>1, <2>1, <2>2, <2>3, MonitorBounds DEF TimeInv
<1>12. BreakerInv'
  <2>1. Monitor!BreakerBypassed'
    BY <1>9 DEF Monitor!BreakerBypassed
  <2>2. stale' \in Nat /\ Monitor!StandstillSpendsTimeout'
    BY <1>1, <1>2 DEF BreakerInv, Monitor!StandstillSpendsTimeout
  <2> QED
    BY <2>1, <2>2 DEF BreakerInv
<1> QED
  BY <1>5, <1>10, <1>11, <1>12 DEF MonitorInv

\* An answer that does not parse ends the cycle under way and counts as time.
LEMMA UnparsedKeepsMonitorInv ==
  ASSUME MonitorInv, Monitor!PollUnparsed
  PROVE  MonitorInv'
<1> DEFINE check == Monitor!cycleCheck("error")
           last == Monitor!backoff(NoProgressCap)
<1>1. /\ phase = "poll" /\ unparsed > 0 /\ unparsed' = unparsed - 1
      /\ phase' = IF check.limitReached THEN "stopped" ELSE "poll"
      /\ elapsed' = Monitor!Min({elapsed + 2, Monitor!Horizon})
      /\ stale' = 0
      /\ UNCHANGED <<ci, head, due, actions, reruns>>
  BY DEF Monitor!PollUnparsed
<1>2. /\ AttemptInv /\ BudgetInv /\ TimeInv /\ BreakerInv
      /\ DOMAIN mon = Fields
  BY DEF MonitorInv, BudgetInv
<1>3. /\ check.cycles = mon.cycles + UnderWay
      /\ check.envReruns = 0
  <2>1. mon.cycles \in Nat
    BY <1>2 DEF BudgetInv
  <2>2. (IF mon.agent THEN mon.cycles + 1 ELSE mon.cycles) = mon.cycles + UnderWay
    BY <2>1 DEF UnderWay
  <2> QED
    BY <2>2 DEF Monitor!cycleCheck
<1>4. /\ DOMAIN mon' = Fields
      /\ mon'.wait = mon.wait /\ mon'.agent = FALSE
      /\ mon'.noProgress = Monitor!Min({mon.noProgress + 1, NoProgressCap})
      /\ mon'.cycles = check.cycles
      /\ mon'.envReruns = check.envReruns
      /\ mon'.local = mon.local
      /\ mon'.lastUrl = mon.lastUrl /\ mon'.sha = mon.sha
  BY <1>2 DEF Monitor!PollUnparsed, Fields
<1> HIDE DEF check
<1>5. AttemptInv'
  BY <1>1, <1>2 DEF AttemptInv
<1>6. mon'.noProgress \in Nat
  <2>1. mon.noProgress \in Nat
    BY <1>2 DEF BudgetInv
  <2> QED
    BY <1>4, <2>1, LessOfTwo, MonitorBounds
<1>7. BudgetInv'
  <2>1. UnderWay \in {0, 1} /\ UnderWay' = 0
    BY <1>4 DEF UnderWay
  <2>2. mon'.cycles \in Nat /\ actions' = mon'.cycles + UnderWay'
    BY <1>1, <1>2, <1>3, <1>4, <2>1 DEF BudgetInv
  <2>3. /\ mon'.envReruns = 0 /\ mon'.envReruns \in Nat /\ mon'.envReruns <= EnvRerunCap
        /\ mon'.local \in Nat /\ mon'.local <= LocalAttempts
        /\ actions' \in Nat /\ actions' <= MaxCycles
    BY <1>1, <1>2, <1>3, <1>4, MonitorBounds DEF BudgetInv
  <2>4. /\ mon'.wait \in BOOLEAN /\ mon'.agent \in BOOLEAN
        /\ mon'.wait => (mon'.lastUrl = Monitor!Unset) # (mon'.sha = Monitor!Unset)
    BY <1>2, <1>4 DEF BudgetInv
  <2> QED
    BY <1>4, <1>6, <2>2, <2>3, <2>4 DEF BudgetInv
<1>8. TimeInv'
  <2>1. /\ elapsed \in Nat /\ unparsed \in Nat /\ unparsed <= MaxUnparsed
        /\ mon.wait => elapsed < TimeoutUnits + 1 + Unread
        /\ elapsed < TimeoutUnits + last + Unread
    BY <1>1, <1>2 DEF TimeInv, Monitor!StopsAtTimeout, Unread
  <2>2. /\ unparsed' \in Nat /\ unparsed' <= MaxUnparsed
        /\ Unread \in Nat /\ Unread' = Unread + 2
    BY <1>1, <2>1, MonitorBounds DEF Unread
  <2>3. elapsed' \in Nat /\ elapsed' <= elapsed + 2
    BY <1>1, <2>1, LessOfTwo, MonitorBounds
  <2>4. last \in Nat
    BY LastDelay
  <2> HIDE DEF last
  <2>5. elapsed' < TimeoutUnits + last + Unread'
    BY <2>1, <2>2, <2>3, <2>4, MonitorBounds
  <2>6. mon'.wait => elapsed' < TimeoutUnits + 1 + Unread'
    BY <1>4, <2>1, <2>2, <2>3, MonitorBounds
  <2>7. Monitor!StopsAtTimeout'
    BY <2>5 DEF Monitor!StopsAtTimeout, Unread, last
  <2>8. phase' # "handle" /\ phase' \in {"poll", "handle", "stopped"}
    BY <1>1
  <2> QED
    BY <2>2, <2>3, <2>6, <2>7, <2>8 DEF TimeInv
<1>9. BreakerInv'
  <2>1. elapsed' \in Nat
    BY <1>8 DEF TimeInv
  <2>2. Monitor!StandstillSpendsTimeout'
    BY <1>1, <2>1 DEF Monitor!StandstillSpendsTimeout
  <2> QED
    BY <1>1, <1>6, <2>2, MonitorBounds DEF BreakerInv
<1> QED
  BY <1>5, <1>7, <1>8, <1>9 DEF MonitorInv

\* The monitor stops, CI moves on, an attempt starts, or somebody pushes.
LEMMA OthersKeepMonitorInv ==
  ASSUME MonitorInv,
         Monitor!Stop \/ Monitor!CiProgress \/ Monitor!CiStarts \/ Monitor!HumanPush
  PROVE  MonitorInv'
<1>1. /\ AttemptInv /\ BudgetInv /\ TimeInv /\ BreakerInv
  BY DEF MonitorInv
<1>2. /\ UNCHANGED <<mon, code, elapsed, unparsed, stale, actions, reruns>>
      /\ phase' = phase \/ phase' = "stopped"
  BY DEF Monitor!Stop, Monitor!CiProgress, Monitor!CiStarts, Monitor!HumanPush
<1>3. BudgetInv' /\ BreakerInv'
  BY <1>1, <1>2 
  DEF BudgetInv, BreakerInv, UnderWay, Monitor!BreakerBypassed, Monitor!StandstillSpendsTimeout
<1>4. TimeInv'
  BY <1>1, <1>2 DEF TimeInv, Unread, Monitor!StopsAtTimeout
<1>5. AttemptInv'
  <2>1. CASE Monitor!Stop
    BY <1>1, <2>1 DEF Monitor!Stop, AttemptInv
  <2>2. CASE Monitor!CiProgress
    <3>1. PICK i \in CiInfo : ci' = [ci EXCEPT !.info = i]
      BY <2>2 DEF Monitor!CiProgress
    <3>2. ci' = [url |-> ci.url, sha |-> ci.sha, info |-> i]
      BY <1>1, <3>1 DEF AttemptInv
    <3>3. UNCHANGED <<head, due>>
      BY <2>2 DEF Monitor!CiProgress
    <3> QED
      BY <1>1, <3>2, <3>3 DEF AttemptInv
  <2>3. CASE Monitor!CiStarts
    <3>1. PICK i \in CiInfo : ci' = [url |-> ci.url + 1, sha |-> due, info |-> i]
      BY <2>3 DEF Monitor!CiStarts
    <3>2. due # Monitor!Unset /\ due' = Monitor!Unset /\ head' = head
      BY <2>3 DEF Monitor!CiStarts
    <3>3. ci.url + 1 \in Nat /\ 1 <= ci.url + 1 /\ ci.url + 1 <= MaxAttempts /\ 1 <= due /\ due \in Nat
      BY <1>1, <3>2, MonitorBounds DEF AttemptInv
    <3> QED
      BY <1>1, <3>1, <3>2, <3>3, MonitorBounds DEF AttemptInv
  <2>4. CASE Monitor!HumanPush
    BY <1>1, <2>4, MonitorBounds DEF Monitor!HumanPush, AttemptInv
  <2> QED
    BY <2>1, <2>2, <2>3, <2>4
<1> QED
  BY <1>3, <1>4, <1>5 DEF MonitorInv

\* Whatever step is taken.
LEMMA NextMonitorInv == MonitorInv /\ [Monitor!Next]_monitorVars => MonitorInv'
<1>1. MonitorInv /\ UNCHANGED monitorVars => MonitorInv'
  BY DEF monitorVars, MonitorInv, AttemptInv, BudgetInv, TimeInv, BreakerInv, UnderWay, Unread,
         Monitor!StopsAtTimeout, Monitor!BreakerBypassed, Monitor!StandstillSpendsTimeout
<1> QED
  BY <1>1, PollKeepsMonitorInv, ActKeepsMonitorInv, UnparsedKeepsMonitorInv, OthersKeepMonitorInv
  DEF Monitor!Next

\* The invariant says what the run checks.
LEMMA MonitorInvImplies ==
  MonitorInv => /\ Monitor!TypeOK /\ Monitor!ActionsWithinCycles
                /\ Monitor!StopsAtTimeout
                /\ Monitor!BreakerTripsUnlessBypassed /\ Monitor!StandstillSpendsTimeout
<1> SUFFICES ASSUME MonitorInv
             PROVE  /\ Monitor!TypeOK /\ Monitor!ActionsWithinCycles
                    /\ Monitor!StopsAtTimeout
                    /\ Monitor!BreakerTripsUnlessBypassed /\ Monitor!StandstillSpendsTimeout
  OBVIOUS
<1>1. mon.cycles \in 0 .. actions
  <2>1. UnderWay \in {0, 1}
    BY DEF UnderWay
  <2> QED
    BY <2>1 DEF MonitorInv, BudgetInv
<1>2. Monitor!TypeOK
  BY <1>1, MonitorBounds DEF MonitorInv, AttemptInv, BudgetInv, TimeInv, Monitor!TypeOK
<1>3. Monitor!ActionsWithinCycles
  BY DEF MonitorInv, BudgetInv, Monitor!ActionsWithinCycles
<1>4. Monitor!BreakerTripsUnlessBypassed
  BY MonitorBounds DEF MonitorInv, BreakerInv, Monitor!BreakerTripsUnlessBypassed
<1> QED
  BY <1>2, <1>3, <1>4 DEF MonitorInv, TimeInv, BreakerInv

-----------------------------------------------------------------------------
(* FolderRules: along a chain of located files of one root the folder stays  *)
(* the same, or becomes a shared one and then stays shared; along a chain of *)
(* slices the rank never grows.  A new file is compared with the last one.   *)

SameRoot(i, j) == \A k \in i .. j : path[k].root = path[i].root

StayInv ==
    Folders!AllLocated =>
        \A i, j \in DOMAIN path : i <= j /\ SameRoot(i, j) =>
            path[j].folder = path[i].folder \/ path[j].folder \in Folders!SharedFolder

FolderInv == Folders!TypeOK /\ StayInv /\ Folders!SlicesPointDown

\* A file's place has a root and a folder right under it.
LEMMA PlaceParts ==
  ASSUME NEW p \in Folders!Places
  PROVE  /\ p \in Folders!Place
         /\ p.root \in Folders!Layer \union {"api", "web", "admin"}
         /\ p.folder \in Folders!Folders(p.root)
  BY DEF Folders!Places, Folders!Place

\* Between two files of one root the rule lets a folder go only to itself or
\* to a shared one.
LEMMA AcceptedFolder ==
  ASSUME NEW p \in Folders!Places, NEW q \in Folders!Places,
         Folders!Located(p), Folders!Located(q), p.root = q.root,
         ~Folders!CrossContext(p, q)
  PROVE  q.folder = p.folder \/ q.folder \in Folders!SharedFolder
<1> SUFFICES ASSUME q.folder # p.folder, q.folder \notin Folders!SharedFolder PROVE FALSE
  OBVIOUS
<1>1. q.folder \notin Context /\ q.root # "api"
  BY DEF Folders!CrossContext
<1> QED
  BY <1>1 DEF Folders!Located

\* A file of a slice has one of the four ranks.
LEMMA Ranks ==
  ASSUME NEW p \in Folders!Places, Folders!HasSlice(p)
  PROVE  Folders!Rank(p) \in 1 .. 4
<1>1. p.folder \in {"shared", "features", "pages", "app"}
  BY PlaceParts DEF Folders!HasSlice, Folders!Folders
<1>2. \E i \in 1 .. 4 : Folders!Slice[i] = p.folder
  BY <1>1 DEF Folders!Slice
<1> QED
  BY <1>2 DEF Folders!Rank

\* A chain begins with one file.
LEMMA InitFolderInv == Folders!Init => FolderInv
<1> SUFFICES ASSUME Folders!Init PROVE FolderInv
  OBVIOUS
<1>1. PICK p \in Folders!Places : path = <<p>>
  BY DEF Folders!Init
<1>2. Len(path) = 1 /\ DOMAIN path = 1 .. 1 /\ path[1] = p /\ path \in Seq(Folders!Places)
  BY <1>1
<1>3. MaxHops \in Nat \ {0}
  BY RulesAssumption DEF Folders!FolderRulesAssumption
<1>4. \A i \in DOMAIN path : i = 1
  BY <1>2
<1>5. Folders!TypeOK
  BY <1>2, <1>3, <1>4 DEF Folders!TypeOK
<1>6. StayInv
  BY <1>4 DEF StayInv
<1>7. Folders!SlicesPointDown
  BY <1>4 DEF Folders!SlicesPointDown
<1> QED
  BY <1>5, <1>6, <1>7 DEF FolderInv

\* One more file.
LEMMA ImportKeepsFolderInv ==
  ASSUME FolderInv, Folders!Import
  PROVE  FolderInv'
<1> DEFINE n == Len(path)
           here == path[n]
<1>1. PICK q \in Folders!Places :
        /\ Folders!Project(q.root) = Folders!Project(here.root)
        /\ ~Folders!CrossContext(here, q) /\ ~Folders!Upward(here, q)
        /\ path' = Append(path, q)
  BY DEF Folders!Import
<1>2. /\ path \in Seq(Folders!Places) /\ n \in Nat /\ n >= 1 /\ n < MaxHops /\ MaxHops \in Nat
      /\ \A i \in DOMAIN path : Folders!Project(path[i].root) = Folders!Project(path[1].root)
  <2>1. MaxHops \in Nat
    BY RulesAssumption DEF Folders!FolderRulesAssumption
  <2> QED
    BY <2>1 DEF FolderInv, Folders!TypeOK, Folders!Import
<1>3. /\ path' \in Seq(Folders!Places) /\ Len(path') = n + 1
      /\ DOMAIN path = 1 .. n /\ DOMAIN path' = 1 .. (n + 1)
      /\ path'[n + 1] = q
      /\ \A i \in 1 .. n : path'[i] = path[i] /\ path[i] \in Folders!Places
  BY <1>1, <1>2
<1>4. n \in 1 .. n /\ here \in Folders!Places
  BY <1>2, <1>3
<1> HIDE DEF n
<1>5. Folders!TypeOK'
  <2>1. \A i \in 1 .. (n + 1) : Folders!Project(path'[i].root) = Folders!Project(path'[1].root)
    <3> TAKE i \in 1 .. (n + 1)
    <3>1. Folders!Project(here.root) = Folders!Project(path[1].root) /\ path'[1] = path[1]
      BY <1>2, <1>3, <1>4
    <3>2. CASE i = n + 1
      BY <1>1, <1>3, <3>1, <3>2
    <3>3. CASE i # n + 1
      <4>1. i \in 1 .. n
        BY <1>2, <3>3
      <4> QED
        BY <1>2, <1>3, <3>1, <4>1
    <3> QED
      BY <3>2, <3>3
  <2> QED
    BY <1>2, <1>3, <2>1 DEF Folders!TypeOK
<1>6. StayInv'
  <2> SUFFICES ASSUME Folders!AllLocated',
                      NEW i \in 1 .. (n + 1), NEW j \in 1 .. (n + 1), i <= j,
                      \A k \in i .. j : path'[k].root = path'[i].root
               PROVE  path'[j].folder = path'[i].folder \/ path'[j].folder \in Folders!SharedFolder
    BY <1>3 DEF StayInv, SameRoot
  <2>1. Folders!AllLocated /\ Folders!Located(q)
    <3>1. \A k \in 1 .. (n + 1) : Folders!Located(path'[k])
      BY <1>3 DEF Folders!AllLocated
    <3>2. \A k \in 1 .. n : k \in 1 .. (n + 1)
      BY <1>2
    <3>3. n + 1 \in 1 .. (n + 1)
      BY <1>2
    <3>4. \A k \in 1 .. n : Folders!Located(path[k])
      BY <1>3, <3>1, <3>2
    <3> QED
      BY <1>3, <3>1, <3>3, <3>4 DEF Folders!AllLocated
  <2>2. ASSUME NEW k \in 1 .. n, i \in 1 .. n, i <= k, k <= j
        PROVE  path[k].folder = path[i].folder \/ path[k].folder \in Folders!SharedFolder
    <3>1. \A l \in i .. k : path[l].root = path[i].root
      <4> TAKE l \in i .. k
      <4>1. l \in 1 .. n /\ l \in i .. j
        BY <1>2, <2>2
      <4> QED
        BY <1>3, <2>2, <4>1
    <3> QED
      BY <1>3, <2>1, <2>2, <3>1 DEF FolderInv, StayInv, SameRoot
  <2>3. CASE j \in 1 .. n
    <3>1. i \in 1 .. n
      BY <1>2, <2>3
    <3>2. path[j].folder = path[i].folder \/ path[j].folder \in Folders!SharedFolder
      BY <1>2, <2>2, <2>3, <3>1
    <3> QED
      BY <1>3, <2>3, <3>1, <3>2
  <2>4. CASE j = n + 1 /\ i = n + 1
    BY <2>4
  <2>5. CASE j = n + 1 /\ i \in 1 .. n
    <3>1. n \in i .. j /\ j \in i .. j
      BY <1>2, <2>5
    <3>2. here.root = q.root
      <4>1. path'[n].root = path'[i].root /\ path'[j].root = path'[i].root
        BY <3>1
      <4> QED
        BY <1>3, <1>4, <2>5, <4>1
    <3>3. here.folder = path[i].folder \/ here.folder \in Folders!SharedFolder
      BY <1>2, <1>4, <2>2, <2>5, <3>1
    <3>4. Folders!Located(here)
      BY <1>3, <1>4, <2>1 DEF Folders!AllLocated
    <3>5. q.folder = here.folder \/ q.folder \in Folders!SharedFolder
      BY <1>1, <1>4, <2>1, <3>2, <3>4, AcceptedFolder
    <3> QED
      BY <1>3, <2>5, <3>3, <3>5
  <2> QED
    BY <1>2, <2>3, <2>4, <2>5
<1>7. Folders!SlicesPointDown'
  <2> SUFFICES ASSUME Folders!AllInSlices',
                      NEW i \in 1 .. (n + 1), NEW j \in 1 .. (n + 1), i < j
               PROVE  Folders!Rank(path'[j]) <= Folders!Rank(path'[i])
    BY <1>3 DEF Folders!SlicesPointDown
  <2>1. Folders!AllInSlices /\ Folders!HasSlice(q)
    <3>1. \A k \in 1 .. (n + 1) : Folders!HasSlice(path'[k])
      BY <1>3 DEF Folders!AllInSlices
    <3>2. \A k \in 1 .. n : k \in 1 .. (n + 1)
      BY <1>2
    <3>3. n + 1 \in 1 .. (n + 1)
      BY <1>2
    <3>4. \A k \in 1 .. n : Folders!HasSlice(path[k])
      BY <1>3, <3>1, <3>2
    <3> QED
      BY <1>3, <3>1, <3>3, <3>4 DEF Folders!AllInSlices
  <2>2. i \in 1 .. n
    BY <1>2
  <2>3. CASE j \in 1 .. n
    BY <1>3, <2>1, <2>2, <2>3 DEF FolderInv, Folders!SlicesPointDown
  <2>4. CASE j = n + 1
    <3>1. \A k \in 1 .. n : Folders!Rank(path[k]) \in 1 .. 4 /\ Folders!HasSlice(path[k])
      BY <1>3, <2>1, Ranks DEF Folders!AllInSlices
    <3>2. Folders!Rank(q) \in 1 .. 4
      BY <2>1, Ranks
    <3>3. Folders!Rank(q) <= Folders!Rank(here)
      BY <1>1, <1>4, <2>1, <3>1, <3>2 DEF Folders!Upward
    <3>4. Folders!Rank(here) <= Folders!Rank(path[i])
      <4>1. CASE i = n
        BY <1>4, <3>1, <4>1
      <4>2. CASE i # n
        BY <1>2, <1>3, <1>4, <2>1, <2>2, <4>2 DEF FolderInv, Folders!SlicesPointDown
      <4> QED
        BY <4>1, <4>2
    <3>5. path'[i] = path[i] /\ path'[j] = q
      BY <1>3, <2>2, <2>4
    <3> QED
      BY <1>4, <2>2, <3>1, <3>2, <3>3, <3>4, <3>5
  <2> QED
    BY <1>2, <2>3, <2>4
<1> QED
  BY <1>5, <1>6, <1>7 DEF FolderInv

\* Whatever the step, a stutter included.
LEMMA FolderStepKeepsInv ==
  FolderInv /\ [Folders!Next]_path => FolderInv'
<1>1. FolderInv /\ UNCHANGED path => FolderInv'
  BY DEF FolderInv, StayInv, SameRoot, Folders!TypeOK, Folders!SlicesPointDown, Folders!AllLocated,
         Folders!AllInSlices
<1> QED
  BY <1>1, ImportKeepsFolderInv DEF Folders!Next

\* The invariant says what the run checks: no folder is both a context's or a
\* resource's and shared.
LEMMA FolderInvImplies ==
  FolderInv => /\ Folders!TypeOK /\ Folders!ContextsStayApart
               /\ Folders!SharedKnowsNoContext /\ Folders!SlicesPointDown
<1> SUFFICES ASSUME FolderInv PROVE Folders!ContextsStayApart /\ Folders!SharedKnowsNoContext
  BY DEF FolderInv
<1>1. \A p : Folders!Owner(p) => p.folder \notin Folders!SharedFolder
  BY RulesAssumption DEF Folders!FolderRulesAssumption, Folders!Owner
<1>2. Folders!ContextsStayApart
  <2> SUFFICES ASSUME Folders!AllLocated, NEW i \in DOMAIN path, NEW j \in DOMAIN path,
                      i < j, Folders!Owner(path[j]), SameRoot(i, j)
               PROVE  path[i].folder = path[j].folder
    BY DEF Folders!ContextsStayApart, SameRoot
  <2>1. i <= j
    BY DEF FolderInv, Folders!TypeOK
  <2> QED
    BY <1>1, <2>1 DEF FolderInv, StayInv
<1>3. Folders!SharedKnowsNoContext
  <2> SUFFICES ASSUME Folders!AllLocated, path[1].folder \in Folders!SharedFolder,
                      NEW j \in DOMAIN path, SameRoot(1, j)
               PROVE  ~Folders!Owner(path[j])
    BY DEF Folders!SharedKnowsNoContext, SameRoot
  <2>1. 1 \in DOMAIN path /\ 1 <= j
    BY DEF FolderInv, Folders!TypeOK
  <2>2. path[j].folder \in Folders!SharedFolder
    BY <2>1 DEF FolderInv, StayInv
  <2> QED
    BY <1>1, <2>2
<1> QED
  BY <1>2, <1>3

-----------------------------------------------------------------------------
(* FileRules: a file that parses has the shape TypeOK describes, and what    *)
(* the rules leave in it follows from the shape and from what they count.    *)

\* What a statement counts as, when it is one the rules see.
LEMMA KindsOfStatements ==
  ASSUME NEW s \in Files!Statement
  PROVE  /\ "function" \in Files!KindOf(s) <=> s.shape \in {"function", "arrow"}
         /\ "class" \in Files!KindOf(s) <=> s.shape \in {"class", "classExpr"}
         /\ s.shape = "type" /\ Files!Seen(s) => "type" \in Files!KindOf(s)
         /\ s.shape \in {"enum", "value"} /\ Files!Seen(s) => "constant" \in Files!KindOf(s)
         /\ "type" \in Files!KindOf(s) => s.shape = "type"
         /\ s.shape \in {"function", "arrow", "class", "classExpr", "type", "enum", "value", "pattern"}
         /\ s.default \in BOOLEAN
<1> DEFINE Shapes == {"function", "class", "arrow", "classExpr", "type", "enum", "value", "pattern"}
           Exported == Shapes \ {"enum", "pattern"}
<1>1. /\ s.shape \in Shapes /\ s.default \in BOOLEAN
      /\ s.shape = "enum" => ~s.default
  <2>1. CASE s \in [shape : Shapes, default : {FALSE}]
    BY <2>1
  <2>2. CASE s \in [shape : Exported, default : {TRUE}]
    BY <2>2
  <2>3. Exported = {"function", "class", "arrow", "classExpr", "type", "value"}
    OBVIOUS
  <2> QED
    BY <2>1, <2>2, <2>3 DEF Files!Statement
<1>2. CASE s.shape \in {"function", "arrow"}
  BY <1>1, <1>2 DEF Files!KindOf, Files!Seen
<1>3. CASE s.shape \in {"class", "classExpr"}
  BY <1>1, <1>3 DEF Files!KindOf, Files!Seen
<1>4. CASE s.shape = "type"
  BY <1>1, <1>4 DEF Files!KindOf, Files!Seen
<1>5. CASE s.shape \in {"enum", "value"}
  BY <1>1, <1>5 DEF Files!KindOf, Files!Seen
<1>6. CASE s.shape = "pattern"
  BY <1>1, <1>6 DEF Files!KindOf, Files!Seen
<1> QED
  BY <1>1, <1>2, <1>3, <1>4, <1>5, <1>6

\* The cardinality the instance counts with is the library's.
LEMMA FilesCount ==
  ASSUME NEW S
  PROVE  Files!Cardinality(S) = Cardinality(S)
  BY DEF Files!Cardinality, Cardinality, Files!IsFiniteSet, IsFiniteSet

\* The statements of a kind are finitely many, so their count is a number.
LEMMA CountsAreNumbers ==
  ASSUME Files!TypeOK, NEW k
  PROVE  /\ IsFiniteSet(Files!OfKind(k))
         /\ Files!Count(k) \in Nat
         /\ Files!Count(k) = 0 <=> Files!OfKind(k) = {}
<1>1. DOMAIN body = 1 .. Len(body) /\ Len(body) \in Nat
  BY DEF Files!TypeOK
<1>2. IsFiniteSet(1 .. Len(body))
  BY <1>1, FS_Interval
<1>3. Files!OfKind(k) \in SUBSET (1 .. Len(body))
  BY <1>1 DEF Files!OfKind
<1>4. IsFiniteSet(Files!OfKind(k))
  BY <1>2, <1>3, FS_Subset
<1> QED
  BY <1>4, FilesCount, FS_CardinalityType, FS_EmptySet DEF Files!Count

\* A set counted as one element at most has one.
LEMMA CountedOnce ==
  ASSUME Files!TypeOK, NEW k, Files!Count(k) = 1
  PROVE  \E i : Files!OfKind(k) = {i}
  BY CountsAreNumbers, FilesCount, FS_Singleton DEF Files!Count

LEMMA InitFileShape ==
  Files!Init => Files!TypeOK
  BY RulesAssumption DEF Files!Init, Files!TypeOK, Files!FileRulesAssumption

\* A statement is added at the end, and a default export to a file with none.
LEMMA DeclareKeepsFileShape ==
  Files!TypeOK /\ [Files!Next]_fileVars => Files!TypeOK'
<1> SUFFICES ASSUME Files!TypeOK, [Files!Next]_fileVars PROVE Files!TypeOK'
  OBVIOUS
<1>1. CASE UNCHANGED fileVars
  BY <1>1 DEF Files!TypeOK, fileVars
<1>2. ASSUME NEW s \in Files!Statement, Files!Declare(s)
      PROVE  Files!TypeOK'
  <2>1. /\ body \in Seq(Files!Statement) /\ Len(body) \in Nat /\ DOMAIN body = 1 .. Len(body)
        /\ body' = Append(body, s) /\ kind' = kind
        /\ MaxStatements \in Nat /\ Len(body) < MaxStatements
    BY <1>2, RulesAssumption DEF Files!TypeOK, Files!Declare, Files!FileRulesAssumption
  <2>2. /\ body' \in Seq(Files!Statement) /\ Len(body') = Len(body) + 1
        /\ body'[Len(body) + 1] = s
        /\ \A i \in 1 .. Len(body) : body'[i] = body[i]
        /\ DOMAIN body' = 1 .. (Len(body) + 1)
    BY <2>1
  <2>3. ASSUME NEW i \in DOMAIN body', NEW j \in DOMAIN body', body'[i].default, body'[j].default
        PROVE  i = j
    <3>1. s.default => \A l \in DOMAIN body : ~body[l].default
      BY <1>2 DEF Files!Declare
    <3>2. \A l, m \in DOMAIN body : (body[l].default /\ body[m].default) => l = m
      BY DEF Files!TypeOK
    <3>3. CASE s.default
      <4>1. \A l \in 1 .. Len(body) : ~body'[l].default
        BY <2>1, <2>2, <3>1, <3>3
      <4> QED
        BY <2>1, <2>2, <2>3, <4>1
    <3>4. CASE ~s.default
      <4>1. i \in DOMAIN body /\ j \in DOMAIN body
        BY <2>1, <2>2, <2>3, <3>4
      <4> QED
        BY <2>1, <2>2, <2>3, <3>2, <4>1
    <3> QED
      BY <3>3, <3>4
  <2>4. kind' \in {"source", "component", "spec"} /\ Len(body') <= MaxStatements
    BY <2>1, <2>2 DEF Files!TypeOK
  <2> QED
    BY <2>2, <2>3, <2>4 DEF Files!TypeOK
<1> QED
  BY <1>1, <1>2 DEF Files!Next

\* The runtime statements are those counted as functions or as classes.
LEMMA RuntimesAreCounted ==
  ASSUME Files!TypeOK
  PROVE  Files!Runtimes = Files!OfKind("function") \union Files!OfKind("class")
<1>1. \A i \in DOMAIN body : body[i] \in Files!Statement
  BY DEF Files!TypeOK
<1> QED
  BY <1>1, KindsOfStatements DEF Files!Runtimes, Files!OfKind

\* The three rules leave a file at most one function or class: were there two,
\* they were of one kind, which is counted, or of both, which is a mix.
LEMMA OneRuntimeRemains ==
  Files!TypeOK => Files!OneRuntimePerFile
<1> SUFFICES ASSUME Files!TypeOK, ~Files!Relaxed, ~Files!Refused
             PROVE  Files!Cardinality(Files!Runtimes) <= 1
  BY DEF Files!OneRuntimePerFile
<1>1. /\ Files!Count("function") \in Nat /\ Files!Count("class") \in Nat
      /\ Files!Count("function") = 0 <=> Files!OfKind("function") = {}
      /\ Files!Count("class") = 0 <=> Files!OfKind("class") = {}
  BY CountsAreNumbers
<1>2. /\ ~(Files!Count("function") > 1) /\ ~(Files!Count("class") > 1)
      /\ ~(Files!Count("function") > 0 /\ Files!Count("class") > 0)
  BY DEF Files!Refused, Files!TooManyFunctions, Files!TooManyClasses, Files!Mixed
<1>3. CASE Files!OfKind("class") = {}
  <2>1. Files!Runtimes = Files!OfKind("function")
    BY <1>3, RuntimesAreCounted
  <2> QED
    BY <1>1, <1>2, <2>1 DEF Files!Count
<1>4. CASE Files!OfKind("function") = {}
  <2>1. Files!Runtimes = Files!OfKind("class")
    BY <1>4, RuntimesAreCounted
  <2> QED
    BY <1>1, <1>2, <2>1 DEF Files!Count
<1> QED
  BY <1>1, <1>2, <1>3, <1>4

\* Next to runtime code the rules leave the one type of a component, and then
\* the file is those two statements.
LEMMA OnlyComponentsKeepTypes ==
  Files!TypeOK => Files!OnlyComponentsMix
<1> DEFINE F == Files!OfKind("function")
           C == Files!OfKind("class")
           T == Files!OfKind("type")
           K == Files!OfKind("constant")
<1> SUFFICES ASSUME Files!TypeOK, ~Files!Relaxed, ~Files!Refused, Files!Runtimes # {},
                    \A i \in DOMAIN body : Files!Seen(body[i]), Files!Declarations # {}
             PROVE  /\ kind = "component" /\ Len(body) = 2
                    /\ {body[1].shape, body[2].shape} \in {{"type", "function"}, {"type", "arrow"}}
  BY DEF Files!OnlyComponentsMix
<1>1. /\ DOMAIN body = 1 .. Len(body) /\ Len(body) \in Nat
      /\ \A i \in DOMAIN body : body[i] \in Files!Statement
  BY DEF Files!TypeOK
<1>2. \A i \in DOMAIN body : i \in F \/ i \in C \/ i \in T \/ i \in K
  BY <1>1, KindsOfStatements DEF Files!OfKind, Files!Seen
<1>3. F \union C # {}
  BY RuntimesAreCounted
<1>4. T \union K # {}
  <2>1. PICK d \in DOMAIN body : body[d].shape \in {"type", "enum", "value", "pattern"}
    BY DEF Files!Declarations
  <2>2. d \in T \/ d \in K
    BY <1>1, <2>1, KindsOfStatements DEF Files!OfKind, Files!Seen
  <2> QED
    BY <2>2
<1>5. /\ Files!Count("function") \in Nat /\ Files!Count("class") \in Nat
      /\ Files!Count("type") \in Nat /\ Files!Count("constant") \in Nat
      /\ Files!Count("function") = 0 <=> F = {}
      /\ Files!Count("class") = 0 <=> C = {}
      /\ Files!Count("type") = 0 <=> T = {}
      /\ Files!Count("constant") = 0 <=> K = {}
  BY CountsAreNumbers
<1>6. /\ Files!Count("function") + Files!Count("class") > 0
      /\ Files!Count("type") + Files!Count("constant") > 0
  <2> HIDE DEF F, C, T, K
  <2> QED
    BY <1>3, <1>4, <1>5
<1>7. /\ kind = "component"
      /\ Files!Count("function") = 1 /\ Files!Count("class") = 0
      /\ Files!Count("type") = 1 /\ Files!Count("constant") = 0
  BY <1>6 DEF Files!Refused, Files!Mixed
<1>8. PICK a : F = {a}
  BY <1>7, CountedOnce
<1>9. PICK b : T = {b}
  BY <1>7, CountedOnce
<1>10. C = {} /\ K = {}
  BY <1>5, <1>7
<1>11. /\ a \in DOMAIN body /\ b \in DOMAIN body
       /\ body[a].shape \in {"function", "arrow"} /\ body[b].shape = "type"
  <2>1. a \in F /\ b \in T
    BY <1>8, <1>9
  <2>2. /\ a \in DOMAIN body /\ "function" \in Files!KindOf(body[a])
        /\ b \in DOMAIN body /\ "type" \in Files!KindOf(body[b])
    BY <2>1 DEF Files!OfKind
  <2> QED
    BY <1>1, <2>2, KindsOfStatements
<1>12. \A i \in 1 .. Len(body) : i = a \/ i = b
  <2> HIDE DEF F, C, T, K
  <2> QED
    BY <1>1, <1>2, <1>8, <1>9, <1>10
<1>13. a # b
  BY <1>11
<1>14. Len(body) = 2 /\ ((a = 1 /\ b = 2) \/ (a = 2 /\ b = 1))
  <2>1. a \in 1 .. Len(body) /\ b \in 1 .. Len(body)
    BY <1>1, <1>11
  <2>2. Len(body) < 3
    <3> SUFFICES ASSUME Len(body) >= 3 PROVE FALSE
      BY <1>1
    <3>1. 1 \in 1 .. Len(body) /\ 2 \in 1 .. Len(body) /\ 3 \in 1 .. Len(body)
      BY <1>1
    <3> QED
      BY <1>12, <3>1
  <2> QED
    BY <1>1, <1>13, <2>1, <2>2
<1>15. {body[1].shape, body[2].shape} = {body[a].shape, body[b].shape}
  BY <1>14
<1> QED
  BY <1>7, <1>11, <1>14, <1>15

-----------------------------------------------------------------------------
(* ImportRules: one table says what an accepted import may name.  The layers *)
(* it respects have levels that fall along a chain outside the shared        *)
(* packages, and three sets of projects are closed under it: the shared      *)
(* packages, the inner layers with them, and what an app may touch without   *)
(* the wiring.                                                               *)

\* The inner layers and what they share.
Inner == Imports!Shared \union {"domain", "application", "platform"}

\* What an app may touch short of composition.
Quiet == Inner \union Imports!Apps
         \union {"nest-http", "logger", "telemetry", "ui-kit", "frontend-core"}

Wiring == "composition"

Level(p) ==
    CASE p \in Imports!Shared -> 0
      [] p \in {"domain", "platform", "ui-kit", "frontend-core", "web-e2e"} -> 1
      [] p \in {"application", "nest-http"} -> 2
      [] p \in {"node", "security"} -> 3
      [] p \in Imports!Adapters \ {"node", "security"} -> 4
      [] p = Wiring -> 5
      [] OTHER -> 6

\* The allowance of the specs of postgres.
SpecOfPostgres(p, f, q) == p = "postgres" /\ f = "spec" /\ q \in {"node", "security"}

LEMMA ConstraintMet ==
  ASSUME NEW p, NEW q, NEW tag, NEW libs, Imports!Only(tag, libs) \in Imports!DepConstraints,
         tag \in Imports!Tags(p), Imports!MeetsConstraints(p, q)
  PROVE  Imports!Tags(q) \intersect libs # {}
<1>1. Imports!Only(tag, libs).sourceTag = tag /\ Imports!Only(tag, libs).libs = libs
  BY DEF Imports!Only
<1> QED
  BY <1>1 DEF Imports!MeetsConstraints

\* The tags of every project.
LEMMA TagsOfProjects ==
  ASSUME NEW p \in Imports!Project
  PROVE  /\ p \in Imports!Shared => Imports!Tags(p) = {"scope:shared", p}
         /\ p \in Imports!Adapters \ {"logger", "telemetry"} =>
                Imports!Tags(p) = {"scope:backend", "infrastructure"}
         /\ p \in {"logger", "telemetry"} => Imports!Tags(p) = {"scope:backend", "infrastructure", p}
         /\ p \in {"domain", "application", "platform", "nest-http", "composition"} =>
                Imports!Tags(p) = {"scope:backend", p}
         /\ p \in {"api", "worker"} => Imports!Tags(p) = {"scope:backend", "app"}
         /\ p \in {"web", "admin", "desktop", "mobile"} => Imports!Tags(p) = {"scope:frontend", "app"}
         /\ p = "ui-kit" => Imports!Tags(p) = {"scope:frontend", "ui"}
         /\ p = "frontend-core" => Imports!Tags(p) = {"scope:frontend", p}
         /\ p = "web-e2e" => Imports!Tags(p) = {"scope:frontend", "e2e"}
<1>1. CASE p \in Imports!Shared
  BY <1>1 DEF Imports!Tags, Imports!ScopeTag, Imports!LayerTags, Imports!Shared, Imports!Backend,
              Imports!Adapters, Imports!Apps
<1>2. CASE p \in Imports!Adapters
  <2>1. Imports!ScopeTag(p) = "scope:backend" /\ p \notin Imports!Shared \union Imports!Apps
    BY <1>2 DEF Imports!ScopeTag, Imports!Shared, Imports!Backend, Imports!Adapters, Imports!Apps
  <2>2. Imports!LayerTags(p) =
            IF p \in {"logger", "telemetry"} THEN {"infrastructure", p} ELSE {"infrastructure"}
    BY <1>2, <2>1 DEF Imports!LayerTags, Imports!Adapters
  <2>3. Imports!Tags(p) =
            {"scope:backend", "infrastructure"} \union (IF p \in {"logger", "telemetry"} THEN {p} ELSE {})
    BY <2>1, <2>2 DEF Imports!Tags
  <2>4. p \notin {"domain", "application", "platform", "nest-http", "composition", "api", "worker",
                  "web", "admin", "desktop", "mobile", "ui-kit", "frontend-core", "web-e2e"}
    BY <1>2 DEF Imports!Adapters
  <2> QED
    BY <2>1, <2>3, <2>4
<1>3. CASE p \in {"domain", "application", "platform", "nest-http", "composition", "api", "worker"}
  BY <1>3 DEF Imports!Tags, Imports!ScopeTag, Imports!LayerTags, Imports!Shared, Imports!Backend,
              Imports!Adapters, Imports!Apps
<1>4. CASE p \in Imports!Frontend
  BY <1>4 DEF Imports!Tags, Imports!ScopeTag, Imports!LayerTags, Imports!Shared, Imports!Backend,
              Imports!Adapters, Imports!Apps, Imports!Frontend
<1> QED
  BY <1>1, <1>2, <1>3, <1>4 DEF Imports!Project, Imports!Backend

\* What the tags let a project import, whatever the kind of the file.
LEMMA TagsAllow ==
  ASSUME NEW p \in Imports!Project, NEW q \in Imports!Project, Imports!MeetsConstraints(p, q)
  PROVE  /\ p \in Imports!Shared => q \in Imports!Shared
         /\ p \in {"domain", "platform"} => q \in Imports!Shared
         /\ p = "application" => q \in Imports!Shared \union {"domain", "platform"}
         /\ p \in Imports!Adapters => q \in Inner
         /\ p = "nest-http" => q \in Imports!Shared \union {"platform"}
         /\ p = Wiring => q \in Inner \union Imports!Adapters
         /\ p \in {"ui-kit", "frontend-core", "web-e2e"} => q \in Imports!Shared
         /\ p \in Imports!Apps =>
                q \in Imports!Shared \union {Wiring, "nest-http", "logger", "telemetry", "platform",
                                             "ui-kit", "frontend-core"}
         /\ p \in Imports!Backend => q \in Imports!Backend \union Imports!Shared
         /\ p \in Imports!Frontend => q \in Imports!Frontend \union Imports!Shared
<1>1. ASSUME p \in Imports!Shared
      PROVE  q \in Imports!Shared
  <2>1. Imports!Only("scope:shared", {"scope:shared"}) \in Imports!DepConstraints
    BY DEF Imports!DepConstraints
  <2>2. "scope:shared" \in Imports!Tags(p)
    BY <1>1, TagsOfProjects
  <2>3. Imports!Tags(q) \intersect {"scope:shared"} # {}
    BY <2>1, <2>2, ConstraintMet
  <2> QED
    BY <2>3, TagsOfProjects
    DEF Imports!Project, Imports!Backend, Imports!Frontend, Imports!Adapters, Imports!Shared,
        Imports!Apps
<1>2. ASSUME p = "domain"
      PROVE  q \in Imports!Shared
  <2>1. Imports!Only("domain", {"shared-kernel-types"}) \in Imports!DepConstraints
    BY DEF Imports!DepConstraints
  <2>2. "domain" \in Imports!Tags(p)
    BY <1>2, TagsOfProjects
  <2>3. Imports!Tags(q) \intersect {"shared-kernel-types"} # {}
    BY <2>1, <2>2, ConstraintMet
  <2> QED
    BY <2>3, TagsOfProjects
    DEF Imports!Project, Imports!Backend, Imports!Frontend, Imports!Adapters, Imports!Shared,
        Imports!Apps
<1>3. ASSUME p = "platform"
      PROVE  q \in Imports!Shared
  <2>1. Imports!Only("platform", {"shared-kernel-types"}) \in Imports!DepConstraints
    BY DEF Imports!DepConstraints
  <2>2. "platform" \in Imports!Tags(p)
    BY <1>3, TagsOfProjects
  <2>3. Imports!Tags(q) \intersect {"shared-kernel-types"} # {}
    BY <2>1, <2>2, ConstraintMet
  <2> QED
    BY <2>3, TagsOfProjects
    DEF Imports!Project, Imports!Backend, Imports!Frontend, Imports!Adapters, Imports!Shared,
        Imports!Apps
<1>4. ASSUME p = "application"
      PROVE  q \in Imports!Shared \union {"domain", "platform"}
  <2>1. Imports!Only("application", {"domain", "platform", "shared-kernel-types", "utils"})
        \in Imports!DepConstraints
    BY DEF Imports!DepConstraints
  <2>2. "application" \in Imports!Tags(p)
    BY <1>4, TagsOfProjects
  <2>3. Imports!Tags(q) \intersect {"domain", "platform", "shared-kernel-types", "utils"} # {}
    BY <2>1, <2>2, ConstraintMet
  <2> QED
    BY <2>3, TagsOfProjects
    DEF Imports!Project, Imports!Backend, Imports!Frontend, Imports!Adapters, Imports!Shared,
        Imports!Apps
<1>5. ASSUME p \in Imports!Adapters
      PROVE  q \in Inner
  <2>1. Imports!Only("infrastructure", Imports!Leaves \union {"domain", "application", "platform"})
        \in Imports!DepConstraints
    BY DEF Imports!DepConstraints
  <2>2. "infrastructure" \in Imports!Tags(p)
    BY <1>5, TagsOfProjects
  <2>3. Imports!Tags(q) \intersect (Imports!Leaves \union {"domain", "application", "platform"}) # {}
    BY <2>1, <2>2, ConstraintMet
  <2> QED
    BY <2>3, TagsOfProjects
    DEF Imports!Project, Imports!Backend, Imports!Frontend, Imports!Adapters, Imports!Shared,
        Imports!Apps, Imports!Leaves, Inner
<1>6. ASSUME p = "nest-http"
      PROVE  q \in Imports!Shared \union {"platform"}
  <2>1. Imports!Only("nest-http", Imports!Leaves \union {"contracts", "platform"})
        \in Imports!DepConstraints
    BY DEF Imports!DepConstraints
  <2>2. "nest-http" \in Imports!Tags(p)
    BY <1>6, TagsOfProjects
  <2>3. Imports!Tags(q) \intersect (Imports!Leaves \union {"contracts", "platform"}) # {}
    BY <2>1, <2>2, ConstraintMet
  <2> QED
    BY <2>3, TagsOfProjects
    DEF Imports!Project, Imports!Backend, Imports!Frontend, Imports!Adapters, Imports!Shared,
        Imports!Apps, Imports!Leaves
<1>7. ASSUME p = Wiring
      PROVE  q \in Inner \union Imports!Adapters
  <2>1. Imports!Only("composition", Imports!Leaves \union
                                        {"domain", "application", "infrastructure", "platform"})
        \in Imports!DepConstraints
    BY DEF Imports!DepConstraints
  <2>2. "composition" \in Imports!Tags(p)
    BY <1>7, TagsOfProjects DEF Wiring
  <2>3. Imports!Tags(q) \intersect
            (Imports!Leaves \union {"domain", "application", "infrastructure", "platform"}) # {}
    BY <2>1, <2>2, ConstraintMet
  <2> QED
    BY <2>3, TagsOfProjects
    DEF Imports!Project, Imports!Backend, Imports!Frontend, Imports!Adapters, Imports!Shared,
        Imports!Apps, Imports!Leaves, Inner, Wiring
<1>8. ASSUME p = "ui-kit"
      PROVE  q \in Imports!Shared
  <2>1. Imports!Only("ui", {"utils"}) \in Imports!DepConstraints
    BY DEF Imports!DepConstraints
  <2>2. "ui" \in Imports!Tags(p)
    BY <1>8, TagsOfProjects
  <2>3. Imports!Tags(q) \intersect {"utils"} # {}
    BY <2>1, <2>2, ConstraintMet
  <2> QED
    BY <2>3, TagsOfProjects
    DEF Imports!Project, Imports!Backend, Imports!Frontend, Imports!Adapters, Imports!Shared,
        Imports!Apps
<1>9. ASSUME p = "frontend-core"
      PROVE  q \in Imports!Shared
  <2>1. Imports!Only("frontend-core", Imports!Leaves \union {"contracts"})
        \in Imports!DepConstraints
    BY DEF Imports!DepConstraints
  <2>2. "frontend-core" \in Imports!Tags(p)
    BY <1>9, TagsOfProjects
  <2>3. Imports!Tags(q) \intersect (Imports!Leaves \union {"contracts"}) # {}
    BY <2>1, <2>2, ConstraintMet
  <2> QED
    BY <2>3, TagsOfProjects
    DEF Imports!Project, Imports!Backend, Imports!Frontend, Imports!Adapters, Imports!Shared,
        Imports!Apps, Imports!Leaves
<1>10. ASSUME p = "web-e2e"
      PROVE  q \in Imports!Shared
  <2>1. Imports!Only("e2e", Imports!Leaves \union {"contracts"}) \in Imports!DepConstraints
    BY DEF Imports!DepConstraints
  <2>2. "e2e" \in Imports!Tags(p)
    BY <1>10, TagsOfProjects
  <2>3. Imports!Tags(q) \intersect (Imports!Leaves \union {"contracts"}) # {}
    BY <2>1, <2>2, ConstraintMet
  <2> QED
    BY <2>3, TagsOfProjects
    DEF Imports!Project, Imports!Backend, Imports!Frontend, Imports!Adapters, Imports!Shared,
        Imports!Apps, Imports!Leaves
<1>11. ASSUME p \in Imports!Apps
      PROVE  q \in Imports!Shared \union {Wiring, "nest-http", "logger", "telemetry", "platform",
                                           "ui-kit", "frontend-core"}
  <2>1. Imports!Only("app", Imports!Leaves \union
                                {"composition", "nest-http", "logger", "telemetry", "platform",
                                 "ui", "frontend-core", "feature", "contracts"})
        \in Imports!DepConstraints
    BY DEF Imports!DepConstraints
  <2>2. "app" \in Imports!Tags(p)
    BY <1>11, TagsOfProjects DEF Imports!Apps
  <2>3. Imports!Tags(q) \intersect
            (Imports!Leaves \union {"composition", "nest-http", "logger", "telemetry", "platform",
                                    "ui", "frontend-core", "feature", "contracts"}) # {}
    BY <2>1, <2>2, ConstraintMet
  <2> QED
    BY <2>3, TagsOfProjects
    DEF Imports!Project, Imports!Backend, Imports!Frontend, Imports!Adapters, Imports!Shared,
        Imports!Apps, Imports!Leaves, Wiring
<1>12. ASSUME p \in Imports!Backend
      PROVE  q \in Imports!Backend \union Imports!Shared
  <2>1. Imports!Only("scope:backend", {"scope:backend", "scope:shared"}) \in Imports!DepConstraints
    BY DEF Imports!DepConstraints
  <2>2. "scope:backend" \in Imports!Tags(p)
    BY <1>12, TagsOfProjects DEF Imports!Backend
  <2>3. Imports!Tags(q) \intersect {"scope:backend", "scope:shared"} # {}
    BY <2>1, <2>2, ConstraintMet
  <2> QED
    BY <2>3, TagsOfProjects
    DEF Imports!Project, Imports!Backend, Imports!Frontend, Imports!Adapters, Imports!Shared,
        Imports!Apps
<1>13. ASSUME p \in Imports!Frontend
      PROVE  q \in Imports!Frontend \union Imports!Shared
  <2>1. Imports!Only("scope:frontend", {"scope:frontend", "scope:shared"})
        \in Imports!DepConstraints
    BY DEF Imports!DepConstraints
  <2>2. "scope:frontend" \in Imports!Tags(p)
    BY <1>13, TagsOfProjects DEF Imports!Frontend
  <2>3. Imports!Tags(q) \intersect {"scope:frontend", "scope:shared"} # {}
    BY <2>1, <2>2, ConstraintMet
  <2> QED
    BY <2>3, TagsOfProjects
    DEF Imports!Project, Imports!Backend, Imports!Frontend, Imports!Adapters, Imports!Shared,
        Imports!Apps
<1> QED
  BY <1>1, <1>2, <1>3, <1>4, <1>5, <1>6, <1>7, <1>8, <1>9, <1>10, <1>11, <1>12, <1>13

\* What the tags leave, with the allowance of the specs of postgres; and a
\* project never imports itself.
LEMMA AcceptedImports ==
  ASSUME NEW p \in Imports!Project, NEW f \in Imports!AnyFile, NEW q \in Imports!Project,
         Imports!Accepts(p, f, q)
  PROVE  /\ p # q
         /\ Imports!MeetsConstraints(p, q) \/ SpecOfPostgres(p, f, q)
  BY DEF Imports!Accepts, Imports!Allow, SpecOfPostgres

\* No import crosses the scopes, and a shared package imports shared ones.
LEMMA AcceptedScope ==
  ASSUME NEW p \in Imports!Project, NEW f \in Imports!AnyFile, NEW q \in Imports!Project,
         Imports!Accepts(p, f, q)
  PROVE  /\ q \in Imports!Shared \/ Imports!ScopeTag(q) = Imports!ScopeTag(p)
         /\ p \in Imports!Shared => q \in Imports!Shared
<1>1. /\ p \in Imports!Shared => q \in Imports!Shared
      /\ p \in Imports!Backend => q \in Imports!Backend \union Imports!Shared
      /\ p \in Imports!Frontend => q \in Imports!Frontend \union Imports!Shared
  BY AcceptedImports, TagsAllow
  DEF SpecOfPostgres, Imports!Shared, Imports!Backend, Imports!Frontend, Imports!Adapters
<1>2. \A r \in Imports!Frontend : r \notin Imports!Shared /\ r \notin Imports!Backend
  BY DEF Imports!Shared, Imports!Backend, Imports!Frontend, Imports!Adapters
<1> QED
  BY <1>1, <1>2 DEF Imports!ScopeTag, Imports!Project

\* The levels are numbers, the shared packages on the lowest.
LEMMA Levels ==
  ASSUME NEW p \in Imports!Project
  PROVE  /\ Level(p) \in Nat
         /\ p \in Imports!Shared <=> Level(p) = 0
         /\ p \in {"domain", "platform", "ui-kit", "frontend-core", "web-e2e"} => Level(p) = 1
         /\ p \in {"application", "nest-http"} => Level(p) = 2
         /\ p \in {"node", "security"} => Level(p) = 3
         /\ p \in Imports!Adapters => Level(p) \in {3, 4}
         /\ p = "postgres" => Level(p) = 4
         /\ p = Wiring => Level(p) = 5
         /\ p \in Imports!Apps => Level(p) = 6
<1>1. CASE p \in Imports!Shared
  BY <1>1 DEF Level, Imports!Shared, Imports!Adapters, Imports!Apps, Wiring
<1>2. CASE p \in {"domain", "platform", "ui-kit", "frontend-core", "web-e2e"}
  BY <1>2 DEF Level, Imports!Shared, Imports!Adapters, Imports!Apps, Wiring
<1>3. CASE p \in {"application", "nest-http"}
  BY <1>3 DEF Level, Imports!Shared, Imports!Adapters, Imports!Apps, Wiring
<1>4. CASE p \in {"node", "security"}
  BY <1>4 DEF Level, Imports!Shared, Imports!Adapters, Imports!Apps, Wiring
<1>5. CASE p \in Imports!Adapters \ {"node", "security"}
  <2>1. p \notin Imports!Shared \union Imports!Apps \union
                 {"domain", "platform", "ui-kit", "frontend-core", "web-e2e", "application", "nest-http",
                  Wiring}
    BY <1>5 DEF Imports!Shared, Imports!Adapters, Imports!Apps, Wiring
  <2>2. Level(p) = 4
    BY <1>5, <2>1 DEF Level
  <2> QED
    BY <1>5, <2>1, <2>2
<1>6. CASE p = Wiring
  BY <1>6 DEF Level, Imports!Shared, Imports!Adapters, Imports!Apps, Wiring
<1>7. CASE p \in Imports!Apps
  BY <1>7 DEF Level, Imports!Shared, Imports!Adapters, Imports!Apps, Wiring
<1> QED
  BY <1>1, <1>2, <1>3, <1>4, <1>5, <1>6, <1>7
  DEF Imports!Project, Imports!Backend, Imports!Frontend, Imports!Adapters, Imports!Apps, Wiring

\* Outside the shared packages every import goes down a level.
LEMMA LevelsFall ==
  ASSUME NEW p \in Imports!Project, NEW f \in Imports!AnyFile, NEW q \in Imports!Project,
         Imports!Accepts(p, f, q), p \notin Imports!Shared
  PROVE  Level(q) < Level(p)
<1>1. /\ q \in Imports!Shared => Level(q) = 0
      /\ q \in {"domain", "platform", "ui-kit", "frontend-core"} => Level(q) = 1
      /\ q \in {"application", "nest-http"} => Level(q) = 2
      /\ q \in {"node", "security"} => Level(q) = 3
      /\ q \in Imports!Adapters => Level(q) \in {3, 4}
      /\ q = Wiring => Level(q) = 5
  BY Levels
<1>2. CASE Imports!MeetsConstraints(p, q)
  <2>1. CASE p \in {"domain", "platform", "ui-kit", "frontend-core", "web-e2e"}
    BY <1>1, <1>2, <2>1, Levels, TagsAllow
  <2>2. CASE p \in {"application", "nest-http"}
    BY <1>1, <1>2, <2>2, Levels, TagsAllow
  <2>3. CASE p \in Imports!Adapters
    <3>1. q \in Imports!Shared \union {"domain", "application", "platform"}
      BY <1>2, <2>3, TagsAllow DEF Inner
    <3>2. Level(p) \in {3, 4} /\ Level(q) \in {0, 1, 2}
      BY <1>1, <2>3, <3>1, Levels
    <3> QED
      BY <3>2
  <2>4. CASE p = Wiring
    <3>1. q \in Imports!Shared \union {"domain", "application", "platform"} \union Imports!Adapters
      BY <1>2, <2>4, TagsAllow DEF Inner
    <3>2. Level(p) = 5 /\ Level(q) \in {0, 1, 2, 3, 4}
      BY <1>1, <2>4, <3>1, Levels
    <3> QED
      BY <3>2
  <2>5. CASE p \in Imports!Apps
    <3>1. q \in Imports!Shared \union {Wiring, "nest-http", "platform", "ui-kit", "frontend-core"}
                              \union Imports!Adapters
      BY <1>2, <2>5, TagsAllow DEF Imports!Adapters
    <3>2. Level(p) = 6 /\ Level(q) \in {0, 1, 2, 3, 4, 5}
      BY <1>1, <2>5, <3>1, Levels
    <3> QED
      BY <3>2
  <2> QED
    BY <2>1, <2>2, <2>3, <2>4, <2>5
    DEF Imports!Project, Imports!Backend, Imports!Frontend, Imports!Apps, Wiring
<1>3. CASE SpecOfPostgres(p, f, q)
  <2>1. Level(p) = 4 /\ Level(q) = 3
    BY <1>1, <1>3, Levels DEF SpecOfPostgres
  <2> QED
    BY <2>1
<1> QED
  BY <1>2, <1>3, AcceptedImports

\* What an adapter names, and what anything inner names, is inner again.
LEMMA InnerStays ==
  ASSUME NEW p \in Imports!Project, NEW f \in Imports!AnyFile, NEW q \in Imports!Project,
         Imports!Accepts(p, f, q), p \in Inner \union Imports!Adapters
  PROVE  q \in Inner \/ SpecOfPostgres(p, f, q)
<1> SUFFICES ASSUME Imports!MeetsConstraints(p, q) PROVE q \in Inner
  BY AcceptedImports
<1> QED
  BY TagsAllow DEF Inner

\* The adapters and the wiring are not inner, and no adapter that talks to the
\* outside is quiet.
LEMMA SetsApart ==
  /\ \A p \in Imports!Adapters : p \notin Inner
  /\ \A p \in Imports!Outbound : p \notin Quiet
  /\ \A p \in Imports!Apps : p \in Quiet
<1>1. \A p \in Imports!Adapters : p \notin Inner
  BY DEF Inner, Imports!Adapters, Imports!Shared
<1>2. \A p \in Imports!Outbound : p \notin Quiet
  BY DEF Inner, Quiet, Imports!Outbound, Imports!Adapters, Imports!Shared, Imports!Apps
<1> QED
  BY <1>1, <1>2 DEF Quiet

\* From what is quiet only the wiring leads to anything that is not.
LEMMA QuietStays ==
  ASSUME NEW p \in Imports!Project, NEW f \in Imports!AnyFile, NEW q \in Imports!Project,
         Imports!Accepts(p, f, q), p \in Quiet
  PROVE  q \in Quiet \/ q = Wiring
<1>1. Imports!MeetsConstraints(p, q)
  BY AcceptedImports DEF SpecOfPostgres, Quiet, Inner, Imports!Shared, Imports!Apps
<1>2. CASE p \in Inner \union {"logger", "telemetry"}
  <2>1. p \in Inner \union Imports!Adapters
    BY <1>2 DEF Imports!Adapters
  <2>2. q \in Inner
    BY <1>1, <2>1, TagsAllow DEF Inner
  <2> QED
    BY <2>2 DEF Quiet
<1>3. CASE p \in Imports!Apps
  <2>1. q \in Imports!Shared \union {Wiring, "nest-http", "logger", "telemetry", "platform",
                                     "ui-kit", "frontend-core"}
    BY <1>1, <1>3, TagsAllow
  <2> QED
    BY <2>1 DEF Quiet, Inner
<1>4. CASE p \in {"nest-http", "ui-kit", "frontend-core"}
  <2>1. q \in Imports!Shared \union {"platform"}
    BY <1>1, <1>4, TagsAllow
  <2> QED
    BY <2>1 DEF Quiet, Inner
<1> QED
  BY <1>2, <1>3, <1>4 DEF Quiet

\* The overlays of domain and platform are the ones in force there, for the
\* specs too.
LEMMA PureOverlays ==
  ASSUME NEW f \in Imports!AnyFile
  PROVE  /\ Imports!Restricted("domain", f) = Imports!DomainBans
         /\ Imports!Restricted("platform", f) = Imports!PlatformBans
<1>1. DOMAIN Imports!Overlays = 1 .. 18
  BY DEF Imports!Overlays
<1>2. /\ Imports!Overlays[1] = Imports!Overlay({"domain"}, Imports!AnyFile, Imports!DomainBans)
      /\ Imports!Overlays[2] = Imports!Overlay({"platform"}, Imports!AnyFile, Imports!PlatformBans)
  BY DEF Imports!Overlays
<1>3. \A i \in 3 .. 18 : "domain" \notin Imports!Overlays[i].projects /\ "platform" \notin Imports!Overlays[i].projects
  BY DEF Imports!Overlays, Imports!Overlay
<1>4. \A i \in {1, 2} : Imports!Max({i}) = i
  <2> TAKE i \in {1, 2}
  <2>1. \E x \in {i} : \A y \in {i} : x >= y
    OBVIOUS
  <2> QED
    BY <2>1 DEF Imports!Max
<1> DEFINE matching(p) ==
             {i \in DOMAIN Imports!Overlays : p \in Imports!Overlays[i].projects
                                              /\ f \in Imports!Overlays[i].files}
<1>5. matching("domain") = {1} /\ matching("platform") = {2}
  BY <1>1, <1>2, <1>3 DEF Imports!Overlay
<1>6. ASSUME NEW p, NEW k \in {1, 2}, matching(p) = {k}
      PROVE  Imports!Restricted(p, f) = Imports!Overlays[k].bans
  <2>1. Imports!Restricted(p, f) =
            IF matching(p) = {} THEN {} ELSE Imports!Overlays[Imports!Max(matching(p))].bans
    BY DEF Imports!Restricted
  <2> HIDE DEF matching
  <2>2. Imports!Max(matching(p)) = k /\ matching(p) # {}
    BY <1>4, <1>6
  <2> QED
    BY <2>1, <2>2
<1>7. /\ Imports!Overlays[1].bans = Imports!DomainBans
      /\ Imports!Overlays[2].bans = Imports!PlatformBans
  BY <1>2 DEF Imports!Overlay
<1> QED
  BY <1>5, <1>6, <1>7

\* A chain from outside the shared packages never climbs back to its level.
ClimbInv ==
    chain[1] \notin Imports!Shared =>
        \A i \in 2 .. Len(chain) : Level(chain[i]) < Level(chain[1])

\* What an app reaches is quiet until the wiring is on the chain.
QuietInv ==
    chain[1] \in Imports!Apps =>
        \A i \in 1 .. Len(chain) : chain[i] \in Quiet \/ \E j \in 2 .. i : chain[j] = Wiring

\* What an adapter reaches is inner, but for the allowance, which is for the
\* first hop only: past it the files are sources.
AdapterInv ==
    chain[1] \in Imports!Adapters =>
        \A i \in 2 .. Len(chain) :
            chain[i] \in Inner \/ (i = 2 /\ SpecOfPostgres(chain[1], file, chain[2]))

ChainInv ==
    /\ Imports!TypeOK /\ Imports!ScopesStayApart /\ Imports!InnerLayersStayPure
    /\ ClimbInv /\ QuietInv /\ AdapterInv

LEMMA InitChainInv ==
  Imports!Init => ChainInv
<1> SUFFICES ASSUME Imports!Init PROVE ChainInv
  OBVIOUS
<1>1. PICK p \in Imports!Project : chain = <<p>>
  BY DEF Imports!Init
<1>2. chain \in Seq(Imports!Project) /\ Len(chain) = 1 /\ chain[1] = p
  BY <1>1
<1>3. 2 .. Len(chain) = {} /\ 1 .. Len(chain) = {1} /\ Len(chain) \in 1 .. MaxHops
  BY <1>2, RulesAssumption DEF Imports!ImportRulesAssumption
<1>4. Imports!TypeOK
  BY <1>2, <1>3 DEF Imports!Init, Imports!TypeOK
<1>5. Imports!ScopesStayApart /\ ClimbInv /\ AdapterInv
  BY <1>3 DEF Imports!ScopesStayApart, Imports!Reached, ClimbInv, AdapterInv
<1>6. QuietInv
  BY <1>3, SetsApart DEF QuietInv
<1>7. Imports!InnerLayersStayPure
  BY DEF Imports!Init, Imports!InnerLayersStayPure, Imports!NestAll
<1> QED
  BY <1>4, <1>5, <1>6, <1>7 DEF ChainInv

\* A hop is accepted where the chain ends; a package is not restricted there.
LEMMA ImportKeepsChainInv ==
  ChainInv /\ [Imports!Next]_chainVars => ChainInv'
<1> SUFFICES ASSUME ChainInv, [Imports!Next]_chainVars PROVE ChainInv'
  OBVIOUS
<1> DEFINE n == Len(chain)
           here == chain[n]
           f == Imports!FileHere
<1>1. CASE UNCHANGED chainVars
  BY <1>1 DEF ChainInv, chainVars, Imports!TypeOK, Imports!ScopesStayApart, Imports!Reached,
              Imports!InnerLayersStayPure, ClimbInv, QuietInv, AdapterInv
<1>2. /\ chain \in Seq(Imports!Project) /\ n \in Nat /\ 1 <= n /\ n <= MaxHops /\ MaxHops \in Nat
      /\ \A i \in 1 .. n : chain[i] \in Imports!Project
      /\ here \in Imports!Project /\ chain[1] \in Imports!Project
      /\ f \in Imports!AnyFile /\ (n = 1 => f = file) /\ (n # 1 => f = "source")
  BY RulesAssumption
  DEF ChainInv, Imports!TypeOK, Imports!ImportRulesAssumption, Imports!FileHere, Imports!AnyFile
<1>3. CASE Imports!ImportPackage
  <2>1. PICK m \in Imports!Npm \ Imports!Restricted(Imports!Here, f) : package' = m
    BY <1>3 DEF Imports!ImportPackage
  <2>2. chain' = chain /\ file' = file
    BY <1>3 DEF Imports!ImportPackage
  <2>3. Imports!InnerLayersStayPure'
    <3> SUFFICES ASSUME n = 1, chain[1] \in {"domain", "platform"}
                 PROVE  m \notin Imports!NestAll \union {"typeorm"}
      BY <2>1, <2>2 DEF Imports!InnerLayersStayPure
    <3>1. m \notin Imports!DomainBans \/ m \notin Imports!PlatformBans
      BY <1>2, <2>1, PureOverlays DEF Imports!Here
    <3> QED
      BY <3>1 DEF Imports!DomainBans, Imports!PlatformBans
  <2>4. Imports!TypeOK'
    BY <2>1, <2>2 DEF ChainInv, Imports!TypeOK
  <2>5. (Imports!ScopesStayApart /\ ClimbInv /\ QuietInv /\ AdapterInv)'
    BY <2>2 DEF ChainInv, Imports!ScopesStayApart, Imports!Reached, ClimbInv, QuietInv, AdapterInv
  <2> QED
    BY <2>3, <2>4, <2>5 DEF ChainInv
<1>4. CASE Imports!ImportProject
  <2>1. PICK q \in Imports!Project : Imports!Accepts(here, f, q) /\ chain' = Append(chain, q)
    BY <1>4 DEF Imports!ImportProject, Imports!Here
  <2>2. /\ chain' \in Seq(Imports!Project) /\ Len(chain') = n + 1 /\ chain'[n + 1] = q
        /\ \A i \in 1 .. n : chain'[i] = chain[i]
        /\ chain'[1] = chain[1] /\ 1 \in 1 .. n /\ n \in 1 .. n
        /\ n < MaxHops /\ file' = file /\ package' = package /\ here # q
    BY <1>2, <1>4, <2>1 DEF Imports!ImportProject, Imports!Accepts
  <2> HIDE DEF n, here, f
  <2>3. ASSUME NEW i \in 2 .. (n + 1)
        PROVE  (i \in 2 .. n /\ chain'[i] = chain[i]) \/ (i = n + 1 /\ chain'[i] = q)
    BY <1>2, <2>2
  <2>4. Imports!TypeOK'
    <3>1. ASSUME NEW i \in 2 .. (n + 1)
          PROVE  chain'[i] # chain'[i - 1]
      <4>1. CASE i \in 2 .. n
        <5>1. i \in 1 .. n /\ i - 1 \in 1 .. n
          BY <1>2, <4>1
        <5> QED
          BY <2>2, <4>1, <5>1 DEF ChainInv, Imports!TypeOK, n
      <4>2. CASE i = n + 1
        BY <1>2, <2>2, <4>2 DEF here
      <4> QED
        BY <2>3, <4>1, <4>2
    <3>2. n + 1 \in 1 .. MaxHops
      BY <1>2, <2>2
    <3> QED
      BY <2>2, <3>1, <3>2 DEF ChainInv, Imports!TypeOK
  <2>5. Imports!ScopesStayApart'
    <3> SUFFICES ASSUME NEW i \in 2 .. (n + 1)
                 PROVE  chain'[i] \in Imports!Shared
                        \/ Imports!ScopeTag(chain'[i]) = Imports!ScopeTag(chain[1])
      BY <2>2 DEF Imports!ScopesStayApart, Imports!Reached
    <3>1. \A k \in 2 .. n : chain[k] \in Imports!Shared
                            \/ Imports!ScopeTag(chain[k]) = Imports!ScopeTag(chain[1])
      BY DEF ChainInv, Imports!ScopesStayApart, Imports!Reached, n
    <3>2. here \in Imports!Shared \/ Imports!ScopeTag(here) = Imports!ScopeTag(chain[1])
      <4>1. n = 1 \/ n \in 2 .. n
        BY <1>2
      <4> QED
        BY <3>1, <4>1 DEF here
    <3>3. q \in Imports!Shared \/ Imports!ScopeTag(q) = Imports!ScopeTag(chain[1])
      BY <1>2, <2>1, <3>2, AcceptedScope
    <3> QED
      BY <2>3, <3>1, <3>3
  <2>6. ClimbInv'
    <3> SUFFICES ASSUME chain[1] \notin Imports!Shared, NEW i \in 2 .. (n + 1)
                 PROVE  Level(chain'[i]) < Level(chain[1])
      BY <2>2 DEF ClimbInv
    <3>1. \A k \in 2 .. n : Level(chain[k]) < Level(chain[1])
      BY DEF ChainInv, ClimbInv, n
    <3>2. Level(here) \in Nat /\ Level(q) \in Nat /\ Level(chain[1]) \in Nat /\ Level(chain[1]) # 0
      BY <1>2, Levels
    <3>3. Level(here) <= Level(chain[1])
      <4>1. n = 1 \/ n \in 2 .. n
        BY <1>2
      <4> QED
        BY <3>1, <3>2, <4>1 DEF here
    <3>4. Level(q) < Level(chain[1])
      <4>1. CASE here \in Imports!Shared
        <5>1. Level(q) = 0
          BY <1>2, <2>1, <4>1, AcceptedScope, Levels
        <5> QED
          BY <3>2, <5>1
      <4>2. CASE here \notin Imports!Shared
        <5>1. Level(q) < Level(here)
          BY <1>2, <2>1, <4>2, LevelsFall
        <5> QED
          BY <3>2, <3>3, <5>1
      <4> QED
        BY <4>1, <4>2
    <3> QED
      BY <2>3, <3>1, <3>4
  <2>7. QuietInv'
    <3> SUFFICES ASSUME chain[1] \in Imports!Apps, NEW i \in 1 .. (n + 1),
                        ~\E j \in 2 .. i : chain'[j] = Wiring
                 PROVE  chain'[i] \in Quiet
      BY <2>2 DEF QuietInv
    <3>1. \A k \in 1 .. n : chain[k] \in Quiet \/ \E j \in 2 .. k : chain[j] = Wiring
      BY DEF ChainInv, QuietInv, n
    <3>2. ASSUME NEW k \in 1 .. n, k <= i
          PROVE  chain[k] \in Quiet
      <4> SUFFICES ASSUME NEW j \in 2 .. k, chain[j] = Wiring PROVE FALSE
        BY <3>1, <3>2
      <4>1. j \in 2 .. i /\ j \in 1 .. n
        BY <1>2, <3>2
      <4> QED
        BY <2>2, <4>1
    <3>3. CASE i \in 1 .. n
      BY <1>2, <2>2, <3>2, <3>3
    <3>4. CASE i = n + 1
      <4>1. here \in Quiet
        BY <1>2, <2>2, <3>2, <3>4 DEF here
      <4>2. q # Wiring
        <5>1. i \in 2 .. i
          BY <1>2, <3>4
        <5> QED
          BY <2>2, <3>4, <5>1
      <4> QED
        BY <1>2, <2>1, <2>2, <3>4, <4>1, <4>2, QuietStays
    <3> QED
      BY <1>2, <3>3, <3>4
  <2>8. AdapterInv'
    <3> SUFFICES ASSUME chain[1] \in Imports!Adapters, NEW i \in 2 .. (n + 1)
                 PROVE  chain'[i] \in Inner \/ (i = 2 /\ SpecOfPostgres(chain[1], file, chain'[2]))
      BY <2>2 DEF AdapterInv
    <3>1. \A k \in 2 .. n : chain[k] \in Inner \/ (k = 2 /\ SpecOfPostgres(chain[1], file, chain[2]))
      BY DEF ChainInv, AdapterInv, n
    <3>2. CASE i \in 2 .. n
      <4>1. i \in 1 .. n /\ 2 \in 1 .. n
        BY <1>2, <3>2
      <4> QED
        BY <2>2, <3>1, <3>2, <4>1
    <3>3. CASE i = n + 1
      <4>1. here \in Inner \union Imports!Adapters
        <5>1. n = 1 \/ n \in 2 .. n
          BY <1>2
        <5> QED
          BY <3>1, <5>1 DEF here, SpecOfPostgres, Imports!Adapters
      <4>2. q \in Inner \/ SpecOfPostgres(here, f, q)
        BY <1>2, <2>1, <4>1, InnerStays
      <4>3. CASE n = 1
        BY <1>2, <2>2, <3>3, <4>2, <4>3 DEF here
      <4>4. CASE n # 1
        BY <1>2, <2>2, <3>3, <4>2, <4>4 DEF SpecOfPostgres
      <4> QED
        BY <4>3, <4>4
    <3> QED
      BY <2>3, <3>2, <3>3
  <2>9. Imports!InnerLayersStayPure'
    <3>1. Len(chain') # 1
      BY <1>2, <2>2
    <3> QED
      BY <3>1 DEF Imports!InnerLayersStayPure
  <2> QED
    BY <2>4, <2>5, <2>6, <2>7, <2>8, <2>9 DEF ChainInv
<1> QED
  BY <1>1, <1>3, <1>4 DEF Imports!Next

\* The invariant says what the run checks.
LEMMA ChainInvImplies ==
  ChainInv => /\ Imports!TypeOK /\ Imports!ScopesStayApart /\ Imports!AdaptersComeThroughComposition
              /\ Imports!AdaptersStandAlone /\ Imports!LayersPointInward /\ Imports!InnerLayersStayPure
<1> SUFFICES ASSUME ChainInv
             PROVE  /\ Imports!AdaptersComeThroughComposition /\ Imports!AdaptersStandAlone
                    /\ Imports!LayersPointInward
  BY DEF ChainInv
<1>1. Len(chain) \in Nat /\ \A i \in 1 .. Len(chain) : chain[i] \in Imports!Project
  BY DEF ChainInv, Imports!TypeOK
<1>2. \A i \in 2 .. Len(chain) : i \in 1 .. Len(chain)
  BY <1>1
<1>3. Imports!AdaptersComeThroughComposition
  <2> SUFFICES ASSUME chain[1] \in Imports!Apps, NEW i \in 2 .. Len(chain), chain[i] \in Imports!Outbound
               PROVE  \E j \in 2 .. i : chain[j] = "composition"
    BY DEF Imports!AdaptersComeThroughComposition
  <2> QED
    BY <1>2, SetsApart DEF ChainInv, QuietInv, Wiring
<1>4. Imports!AdaptersStandAlone
  BY SetsApart DEF ChainInv, AdapterInv, Imports!AdaptersStandAlone, SpecOfPostgres
<1>5. Imports!LayersPointInward
  <2> SUFFICES ASSUME chain[1] \notin Imports!Shared, NEW i \in 2 .. Len(chain), chain[i] = chain[1]
               PROVE  FALSE
    BY DEF Imports!LayersPointInward, Imports!Reached
  <2>1. Level(chain[i]) < Level(chain[1]) /\ Level(chain[i]) \in Nat
    BY <1>1, <1>2, Levels DEF ChainInv, ClimbInv
  <2> QED
    BY <2>1
<1> QED
  BY <1>3, <1>4, <1>5

-----------------------------------------------------------------------------
(* Induction over the numbers, on a set of them.                             *)

LEMMA NatSetInduction ==
  ASSUME NEW S, 0 \in S, \A n \in Nat : n \in S => n + 1 \in S
  PROVE  \A n \in Nat : n \in S
<1>1. SUFFICES ASSUME Nat \ S # {} PROVE FALSE
  OBVIOUS
<1>2. PICK m \in Nat \ S : \A n \in Nat \ S : <<n, m>> \notin OpToRel(<, Nat)
  BY <1>1, NatLessThanWellFounded, WFMin
<1>3. m # 0 /\ m - 1 \in Nat /\ m - 1 < m
  OBVIOUS
<1>4. m - 1 \in S
  BY <1>2, <1>3 DEF OpToRel
<1> QED
  BY <1>3, <1>4

-----------------------------------------------------------------------------
(* Migrations: what a list of statements and a set of migrations leave.      *)

\* The schemas the first statements of a list may leave, for each number of them.
Stages(i, s, sts, g) ==
    /\ Deploy(i)!Execute(s, sts) = g[Len(sts)]
    /\ g[0] = {s}
    /\ \A n \in 1 .. Len(sts) :
         g[n] = {Deploy(i)!Applied(x, sts[n]) : x \in {y \in g[n - 1] : Deploy(i)!Applies(y, sts[n])}}

\* A statement takes one schema to another.
Goes(i, s, st, x) == Deploy(i)!Applies(s, st) /\ x = Deploy(i)!Applied(s, st)

\* A list of statements goes one way.
Leads(i, sts, f) == \A k \in 1 .. Len(sts) : Goes(i, f[k - 1], sts[k], f[k])

\* Execute: the recursive definition has a solution, from no statement on.
LEMMA ExecuteSolved ==
  ASSUME NEW i, NEW s, NEW sts, Len(sts) \in Nat
  PROVE  \E g : Stages(i, s, sts, g)
<1> DEFINE Step(f, n) == IF n = 0 THEN {s}
                         ELSE {Deploy(i)!Applied(x, sts[n]) :
                                 x \in {y \in f[n - 1] : Deploy(i)!Applies(y, sts[n])}}
           after == CHOOSE f : f = [m \in 0 .. Len(sts) |-> Step(f, m)]
           Solved == {n \in Nat : \E f : f = [m \in 0 .. n |-> Step(f, m)]}
<1>1. Deploy(i)!Execute(s, sts) = after[Len(sts)]
  BY DEF Deploy!Execute
<1>2. 0 \in Solved
  <2> DEFINE f == [m \in 0 .. 0 |-> {s}]
  <2>1. f = [m \in 0 .. 0 |-> Step(f, m)]
    OBVIOUS
  <2> HIDE DEF f, Step
  <2>2. \E g : g = [m \in 0 .. 0 |-> Step(g, m)]
    BY <2>1, Zenon
  <2> QED
    BY <2>2
<1>3. ASSUME NEW n \in Nat, n \in Solved
      PROVE  n + 1 \in Solved
  <2>1. PICK f : f = [m \in 0 .. n |-> Step(f, m)]
    BY <1>3
  <2> DEFINE g == [m \in 0 .. n + 1 |-> IF m \in 0 .. n THEN f[m] ELSE Step(f, m)]
  <2>2. ASSUME NEW m \in 0 .. n + 1
        PROVE  g[m] = Step(g, m)
    <3>1. g[m] = Step(f, m)
      <4> HIDE DEF Step
      <4> QED
        BY <2>1
    <3>2. m # 0 => g[m - 1] = f[m - 1]
      OBVIOUS
    <3> HIDE DEF g
    <3> QED
      BY <3>1, <3>2
  <2>3. g = [m \in 0 .. n + 1 |-> g[m]]
    OBVIOUS
  <2> HIDE DEF g, Step
  <2>4. g = [m \in 0 .. n + 1 |-> Step(g, m)]
    BY <2>2, <2>3
  <2>5. \E h : h = [m \in 0 .. n + 1 |-> Step(h, m)]
    BY <2>4, Zenon
  <2> QED
    BY <2>5
<1>4. after = [m \in 0 .. Len(sts) |-> Step(after, m)]
  <2> HIDE DEF Solved
  <2>1. Len(sts) \in Solved
    BY <1>2, <1>3, NatSetInduction
  <2>2. \E f : f = [m \in 0 .. Len(sts) |-> Step(f, m)]
    BY <2>1 DEF Solved
  <2> HIDE DEF Step
  <2> QED
    BY <2>2
<1> HIDE DEF after
<1>5. after[0] = {s}
  BY <1>4
<1>6. ASSUME NEW n \in 1 .. Len(sts)
      PROVE  after[n] = {Deploy(i)!Applied(x, sts[n]) :
                           x \in {y \in after[n - 1] : Deploy(i)!Applies(y, sts[n])}}
  <2>1. after[n] = Step(after, n)
    <3> HIDE DEF Step
    <3> QED
      BY <1>4
  <2> QED
    BY <2>1
<1> QED
  BY <1>1, <1>5, <1>6 DEF Stages

\* The schemas the first migrations of the timeline may leave.
Passes(i, s, ms, g) ==
    /\ Deploy(i)!Migrate(s, ms) = g[16]
    /\ g[0] = {s}
    /\ \A n \in 1 .. 16 :
         g[n] = IF n \in ms
                THEN UNION {Deploy(i)!Execute(x, Deploy(i)!postgresMigrations[n].up) : x \in g[n - 1]}
                ELSE g[n - 1]

\* Migrate, over the whole timeline.
LEMMA MigrateSolved ==
  ASSUME NEW i, NEW s, NEW ms
  PROVE  \E g : Passes(i, s, ms, g)
<1> DEFINE Step(f, n) == IF n = 0 THEN {s}
                         ELSE IF n \in ms
                           THEN UNION {Deploy(i)!Execute(x, Deploy(i)!postgresMigrations[n].up) : x \in f[n - 1]}
                         ELSE f[n - 1]
           after == CHOOSE f : f = [m \in 0 .. 16 |-> Step(f, m)]
           Solved == {n \in Nat : \E f : f = [m \in 0 .. n |-> Step(f, m)]}
<1>1. Deploy(i)!Migrate(s, ms) = after[16]
  BY DEF Deploy!Migrate
<1>2. 0 \in Solved
  <2> DEFINE f == [m \in 0 .. 0 |-> {s}]
  <2>1. f = [m \in 0 .. 0 |-> Step(f, m)]
    OBVIOUS
  <2> HIDE DEF f, Step
  <2>2. \E g : g = [m \in 0 .. 0 |-> Step(g, m)]
    BY <2>1, Zenon
  <2> QED
    BY <2>2
<1>3. ASSUME NEW n \in Nat, n \in Solved
      PROVE  n + 1 \in Solved
  <2>1. PICK f : f = [m \in 0 .. n |-> Step(f, m)]
    BY <1>3
  <2> DEFINE g == [m \in 0 .. n + 1 |-> IF m \in 0 .. n THEN f[m] ELSE Step(f, m)]
  <2>2. ASSUME NEW m \in 0 .. n + 1
        PROVE  g[m] = Step(g, m)
    <3>1. g[m] = Step(f, m)
      <4> HIDE DEF Step
      <4> QED
        BY <2>1
    <3>2. m # 0 => g[m - 1] = f[m - 1]
      OBVIOUS
    <3> HIDE DEF g
    <3> QED
      BY <3>1, <3>2
  <2>3. g = [m \in 0 .. n + 1 |-> g[m]]
    OBVIOUS
  <2> HIDE DEF g, Step
  <2>4. g = [m \in 0 .. n + 1 |-> Step(g, m)]
    BY <2>2, <2>3
  <2>5. \E h : h = [m \in 0 .. n + 1 |-> Step(h, m)]
    BY <2>4, Zenon
  <2> QED
    BY <2>5
<1>4. after = [m \in 0 .. 16 |-> Step(after, m)]
  <2> HIDE DEF Solved
  <2>1. 16 \in Solved
    BY <1>2, <1>3, NatSetInduction
  <2>2. \E f : f = [m \in 0 .. 16 |-> Step(f, m)]
    BY <2>1 DEF Solved
  <2> HIDE DEF Step
  <2> QED
    BY <2>2
<1> HIDE DEF after
<1>5. after[0] = {s}
  BY <1>4
<1>6. ASSUME NEW n \in 1 .. 16
      PROVE  after[n] = IF n \in ms
                        THEN UNION {Deploy(i)!Execute(x, Deploy(i)!postgresMigrations[n].up) : x \in after[n - 1]}
                        ELSE after[n - 1]
  <2>1. after[n] = Step(after, n)
    <3> HIDE DEF Step
    <3> QED
      BY <1>4
  <2> QED
    BY <2>1
<1> QED
  BY <1>1, <1>5, <1>6 DEF Passes

\* Statements that apply one after the other leave the last schema.
LEMMA ExecuteSteps ==
  ASSUME NEW i, NEW sts, Len(sts) \in Nat, NEW f,
         Leads(i, sts, f)
  PROVE  Deploy(i)!Execute(f[0], sts) = {f[Len(sts)]}
<1>1. PICK g : Stages(i, f[0], sts, g)
  BY ExecuteSolved
<1> DEFINE Right == {n \in Nat : n <= Len(sts) => g[n] = {f[n]}}
<1>2. 0 \in Right
  BY <1>1 DEF Stages
<1>3. ASSUME NEW n \in Nat, n \in Right
      PROVE  n + 1 \in Right
  <2> SUFFICES ASSUME n + 1 <= Len(sts)
               PROVE  g[n + 1] = {f[n + 1]}
    OBVIOUS
  <2>1. n + 1 \in 1 .. Len(sts) /\ (n + 1) - 1 = n /\ n <= Len(sts)
    OBVIOUS
  <2>2. g[n] = {f[n]}
    BY <1>3, <2>1
  <2>3. Goes(i, f[n], sts[n + 1], f[n + 1])
    BY <2>1 DEF Leads
  <2>4. g[n + 1] = {Deploy(i)!Applied(x, sts[n + 1]) :
                      x \in {y \in g[n] : Deploy(i)!Applies(y, sts[n + 1])}}
    BY <1>1, <2>1 DEF Stages
  <2> QED
    BY <2>2, <2>3, <2>4 DEF Goes
<1> HIDE DEF Right
<1>4. Len(sts) \in Right
  BY <1>2, <1>3, NatSetInduction
<1> QED
  BY <1>1, <1>4 DEF Right, Stages

\* A list whose first statement does not apply leaves nothing.
LEMMA ExecuteFails ==
  ASSUME NEW i, NEW s, NEW sts, Len(sts) \in Nat, Len(sts) >= 1, ~Deploy(i)!Applies(s, sts[1])
  PROVE  Deploy(i)!Execute(s, sts) = {}
<1>1. PICK g : Stages(i, s, sts, g)
  BY ExecuteSolved
<1> DEFINE Right == {n \in Nat : n >= 1 /\ n <= Len(sts) => g[n] = {}}
<1>2. 0 \in Right
  OBVIOUS
<1>3. ASSUME NEW n \in Nat, n \in Right
      PROVE  n + 1 \in Right
  <2> SUFFICES ASSUME n + 1 <= Len(sts)
               PROVE  g[n + 1] = {}
    OBVIOUS
  <2>1. n + 1 \in 1 .. Len(sts) /\ (n + 1) - 1 = n /\ n <= Len(sts)
    OBVIOUS
  <2>4. g[n + 1] = {Deploy(i)!Applied(x, sts[n + 1]) :
                      x \in {y \in g[n] : Deploy(i)!Applies(y, sts[n + 1])}}
    BY <1>1, <2>1 DEF Stages
  <2>2. CASE n = 0
    <3>1. g[n] = {s} /\ sts[n + 1] = sts[1]
      BY <1>1, <2>2 DEF Stages
    <3> QED
      BY <2>4, <3>1
  <2>3. CASE n # 0
    <3>1. g[n] = {}
      BY <1>3, <2>1, <2>3
    <3> QED
      BY <2>4, <3>1
  <2> QED
    BY <2>2, <2>3
<1> HIDE DEF Right
<1>4. Len(sts) \in Right
  BY <1>2, <1>3, NatSetInduction
<1> QED
  BY <1>1, <1>4 DEF Right, Stages

\* Lists of one to five statements.
Way(x0, x1, x2, x3, x4, x5) ==
    [n \in 0 .. 5 |-> CASE n = 0 -> x0 [] n = 1 -> x1 [] n = 2 -> x2 [] n = 3 -> x3 [] n = 4 -> x4 [] n = 5 -> x5]

LEMMA WayAt ==
  ASSUME NEW x0, NEW x1, NEW x2, NEW x3, NEW x4, NEW x5
  PROVE  /\ Way(x0, x1, x2, x3, x4, x5)[0] = x0 /\ Way(x0, x1, x2, x3, x4, x5)[1] = x1
         /\ Way(x0, x1, x2, x3, x4, x5)[2] = x2 /\ Way(x0, x1, x2, x3, x4, x5)[3] = x3
         /\ Way(x0, x1, x2, x3, x4, x5)[4] = x4 /\ Way(x0, x1, x2, x3, x4, x5)[5] = x5
BY DEF Way

LEMMA ExecuteOne ==
  ASSUME NEW i, NEW x0, NEW a1, NEW x1,
         Goes(i, x0, a1, x1)
  PROVE  Deploy(i)!Execute(x0, <<a1>>) = {x1}
<1> DEFINE f == Way(x0, x1, x1, x1, x1, x1)
           sts == <<a1>>
<1>1. /\ f[0] = x0 /\ f[1] = x1
      /\ Len(sts) = 1 /\ sts[1] = a1
  BY WayAt
<1> HIDE DEF f, sts
<1>2. ASSUME NEW k \in 1 .. Len(sts) PROVE Goes(i, f[k - 1], sts[k], f[k])
  <2>1. k = 1 /\ k - 1 = 0
    BY <1>1
  <2> QED
    BY <1>1, <2>1
<1>3. Leads(i, sts, f) /\ Len(sts) \in Nat
  BY <1>1, <1>2 DEF Leads
<1>4. Deploy(i)!Execute(f[0], sts) = {f[Len(sts)]}
  BY <1>3, ExecuteSteps
<1> QED
  BY <1>1, <1>4 DEF sts

LEMMA ExecuteTwo ==
  ASSUME NEW i, NEW x0, NEW a1, NEW x1, NEW a2, NEW x2,
         Goes(i, x0, a1, x1), Goes(i, x1, a2, x2)
  PROVE  Deploy(i)!Execute(x0, <<a1, a2>>) = {x2}
<1> DEFINE f == Way(x0, x1, x2, x2, x2, x2)
           sts == <<a1, a2>>
<1>1. /\ f[0] = x0 /\ f[1] = x1 /\ f[2] = x2
      /\ Len(sts) = 2 /\ sts[1] = a1 /\ sts[2] = a2
  BY WayAt
<1> HIDE DEF f, sts
<1>2. ASSUME NEW k \in 1 .. Len(sts) PROVE Goes(i, f[k - 1], sts[k], f[k])
  <2>1. (k = 1 /\ k - 1 = 0) \/ (k = 2 /\ k - 1 = 1)
    BY <1>1
  <2> QED
    BY <1>1, <2>1
<1>3. Leads(i, sts, f) /\ Len(sts) \in Nat
  BY <1>1, <1>2 DEF Leads
<1>4. Deploy(i)!Execute(f[0], sts) = {f[Len(sts)]}
  BY <1>3, ExecuteSteps
<1> QED
  BY <1>1, <1>4 DEF sts

LEMMA ExecuteThree ==
  ASSUME NEW i, NEW x0, NEW a1, NEW x1, NEW a2, NEW x2, NEW a3, NEW x3,
         Goes(i, x0, a1, x1), Goes(i, x1, a2, x2), Goes(i, x2, a3, x3)
  PROVE  Deploy(i)!Execute(x0, <<a1, a2, a3>>) = {x3}
<1> DEFINE f == Way(x0, x1, x2, x3, x3, x3)
           sts == <<a1, a2, a3>>
<1>1. /\ f[0] = x0 /\ f[1] = x1 /\ f[2] = x2 /\ f[3] = x3
      /\ Len(sts) = 3 /\ sts[1] = a1 /\ sts[2] = a2 /\ sts[3] = a3
  BY WayAt
<1> HIDE DEF f, sts
<1>2. ASSUME NEW k \in 1 .. Len(sts) PROVE Goes(i, f[k - 1], sts[k], f[k])
  <2>1. (k = 1 /\ k - 1 = 0) \/ (k = 2 /\ k - 1 = 1) \/ (k = 3 /\ k - 1 = 2)
    BY <1>1
  <2> QED
    BY <1>1, <2>1
<1>3. Leads(i, sts, f) /\ Len(sts) \in Nat
  BY <1>1, <1>2 DEF Leads
<1>4. Deploy(i)!Execute(f[0], sts) = {f[Len(sts)]}
  BY <1>3, ExecuteSteps
<1> QED
  BY <1>1, <1>4 DEF sts

LEMMA ExecuteFour ==
  ASSUME NEW i, NEW x0, NEW a1, NEW x1, NEW a2, NEW x2, NEW a3, NEW x3, NEW a4, NEW x4,
         Goes(i, x0, a1, x1), Goes(i, x1, a2, x2), Goes(i, x2, a3, x3), Goes(i, x3, a4, x4)
  PROVE  Deploy(i)!Execute(x0, <<a1, a2, a3, a4>>) = {x4}
<1> DEFINE f == Way(x0, x1, x2, x3, x4, x4)
           sts == <<a1, a2, a3, a4>>
<1>1. /\ f[0] = x0 /\ f[1] = x1 /\ f[2] = x2 /\ f[3] = x3 /\ f[4] = x4
      /\ Len(sts) = 4 /\ sts[1] = a1 /\ sts[2] = a2 /\ sts[3] = a3 /\ sts[4] = a4
  BY WayAt
<1> HIDE DEF f, sts
<1>2. ASSUME NEW k \in 1 .. Len(sts) PROVE Goes(i, f[k - 1], sts[k], f[k])
  <2>1. (k = 1 /\ k - 1 = 0) \/ (k = 2 /\ k - 1 = 1) \/ (k = 3 /\ k - 1 = 2) \/ (k = 4 /\ k - 1 = 3)
    BY <1>1
  <2> QED
    BY <1>1, <2>1
<1>3. Leads(i, sts, f) /\ Len(sts) \in Nat
  BY <1>1, <1>2 DEF Leads
<1>4. Deploy(i)!Execute(f[0], sts) = {f[Len(sts)]}
  BY <1>3, ExecuteSteps
<1> QED
  BY <1>1, <1>4 DEF sts

LEMMA ExecuteFive ==
  ASSUME NEW i, NEW x0, NEW a1, NEW x1, NEW a2, NEW x2, NEW a3, NEW x3, NEW a4, NEW x4, NEW a5, NEW x5,
         Goes(i, x0, a1, x1), Goes(i, x1, a2, x2), Goes(i, x2, a3, x3), Goes(i, x3, a4, x4), Goes(i, x4, a5, x5)
  PROVE  Deploy(i)!Execute(x0, <<a1, a2, a3, a4, a5>>) = {x5}
<1> DEFINE f == Way(x0, x1, x2, x3, x4, x5)
           sts == <<a1, a2, a3, a4, a5>>
<1>1. /\ f[0] = x0 /\ f[1] = x1 /\ f[2] = x2 /\ f[3] = x3 /\ f[4] = x4 /\ f[5] = x5
      /\ Len(sts) = 5 /\ sts[1] = a1 /\ sts[2] = a2 /\ sts[3] = a3 /\ sts[4] = a4 /\ sts[5] = a5
  BY WayAt
<1> HIDE DEF f, sts
<1>2. ASSUME NEW k \in 1 .. Len(sts) PROVE Goes(i, f[k - 1], sts[k], f[k])
  <2>1. (k = 1 /\ k - 1 = 0) \/ (k = 2 /\ k - 1 = 1) \/ (k = 3 /\ k - 1 = 2) \/ (k = 4 /\ k - 1 = 3) \/ (k = 5 /\ k - 1 = 4)
    BY <1>1
  <2> QED
    BY <1>1, <2>1
<1>3. Leads(i, sts, f) /\ Len(sts) \in Nat
  BY <1>1, <1>2 DEF Leads
<1>4. Deploy(i)!Execute(f[0], sts) = {f[Len(sts)]}
  BY <1>3, ExecuteSteps
<1> QED
  BY <1>1, <1>4 DEF sts

-----------------------------------------------------------------------------
(* The schemas of the timeline: the tables created so far, each with the     *)
(* columns and keys of the statement that created it, the columns added to   *)
(* them and the indexes on them.                                             *)

\* The statement that creates a table.
Birth(i, t) ==
    CASE t = "users" -> Deploy(i)!CreateUsers.up[1]
      [] t = "roles" -> Deploy(i)!CreateRoles.up[1]
      [] t = "role_permissions" -> Deploy(i)!CreateRoles.up[2]
      [] t = "tenants" -> Deploy(i)!CreateTenantsAndMemberships.up[1]
      [] t = "memberships" -> Deploy(i)!CreateTenantsAndMemberships.up[3]
      [] t = "membership_roles" -> Deploy(i)!CreateTenantsAndMemberships.up[4]
      [] t = "user_local_passwords" -> Deploy(i)!CreateCredentials.up[1]
      [] t = "refresh_sessions" -> Deploy(i)!CreateCredentials.up[2]
      [] t = "password_reset_tokens" -> Deploy(i)!CreateCredentials.up[5]
      [] t = "invitations" -> Deploy(i)!CreateInvitations.up[1]
      [] t = "invitation_roles" -> Deploy(i)!CreateInvitations.up[3]
      [] t = "outbox" -> Deploy(i)!CreateOutbox.up[1]
      [] t = "idempotency_keys" -> Deploy(i)!CreateIdempotencyKeys.up[1]
      [] t = "api_keys" -> Deploy(i)!CreateApiKeys.up[1]

\* The table of an index.
OfTable(x) ==
    CASE x = "tenants.tenant_id" -> "tenants"
      [] x = "refresh_sessions.family_id" -> "refresh_sessions"
      [] x = "refresh_sessions.user_id" -> "refresh_sessions"
      [] x = "refresh_sessions.expires_at" -> "refresh_sessions"
      [] x = "password_reset_tokens.expires_at" -> "password_reset_tokens"
      [] x = "invitations.pending" -> "invitations"
      [] x = "invitations.expires_at" -> "invitations"
      [] x = "outbox.pending" -> "outbox"
      [] x = "outbox.processing_updated_at" -> "outbox"
      [] x = "membership_roles.role_id" -> "membership_roles"
      [] x = "idempotency_keys.expires_at" -> "idempotency_keys"
      [] x = "api_keys.tenant_id" -> "api_keys"

Added(E, t) == {c \in {"created_at", "updated_at", "version"} : <<t, c>> \in E}

Table(i, t, E, X) ==
    [must |-> Birth(i, t).must, may |-> Birth(i, t).may \union Added(E, t), keys |-> Birth(i, t).keys,
     idx |-> {x \in X : OfTable(x) = t}]

\* Tables T, columns E added, indexes X.
Made(i, T, E, X) == [t \in T |-> Table(i, t, E, X)]

LEMMA MadeAlike ==
  ASSUME NEW i, NEW T, NEW E, NEW F, NEW X, NEW Y,
         \A t \in T : Added(E, t) = Added(F, t) /\ {x \in X : OfTable(x) = t} = {x \in Y : OfTable(x) = t}
  PROVE  Made(i, T, E, X) = Made(i, T, F, Y)
<1>1. \A t \in T : Table(i, t, E, X) = Table(i, t, F, Y)
  BY DEF Table
<1> QED
  BY <1>1 DEF Made

\* What the statements change of a table.
LEMMA Rewritten ==
  ASSUME NEW must, NEW may, NEW keys, NEW idx, NEW table, NEW c,
         table = [must |-> must, may |-> may, keys |-> keys, idx |-> idx]
  PROVE  /\ [table EXCEPT !.may = @ \union {c}]
              = [must |-> must, may |-> may \union {c}, keys |-> keys, idx |-> idx]
         /\ [table EXCEPT !.idx = @ \union {c}]
              = [must |-> must, may |-> may, keys |-> keys, idx |-> idx \union {c}]
         /\ [table EXCEPT !.idx = @ \ {c}]
              = [must |-> must, may |-> may, keys |-> keys, idx |-> idx \ {c}]
<1>1. table.may = may /\ table.idx = idx
  OBVIOUS
<1>2. \A v : [table EXCEPT !.may = v] = [must |-> must, may |-> v, keys |-> keys, idx |-> idx]
  OBVIOUS
<1>3. \A v : [table EXCEPT !.idx = v] = [must |-> must, may |-> may, keys |-> keys, idx |-> v]
  OBVIOUS
<1>5. [table EXCEPT !.may = @ \union {c}] = [must |-> must, may |-> may \union {c}, keys |-> keys, idx |-> idx]
  BY <1>1, <1>2
<1>6. /\ [table EXCEPT !.idx = @ \union {c}]
           = [must |-> must, may |-> may, keys |-> keys, idx |-> idx \union {c}]
      /\ [table EXCEPT !.idx = @ \ {c}]
           = [must |-> must, may |-> may, keys |-> keys, idx |-> idx \ {c}]
  BY <1>1, <1>3
<1> QED
  BY <1>5, <1>6

LEMMA CreateGoes ==
  ASSUME NEW i, NEW T, NEW E, NEW X, NEW t, t \notin T, Birth(i, t).op = "create", Birth(i, t).t = t,
         Added(E, t) = {}, \A x \in X : OfTable(x) # t
  PROVE  Goes(i, Made(i, T, E, X), Birth(i, t), Made(i, T \union {t}, E, X))
<1> DEFINE s == Made(i, T, E, X)
           st == Birth(i, t)
<1>1. DOMAIN s = T /\ \A u \in T : s[u] = Table(i, u, E, X)
  BY DEF Made
<1>2. Table(i, t, E, X) = [must |-> st.must, may |-> st.may, keys |-> st.keys, idx |-> {}]
  <2>1. {x \in X : OfTable(x) = t} = {} /\ st.may \union Added(E, t) = st.may
    OBVIOUS
  <2> QED
    BY <2>1 DEF Table
<1> HIDE DEF s, st
<1>3. Deploy(i)!Applies(s, st)
  BY <1>1 DEF Deploy!Applies, st
<1>4. Deploy(i)!Applied(s, st) =
        [u \in DOMAIN s \union {t} |->
           IF u = t THEN [must |-> st.must, may |-> st.may, keys |-> st.keys, idx |-> {}] ELSE s[u]]
  BY DEF Deploy!Applied, st
<1>5. [u \in DOMAIN s \union {t} |->
         IF u = t THEN [must |-> st.must, may |-> st.may, keys |-> st.keys, idx |-> {}] ELSE s[u]]
      = Made(i, T \union {t}, E, X)
  <2>1. \A u \in T \union {t} :
          (IF u = t THEN [must |-> st.must, may |-> st.may, keys |-> st.keys, idx |-> {}] ELSE s[u])
          = Table(i, u, E, X)
    BY <1>1, <1>2
  <2> QED
    BY <1>1, <2>1 DEF Made
<1> QED
  BY <1>3, <1>4, <1>5 DEF Goes, s, st

LEMMA DropGoes ==
  ASSUME NEW i, NEW T, NEW E, NEW X, NEW t \in T
  PROVE  Goes(i, Made(i, T, E, X), Deploy(i)!DropTable(t), Made(i, T \ {t}, E, X))
<1> DEFINE s == Made(i, T, E, X)
           st == Deploy(i)!DropTable(t)
<1>1. DOMAIN s = T /\ \A u \in T : s[u] = Table(i, u, E, X)
  BY DEF Made
<1>2. st.op = "drop" /\ st.t = t
  BY DEF Deploy!DropTable
<1> HIDE DEF s, st
<1>3. Deploy(i)!Applies(s, st)
  BY <1>1, <1>2 DEF Deploy!Applies
<1>4. Deploy(i)!Applied(s, st) = [u \in DOMAIN s \ {t} |-> s[u]]
  BY <1>2 DEF Deploy!Applied
<1>5. [u \in DOMAIN s \ {t} |-> s[u]] = Made(i, T \ {t}, E, X)
  BY <1>1 DEF Made
<1> QED
  BY <1>3, <1>4, <1>5 DEF Goes, s, st

LEMMA AddGoes ==
  ASSUME NEW i, NEW T, NEW E, NEW X, NEW t \in T, NEW c \in {"created_at", "updated_at", "version"},
         c \notin Birth(i, t).must, c \notin Birth(i, t).may, <<t, c>> \notin E
  PROVE  Goes(i, Made(i, T, E, X), Deploy(i)!AddColumn(t, c), Made(i, T, E \union {<<t, c>>}, X))
<1> DEFINE s == Made(i, T, E, X)
           st == Deploy(i)!AddColumn(t, c)
           F == E \union {<<t, c>>}
<1>1. DOMAIN s = T /\ \A u \in T : s[u] = Table(i, u, E, X)
  BY DEF Made
<1>2. st.op = "add" /\ st.t = t /\ st.c = c
  BY DEF Deploy!AddColumn
<1>6. Added(F, t) = Added(E, t) \union {c} /\ c \notin Added(E, t) /\ \A u : u # t => Added(F, u) = Added(E, u)
  BY DEF Added
<1> HIDE DEF s, st, F
<1>3. Deploy(i)!Applies(s, st)
  <2>1. c \notin Deploy(i)!Columns(s[t])
    BY <1>1, <1>6 DEF Deploy!Columns, Table
  <2> QED
    BY <1>1, <1>2, <2>1 DEF Deploy!Applies
<1>4. Deploy(i)!Applied(s, st) = [s EXCEPT ![t].may = @ \union {c}]
  BY <1>2 DEF Deploy!Applied
<1>7. [Table(i, t, E, X) EXCEPT !.may = @ \union {c}] = Table(i, t, F, X)
  <2>1. (Birth(i, t).may \union Added(E, t)) \union {c} = Birth(i, t).may \union Added(F, t)
    BY <1>6
  <2> DEFINE table == Table(i, t, E, X)
             may == Birth(i, t).may \union Added(E, t)
             idx == {x \in X : OfTable(x) = t}
  <2>2. table = [must |-> Birth(i, t).must, may |-> may, keys |-> Birth(i, t).keys, idx |-> idx]
    BY DEF Table
  <2> HIDE DEF table, may, idx
  <2>3. [table EXCEPT !.may = @ \union {c}]
        = [must |-> Birth(i, t).must, may |-> may \union {c}, keys |-> Birth(i, t).keys, idx |-> idx]
    BY <2>2, Rewritten
  <2> QED
    BY <2>1, <2>3 DEF table, may, idx, Table
<1>8. \A u \in T : u # t => Table(i, u, F, X) = Table(i, u, E, X)
  BY <1>6 DEF Table
<1>5. [s EXCEPT ![t].may = @ \union {c}] = Made(i, T, F, X)
  <2>1. [s EXCEPT ![t].may = @ \union {c}]
        = [u \in T |-> IF u = t THEN [s[t] EXCEPT !.may = @ \union {c}] ELSE s[u]]
    BY <1>1 DEF s, Made
  <2>2. \A u \in T : (IF u = t THEN [s[t] EXCEPT !.may = @ \union {c}] ELSE s[u]) = Table(i, u, F, X)
    BY <1>1, <1>7, <1>8
  <2> QED
    BY <2>1, <2>2 DEF Made
<1> QED
  BY <1>3, <1>4, <1>5 DEF Goes, s, st, F

LEMMA RemoveGoes ==
  ASSUME NEW i, NEW T, NEW E, NEW X, NEW t \in T, NEW c \in {"created_at", "updated_at", "version"},
         c \notin Birth(i, t).must, c \notin Birth(i, t).may, <<t, c>> \in E
  PROVE  Goes(i, Made(i, T, E, X), Deploy(i)!DropColumn(t, c), Made(i, T, E \ {<<t, c>>}, X))
<1> DEFINE s == Made(i, T, E, X)
           st == Deploy(i)!DropColumn(t, c)
           F == E \ {<<t, c>>}
<1>1. DOMAIN s = T /\ \A u \in T : s[u] = Table(i, u, E, X)
  BY DEF Made
<1>2. st.op = "remove" /\ st.t = t /\ st.c = c
  BY DEF Deploy!DropColumn
<1>6. Added(F, t) = Added(E, t) \ {c} /\ c \in Added(E, t) /\ \A u : u # t => Added(F, u) = Added(E, u)
  BY DEF Added
<1> HIDE DEF s, st, F
<1>3. Deploy(i)!Applies(s, st)
  <2>1. c \in Deploy(i)!Columns(s[t])
    BY <1>1, <1>6 DEF Deploy!Columns, Table
  <2> QED
    BY <1>1, <1>2, <2>1 DEF Deploy!Applies
<1>4. Deploy(i)!Applied(s, st)
      = [s EXCEPT ![t] = [must |-> @.must \ {c}, may |-> @.may \ {c}, keys |-> @.keys, idx |-> @.idx]]
  BY <1>2 DEF Deploy!Applied
<1>7. [must |-> Table(i, t, E, X).must \ {c}, may |-> Table(i, t, E, X).may \ {c},
       keys |-> Table(i, t, E, X).keys, idx |-> Table(i, t, E, X).idx] = Table(i, t, F, X)
  <2>1. Birth(i, t).must \ {c} = Birth(i, t).must
    OBVIOUS
  <2>2. (Birth(i, t).may \union Added(E, t)) \ {c} = Birth(i, t).may \union Added(F, t)
    BY <1>6
  <2> QED
    BY <2>1, <2>2 DEF Table
<1>8. \A u \in T : u # t => Table(i, u, F, X) = Table(i, u, E, X)
  BY <1>6 DEF Table
<1>5. [s EXCEPT ![t] = [must |-> @.must \ {c}, may |-> @.may \ {c}, keys |-> @.keys, idx |-> @.idx]]
      = Made(i, T, F, X)
  <2>1. [s EXCEPT ![t] = [must |-> @.must \ {c}, may |-> @.may \ {c}, keys |-> @.keys, idx |-> @.idx]]
        = [u \in T |-> IF u = t
                       THEN [must |-> s[t].must \ {c}, may |-> s[t].may \ {c}, keys |-> s[t].keys, idx |-> s[t].idx]
                       ELSE s[u]]
    BY <1>1 DEF s, Made
  <2>2. \A u \in T :
          (IF u = t THEN [must |-> s[t].must \ {c}, may |-> s[t].may \ {c}, keys |-> s[t].keys, idx |-> s[t].idx]
           ELSE s[u]) = Table(i, u, F, X)
    BY <1>1, <1>7, <1>8
  <2> QED
    BY <2>1, <2>2 DEF Made
<1> QED
  BY <1>3, <1>4, <1>5 DEF Goes, s, st, F

LEMMA IndexGoes ==
  ASSUME NEW i, NEW T, NEW E, NEW X, NEW x, x \notin X, OfTable(x) \in T
  PROVE  Goes(i, Made(i, T, E, X), Deploy(i)!CreateIndex(OfTable(x), x), Made(i, T, E, X \union {x}))
<1> DEFINE s == Made(i, T, E, X)
           t == OfTable(x)
           st == Deploy(i)!CreateIndex(t, x)
           Y == X \union {x}
<1>1. DOMAIN s = T /\ \A u \in T : s[u] = Table(i, u, E, X)
  BY DEF Made
<1>2. st.op = "index" /\ st.t = t /\ st.i = x
  BY DEF Deploy!CreateIndex
<1>6. /\ {y \in Y : OfTable(y) = t} = {y \in X : OfTable(y) = t} \union {x}
      /\ \A u : u # t => {y \in Y : OfTable(y) = u} = {y \in X : OfTable(y) = u}
  OBVIOUS
<1> HIDE DEF s, st, Y, t
<1>3. Deploy(i)!Applies(s, st)
  <2>1. \A u \in DOMAIN s : x \notin s[u].idx
    BY <1>1 DEF Table
  <2> QED
    BY <1>1, <1>2, <2>1 DEF Deploy!Applies, t
<1>4. Deploy(i)!Applied(s, st) = [s EXCEPT ![t].idx = @ \union {x}]
  BY <1>2 DEF Deploy!Applied
<1>7. [Table(i, t, E, X) EXCEPT !.idx = @ \union {x}] = Table(i, t, E, Y)
  <2> DEFINE table == Table(i, t, E, X)
             may == Birth(i, t).may \union Added(E, t)
             idx == {y \in X : OfTable(y) = t}
  <2>1. table = [must |-> Birth(i, t).must, may |-> may, keys |-> Birth(i, t).keys, idx |-> idx]
    BY DEF Table
  <2> HIDE DEF table, may, idx
  <2>2. [table EXCEPT !.idx = @ \union {x}]
        = [must |-> Birth(i, t).must, may |-> may, keys |-> Birth(i, t).keys, idx |-> idx \union {x}]
    BY <2>1, Rewritten
  <2> QED
    BY <1>6, <2>2 DEF table, may, idx, Table
<1>8. \A u \in T : u # t => Table(i, u, E, Y) = Table(i, u, E, X)
  BY <1>6 DEF Table
<1>5. [s EXCEPT ![t].idx = @ \union {x}] = Made(i, T, E, Y)
  <2>1. [s EXCEPT ![t].idx = @ \union {x}]
        = [u \in T |-> IF u = t THEN [s[t] EXCEPT !.idx = @ \union {x}] ELSE s[u]]
    BY <1>1 DEF s, Made
  <2>2. \A u \in T : (IF u = t THEN [s[t] EXCEPT !.idx = @ \union {x}] ELSE s[u]) = Table(i, u, E, Y)
    BY <1>1, <1>7, <1>8 DEF t
  <2> QED
    BY <2>1, <2>2 DEF Made
<1> QED
  BY <1>3, <1>4, <1>5 DEF Goes, s, st, Y, t

LEMMA UnindexGoes ==
  ASSUME NEW i, NEW T, NEW E, NEW X, NEW x \in X, OfTable(x) \in T
  PROVE  Goes(i, Made(i, T, E, X), Deploy(i)!DropIndex(x), Made(i, T, E, X \ {x}))
<1> DEFINE s == Made(i, T, E, X)
           st == Deploy(i)!DropIndex(x)
           Y == X \ {x}
<1>1. DOMAIN s = T /\ \A u \in T : s[u] = Table(i, u, E, X)
  BY DEF Made
<1>2. st.op = "unindex" /\ st.i = x
  BY DEF Deploy!DropIndex
<1>6. \A u : {y \in Y : OfTable(y) = u} = {y \in X : OfTable(y) = u} \ {x}
  OBVIOUS
<1> HIDE DEF s, st, Y
<1>3. Deploy(i)!Applies(s, st)
  <2>1. x \in s[OfTable(x)].idx /\ OfTable(x) \in DOMAIN s
    BY <1>1 DEF Table
  <2> QED
    BY <1>2, <2>1 DEF Deploy!Applies
<1>4. Deploy(i)!Applied(s, st) = [u \in DOMAIN s |-> [s[u] EXCEPT !.idx = @ \ {x}]]
  BY <1>2 DEF Deploy!Applied
<1>5. ASSUME NEW u \in T
      PROVE  [s[u] EXCEPT !.idx = @ \ {x}] = Table(i, u, E, Y)
  <2> DEFINE table == s[u]
             may == Birth(i, u).may \union Added(E, u)
             idx == {y \in X : OfTable(y) = u}
  <2>1. table = [must |-> Birth(i, u).must, may |-> may, keys |-> Birth(i, u).keys, idx |-> idx]
    BY <1>1 DEF Table
  <2> HIDE DEF table, may, idx
  <2>2. [table EXCEPT !.idx = @ \ {x}]
        = [must |-> Birth(i, u).must, may |-> may, keys |-> Birth(i, u).keys, idx |-> idx \ {x}]
    BY <2>1, Rewritten
  <2> QED
    BY <1>6, <2>2 DEF table, may, idx, Table
<1>7. [u \in DOMAIN s |-> [s[u] EXCEPT !.idx = @ \ {x}]] = Made(i, T, E, Y)
  BY <1>1, <1>5 DEF Made
<1> QED
  BY <1>3, <1>4, <1>7 DEF Goes, s, st, Y

LEMMA RowsGo ==
  ASSUME NEW i, NEW T, NEW E, NEW X, NEW ps, "role_permissions" \in T
  PROVE  /\ Goes(i, Made(i, T, E, X), Deploy(i)!Grant(ps), Made(i, T, E, X))
         /\ Goes(i, Made(i, T, E, X), Deploy(i)!Revoke(ps), Made(i, T, E, X))
<1> DEFINE s == Made(i, T, E, X)
<1>1. DOMAIN s = T
  BY DEF Made
<1> HIDE DEF s
<1>2. ASSUME NEW st, st.op \in {"grant", "revoke"}
      PROVE  Goes(i, s, st, s)
  BY <1>1, <1>2 DEF Deploy!Applies, Deploy!Applied, Goes
<1>3. Deploy(i)!Grant(ps).op = "grant" /\ Deploy(i)!Revoke(ps).op = "revoke"
  BY DEF Deploy!Grant, Deploy!Revoke
<1> QED
  BY <1>2, <1>3 DEF s

-----------------------------------------------------------------------------
(* The timeline: the schema after its first n migrations.                    *)

TablesAt(n) ==
    (IF n >= 1 THEN {"users"} ELSE {})
    \union (IF n >= 2 THEN {"roles", "role_permissions"} ELSE {})
    \union (IF n >= 3 THEN {"tenants", "memberships", "membership_roles"} ELSE {})
    \union (IF n >= 4 THEN {"user_local_passwords", "refresh_sessions", "password_reset_tokens"} ELSE {})
    \union (IF n >= 5 THEN {"invitations", "invitation_roles"} ELSE {})
    \union (IF n >= 7 THEN {"outbox"} ELSE {})
    \union (IF n >= 10 THEN {"idempotency_keys"} ELSE {})
    \union (IF n >= 11 THEN {"api_keys"} ELSE {})

IndexesAt(n) ==
    (IF n >= 3 THEN {"tenants.tenant_id"} ELSE {})
    \union (IF n >= 4 THEN {"refresh_sessions.family_id", "refresh_sessions.user_id"} ELSE {})
    \union (IF n >= 5 THEN {"invitations.pending"} ELSE {})
    \union (IF n >= 7 THEN {"outbox.pending"} ELSE {})
    \union (IF n >= 9 THEN {"membership_roles.role_id"} ELSE {})
    \union (IF n >= 10 THEN {"idempotency_keys.expires_at"} ELSE {})
    \union (IF n >= 11 THEN {"api_keys.tenant_id"} ELSE {})
    \union (IF n >= 13 THEN {"refresh_sessions.expires_at"} ELSE {})
    \union (IF n >= 14 THEN {"password_reset_tokens.expires_at"} ELSE {})
    \union (IF n >= 15 THEN {"invitations.expires_at"} ELSE {})
    \union (IF n >= 16 THEN {"outbox.processing_updated_at"} ELSE {})

AuditTables ==
    {"users", "user_local_passwords", "refresh_sessions", "password_reset_tokens", "tenants", "memberships",
     "membership_roles", "invitations", "invitation_roles", "roles", "role_permissions"}

\* The columns AddAuditAndVersionColumns adds.
AuditColumns ==
    (AuditTables \X {"created_at", "updated_at"})
      \union {<<"roles", "version">>, <<"memberships", "version">>, <<"outbox", "updated_at">>}

ColumnsAt(n) == IF n >= 8 THEN AuditColumns ELSE {}

At(i, n) == Made(i, TablesAt(n), ColumnsAt(n), IndexesAt(n))

LEMMA Timelines ==
  ASSUME NEW i
  PROVE /\ Deploy(i)!postgresMigrations[1] = Deploy(i)!CreateUsers
        /\ Deploy(i)!postgresMigrations[2] = Deploy(i)!CreateRoles
        /\ Deploy(i)!postgresMigrations[3] = Deploy(i)!CreateTenantsAndMemberships
        /\ Deploy(i)!postgresMigrations[4] = Deploy(i)!CreateCredentials
        /\ Deploy(i)!postgresMigrations[5] = Deploy(i)!CreateInvitations
        /\ Deploy(i)!postgresMigrations[6] = Deploy(i)!BackfillAdminPermissions
        /\ Deploy(i)!postgresMigrations[7] = Deploy(i)!CreateOutbox
        /\ Deploy(i)!postgresMigrations[8] = Deploy(i)!AddAuditAndVersionColumns
        /\ Deploy(i)!postgresMigrations[9] = Deploy(i)!IndexMembershipRolesRoleId
        /\ Deploy(i)!postgresMigrations[10] = Deploy(i)!CreateIdempotencyKeys
        /\ Deploy(i)!postgresMigrations[11] = Deploy(i)!CreateApiKeys
        /\ Deploy(i)!postgresMigrations[12] = Deploy(i)!BackfillAdminApiKeysManage
        /\ Deploy(i)!postgresMigrations[13] = Deploy(i)!IndexRefreshSessionExpiry
        /\ Deploy(i)!postgresMigrations[14] = Deploy(i)!IndexPasswordResetExpiry
        /\ Deploy(i)!postgresMigrations[15] = Deploy(i)!IndexInvitationExpiry
        /\ Deploy(i)!postgresMigrations[16] = Deploy(i)!IndexOutboxProcessing
BY DEF Deploy!postgresMigrations

\* Every table is born by a CREATE TABLE of its own.
LEMMA Births ==
  ASSUME NEW i
  PROVE  /\ Deploy(i)!CreateUsers.up = <<Birth(i, "users")>>
         /\ Deploy(i)!CreateRoles.up = <<Birth(i, "roles"), Birth(i, "role_permissions")>>
         /\ Deploy(i)!CreateTenantsAndMemberships.up
              = <<Birth(i, "tenants"), Deploy(i)!CreateIndex("tenants", "tenants.tenant_id"),
                  Birth(i, "memberships"), Birth(i, "membership_roles")>>
         /\ Deploy(i)!CreateCredentials.up
              = <<Birth(i, "user_local_passwords"), Birth(i, "refresh_sessions"),
                  Deploy(i)!CreateIndex("refresh_sessions", "refresh_sessions.family_id"),
                  Deploy(i)!CreateIndex("refresh_sessions", "refresh_sessions.user_id"),
                  Birth(i, "password_reset_tokens")>>
         /\ Deploy(i)!CreateInvitations.up
              = <<Birth(i, "invitations"), Deploy(i)!CreateIndex("invitations", "invitations.pending"),
                  Birth(i, "invitation_roles")>>
         /\ Deploy(i)!CreateOutbox.up
              = <<Birth(i, "outbox"), Deploy(i)!CreateIndex("outbox", "outbox.pending")>>
         /\ Deploy(i)!CreateIdempotencyKeys.up
              = <<Birth(i, "idempotency_keys"),
                  Deploy(i)!CreateIndex("idempotency_keys", "idempotency_keys.expires_at")>>
         /\ Deploy(i)!CreateApiKeys.up
              = <<Birth(i, "api_keys"), Deploy(i)!CreateIndex("api_keys", "api_keys.tenant_id")>>
<1>1. Birth(i, "users") = Deploy(i)!CreateUsers.up[1]
  BY DEF Birth
<1>2. Birth(i, "roles") = Deploy(i)!CreateRoles.up[1] /\ Birth(i, "role_permissions") = Deploy(i)!CreateRoles.up[2]
  BY DEF Birth
<1>3. Birth(i, "tenants") = Deploy(i)!CreateTenantsAndMemberships.up[1] /\ Birth(i, "memberships") = Deploy(i)!CreateTenantsAndMemberships.up[3] /\ Birth(i, "membership_roles") = Deploy(i)!CreateTenantsAndMemberships.up[4]
  BY DEF Birth
<1>4. Birth(i, "user_local_passwords") = Deploy(i)!CreateCredentials.up[1] /\ Birth(i, "refresh_sessions") = Deploy(i)!CreateCredentials.up[2] /\ Birth(i, "password_reset_tokens") = Deploy(i)!CreateCredentials.up[5]
  BY DEF Birth
<1>5. Birth(i, "invitations") = Deploy(i)!CreateInvitations.up[1] /\ Birth(i, "invitation_roles") = Deploy(i)!CreateInvitations.up[3]
  BY DEF Birth
<1>6. Birth(i, "outbox") = Deploy(i)!CreateOutbox.up[1]
  BY DEF Birth
<1>7. Birth(i, "idempotency_keys") = Deploy(i)!CreateIdempotencyKeys.up[1]
  BY DEF Birth
<1>8. Birth(i, "api_keys") = Deploy(i)!CreateApiKeys.up[1]
  BY DEF Birth
<1> QED
  BY <1>1, <1>2, <1>3, <1>4, <1>5, <1>6, <1>7, <1>8
  DEF Deploy!CreateUsers, Deploy!CreateRoles, Deploy!CreateTenantsAndMemberships, Deploy!CreateCredentials, Deploy!CreateInvitations, Deploy!CreateOutbox, Deploy!CreateIdempotencyKeys, Deploy!CreateApiKeys

LEMMA Born ==
  ASSUME NEW i, NEW t \in TablesAt(16)
  PROVE  Birth(i, t).op = "create" /\ Birth(i, t).t = t
<1>1. ASSUME t = "users" PROVE Birth(i, t).op = "create" /\ Birth(i, t).t = t
  BY <1>1 DEF Birth, Deploy!CreateUsers, Deploy!CreateTable
<1>2. ASSUME t = "roles" PROVE Birth(i, t).op = "create" /\ Birth(i, t).t = t
  BY <1>2 DEF Birth, Deploy!CreateRoles, Deploy!CreateTable
<1>3. ASSUME t = "role_permissions" PROVE Birth(i, t).op = "create" /\ Birth(i, t).t = t
  BY <1>3 DEF Birth, Deploy!CreateRoles, Deploy!CreateTable
<1>4. ASSUME t = "tenants" PROVE Birth(i, t).op = "create" /\ Birth(i, t).t = t
  BY <1>4 DEF Birth, Deploy!CreateTenantsAndMemberships, Deploy!CreateTable
<1>5. ASSUME t = "memberships" PROVE Birth(i, t).op = "create" /\ Birth(i, t).t = t
  BY <1>5 DEF Birth, Deploy!CreateTenantsAndMemberships, Deploy!CreateTable
<1>6. ASSUME t = "membership_roles" PROVE Birth(i, t).op = "create" /\ Birth(i, t).t = t
  BY <1>6 DEF Birth, Deploy!CreateTenantsAndMemberships, Deploy!CreateTable
<1>7. ASSUME t = "user_local_passwords" PROVE Birth(i, t).op = "create" /\ Birth(i, t).t = t
  BY <1>7 DEF Birth, Deploy!CreateCredentials, Deploy!CreateTable
<1>8. ASSUME t = "refresh_sessions" PROVE Birth(i, t).op = "create" /\ Birth(i, t).t = t
  BY <1>8 DEF Birth, Deploy!CreateCredentials, Deploy!CreateTable
<1>9. ASSUME t = "password_reset_tokens" PROVE Birth(i, t).op = "create" /\ Birth(i, t).t = t
  BY <1>9 DEF Birth, Deploy!CreateCredentials, Deploy!CreateTable
<1>10. ASSUME t = "invitations" PROVE Birth(i, t).op = "create" /\ Birth(i, t).t = t
  BY <1>10 DEF Birth, Deploy!CreateInvitations, Deploy!CreateTable
<1>11. ASSUME t = "invitation_roles" PROVE Birth(i, t).op = "create" /\ Birth(i, t).t = t
  BY <1>11 DEF Birth, Deploy!CreateInvitations, Deploy!CreateTable
<1>12. ASSUME t = "outbox" PROVE Birth(i, t).op = "create" /\ Birth(i, t).t = t
  BY <1>12 DEF Birth, Deploy!CreateOutbox, Deploy!CreateTable
<1>13. ASSUME t = "idempotency_keys" PROVE Birth(i, t).op = "create" /\ Birth(i, t).t = t
  BY <1>13 DEF Birth, Deploy!CreateIdempotencyKeys, Deploy!CreateTable
<1>14. ASSUME t = "api_keys" PROVE Birth(i, t).op = "create" /\ Birth(i, t).t = t
  BY <1>14 DEF Birth, Deploy!CreateApiKeys, Deploy!CreateTable
<1> QED
  BY <1>1, <1>2, <1>3, <1>4, <1>5, <1>6, <1>7, <1>8, <1>9, <1>10, <1>11, <1>12, <1>13, <1>14 DEF TablesAt

\* The tables the indexes are on.
LEMMA Indexed ==
  /\ OfTable("tenants.tenant_id") = "tenants"
  /\ OfTable("refresh_sessions.family_id") = "refresh_sessions"
  /\ OfTable("refresh_sessions.user_id") = "refresh_sessions"
  /\ OfTable("refresh_sessions.expires_at") = "refresh_sessions"
  /\ OfTable("password_reset_tokens.expires_at") = "password_reset_tokens"
  /\ OfTable("invitations.pending") = "invitations"
  /\ OfTable("invitations.expires_at") = "invitations"
  /\ OfTable("outbox.pending") = "outbox"
  /\ OfTable("outbox.processing_updated_at") = "outbox"
  /\ OfTable("membership_roles.role_id") = "membership_roles"
  /\ OfTable("idempotency_keys.expires_at") = "idempotency_keys"
  /\ OfTable("api_keys.tenant_id") = "api_keys"
BY DEF OfTable

\* Every up but the one of the audit columns takes its place in the timeline.
LEMMA UpsGo ==
  ASSUME NEW i, NEW m \in 1 .. 16, m # 8
  PROVE  Deploy(i)!Execute(At(i, m - 1), Deploy(i)!postgresMigrations[m].up) = {At(i, m)}
<1>1. Deploy(i)!Execute(At(i, 0), Deploy(i)!postgresMigrations[1].up) = {At(i, 1)}
  <2> DEFINE T == TablesAt(0)
             E == ColumnsAt(0)
             X == IndexesAt(0)
  <2>1. /\ "users" \notin T
    BY DEF TablesAt, IndexesAt
  <2>2. /\ "users" \in TablesAt(16) /\ Added(E, "users") = {} /\ \A x \in X : OfTable(x) # "users"
    BY Indexed DEF TablesAt, IndexesAt, ColumnsAt, AuditColumns, AuditTables, Added
  <2>3. TablesAt(1) = T \union {"users"} /\ ColumnsAt(1) = E /\ IndexesAt(1) = X
    BY DEF TablesAt, ColumnsAt, IndexesAt
  <2> HIDE DEF T, E, X
  <2>4. Goes(i, Made(i, T, E, X),
             Birth(i, "users"),
             Made(i, T \union {"users"}, E, X))
    BY <2>1, <2>2, Indexed, Born, CreateGoes
  <2>5. Deploy(i)!postgresMigrations[1].up
        = <<Birth(i, "users")>>
    BY Timelines, Births
  <2>6. Deploy(i)!Execute(At(i, 0), Deploy(i)!postgresMigrations[1].up)
        = {Made(i, T \union {"users"}, E, X)}
    <3>1. At(i, 0) = Made(i, T, E, X)
      BY DEF At, T, E, X
    <3> QED
      BY <3>1, <2>5, <2>4, ExecuteOne
  <2> QED
    BY <2>3, <2>6 DEF At
<1>2. Deploy(i)!Execute(At(i, 1), Deploy(i)!postgresMigrations[2].up) = {At(i, 2)}
  <2> DEFINE T == TablesAt(1)
             E == ColumnsAt(1)
             X == IndexesAt(1)
  <2>1. /\ "roles" \notin T
        /\ "role_permissions" \notin T
    BY DEF TablesAt, IndexesAt
  <2>2. /\ "roles" \in TablesAt(16) /\ Added(E, "roles") = {} /\ \A x \in X : OfTable(x) # "roles"
        /\ "role_permissions" \in TablesAt(16) /\ Added(E, "role_permissions") = {} /\ \A x \in X : OfTable(x) # "role_permissions"
    BY Indexed DEF TablesAt, IndexesAt, ColumnsAt, AuditColumns, AuditTables, Added
  <2>3. TablesAt(2) = (T \union {"roles"}) \union {"role_permissions"} /\ ColumnsAt(2) = E /\ IndexesAt(2) = X
    BY DEF TablesAt, ColumnsAt, IndexesAt
  <2> HIDE DEF T, E, X
  <2>4. Goes(i, Made(i, T, E, X),
             Birth(i, "roles"),
             Made(i, T \union {"roles"}, E, X))
    BY <2>1, <2>2, Indexed, Born, CreateGoes
  <2>5. Goes(i, Made(i, T \union {"roles"}, E, X),
             Birth(i, "role_permissions"),
             Made(i, (T \union {"roles"}) \union {"role_permissions"}, E, X))
    BY <2>1, <2>2, Indexed, Born, CreateGoes
  <2>6. Deploy(i)!postgresMigrations[2].up
        = <<Birth(i, "roles"),
            Birth(i, "role_permissions")>>
    BY Timelines, Births
  <2>7. Deploy(i)!Execute(At(i, 1), Deploy(i)!postgresMigrations[2].up)
        = {Made(i, (T \union {"roles"}) \union {"role_permissions"}, E, X)}
    <3>1. At(i, 1) = Made(i, T, E, X)
      BY DEF At, T, E, X
    <3> QED
      BY <3>1, <2>6, <2>4, <2>5, ExecuteTwo
  <2> QED
    BY <2>3, <2>7 DEF At
<1>3. Deploy(i)!Execute(At(i, 2), Deploy(i)!postgresMigrations[3].up) = {At(i, 3)}
  <2> DEFINE T == TablesAt(2)
             E == ColumnsAt(2)
             X == IndexesAt(2)
  <2>1. /\ "tenants" \notin T
        /\ "memberships" \notin T
        /\ "membership_roles" \notin T
        /\ "tenants.tenant_id" \notin X
    BY DEF TablesAt, IndexesAt
  <2>2. /\ "tenants" \in TablesAt(16) /\ Added(E, "tenants") = {} /\ \A x \in X : OfTable(x) # "tenants"
        /\ "memberships" \in TablesAt(16) /\ Added(E, "memberships") = {} /\ \A x \in X : OfTable(x) # "memberships"
        /\ "membership_roles" \in TablesAt(16) /\ Added(E, "membership_roles") = {} /\ \A x \in X : OfTable(x) # "membership_roles"
    BY Indexed DEF TablesAt, IndexesAt, ColumnsAt, AuditColumns, AuditTables, Added
  <2>3. TablesAt(3) = ((T \union {"tenants"}) \union {"memberships"}) \union {"membership_roles"} /\ ColumnsAt(3) = E /\ IndexesAt(3) = X \union {"tenants.tenant_id"}
    BY DEF TablesAt, ColumnsAt, IndexesAt
  <2> HIDE DEF T, E, X
  <2>4. Goes(i, Made(i, T, E, X),
             Birth(i, "tenants"),
             Made(i, T \union {"tenants"}, E, X))
    BY <2>1, <2>2, Indexed, Born, CreateGoes
  <2>5. Goes(i, Made(i, T \union {"tenants"}, E, X),
             Deploy(i)!CreateIndex("tenants", "tenants.tenant_id"),
             Made(i, T \union {"tenants"}, E, X \union {"tenants.tenant_id"}))
    BY <2>1, Indexed, IndexGoes
  <2>6. Goes(i, Made(i, T \union {"tenants"}, E, X \union {"tenants.tenant_id"}),
             Birth(i, "memberships"),
             Made(i, (T \union {"tenants"}) \union {"memberships"}, E, X \union {"tenants.tenant_id"}))
    BY <2>1, <2>2, Indexed, Born, CreateGoes
  <2>7. Goes(i, Made(i, (T \union {"tenants"}) \union {"memberships"}, E, X \union {"tenants.tenant_id"}),
             Birth(i, "membership_roles"),
             Made(i, ((T \union {"tenants"}) \union {"memberships"}) \union {"membership_roles"}, E, X \union {"tenants.tenant_id"}))
    BY <2>1, <2>2, Indexed, Born, CreateGoes
  <2>8. Deploy(i)!postgresMigrations[3].up
        = <<Birth(i, "tenants"),
            Deploy(i)!CreateIndex("tenants", "tenants.tenant_id"),
            Birth(i, "memberships"),
            Birth(i, "membership_roles")>>
    BY Timelines, Births
  <2>9. Deploy(i)!Execute(At(i, 2), Deploy(i)!postgresMigrations[3].up)
        = {Made(i, ((T \union {"tenants"}) \union {"memberships"}) \union {"membership_roles"}, E, X \union {"tenants.tenant_id"})}
    <3>1. At(i, 2) = Made(i, T, E, X)
      BY DEF At, T, E, X
    <3> QED
      BY <3>1, <2>8, <2>4, <2>5, <2>6, <2>7, ExecuteFour
  <2> QED
    BY <2>3, <2>9 DEF At
<1>4. Deploy(i)!Execute(At(i, 3), Deploy(i)!postgresMigrations[4].up) = {At(i, 4)}
  <2> DEFINE T == TablesAt(3)
             E == ColumnsAt(3)
             X == IndexesAt(3)
  <2>1. /\ "user_local_passwords" \notin T
        /\ "refresh_sessions" \notin T
        /\ "password_reset_tokens" \notin T
        /\ "refresh_sessions.family_id" \notin X
        /\ "refresh_sessions.user_id" \notin X
    BY DEF TablesAt, IndexesAt
  <2>2. /\ "user_local_passwords" \in TablesAt(16) /\ Added(E, "user_local_passwords") = {} /\ \A x \in X : OfTable(x) # "user_local_passwords"
        /\ "refresh_sessions" \in TablesAt(16) /\ Added(E, "refresh_sessions") = {} /\ \A x \in X : OfTable(x) # "refresh_sessions"
        /\ "password_reset_tokens" \in TablesAt(16) /\ Added(E, "password_reset_tokens") = {} /\ \A x \in X : OfTable(x) # "password_reset_tokens"
    BY Indexed DEF TablesAt, IndexesAt, ColumnsAt, AuditColumns, AuditTables, Added
  <2>3. TablesAt(4) = ((T \union {"user_local_passwords"}) \union {"refresh_sessions"}) \union {"password_reset_tokens"} /\ ColumnsAt(4) = E /\ IndexesAt(4) = (X \union {"refresh_sessions.family_id"}) \union {"refresh_sessions.user_id"}
    BY DEF TablesAt, ColumnsAt, IndexesAt
  <2> HIDE DEF T, E, X
  <2>4. Goes(i, Made(i, T, E, X),
             Birth(i, "user_local_passwords"),
             Made(i, T \union {"user_local_passwords"}, E, X))
    BY <2>1, <2>2, Indexed, Born, CreateGoes
  <2>5. Goes(i, Made(i, T \union {"user_local_passwords"}, E, X),
             Birth(i, "refresh_sessions"),
             Made(i, (T \union {"user_local_passwords"}) \union {"refresh_sessions"}, E, X))
    BY <2>1, <2>2, Indexed, Born, CreateGoes
  <2>6. Goes(i, Made(i, (T \union {"user_local_passwords"}) \union {"refresh_sessions"}, E, X),
             Deploy(i)!CreateIndex("refresh_sessions", "refresh_sessions.family_id"),
             Made(i, (T \union {"user_local_passwords"}) \union {"refresh_sessions"}, E, X \union {"refresh_sessions.family_id"}))
    BY <2>1, Indexed, IndexGoes
  <2>7. Goes(i, Made(i, (T \union {"user_local_passwords"}) \union {"refresh_sessions"}, E, X \union {"refresh_sessions.family_id"}),
             Deploy(i)!CreateIndex("refresh_sessions", "refresh_sessions.user_id"),
             Made(i, (T \union {"user_local_passwords"}) \union {"refresh_sessions"}, E, (X \union {"refresh_sessions.family_id"}) \union {"refresh_sessions.user_id"}))
    BY <2>1, Indexed, IndexGoes
  <2>8. Goes(i, Made(i, (T \union {"user_local_passwords"}) \union {"refresh_sessions"}, E, (X \union {"refresh_sessions.family_id"}) \union {"refresh_sessions.user_id"}),
             Birth(i, "password_reset_tokens"),
             Made(i, ((T \union {"user_local_passwords"}) \union {"refresh_sessions"}) \union {"password_reset_tokens"}, E, (X \union {"refresh_sessions.family_id"}) \union {"refresh_sessions.user_id"}))
    BY <2>1, <2>2, Indexed, Born, CreateGoes
  <2>9. Deploy(i)!postgresMigrations[4].up
        = <<Birth(i, "user_local_passwords"),
            Birth(i, "refresh_sessions"),
            Deploy(i)!CreateIndex("refresh_sessions", "refresh_sessions.family_id"),
            Deploy(i)!CreateIndex("refresh_sessions", "refresh_sessions.user_id"),
            Birth(i, "password_reset_tokens")>>
    BY Timelines, Births
  <2>10. Deploy(i)!Execute(At(i, 3), Deploy(i)!postgresMigrations[4].up)
        = {Made(i, ((T \union {"user_local_passwords"}) \union {"refresh_sessions"}) \union {"password_reset_tokens"}, E, (X \union {"refresh_sessions.family_id"}) \union {"refresh_sessions.user_id"})}
    <3>1. At(i, 3) = Made(i, T, E, X)
      BY DEF At, T, E, X
    <3> QED
      BY <3>1, <2>9, <2>4, <2>5, <2>6, <2>7, <2>8, ExecuteFive
  <2> QED
    BY <2>3, <2>10 DEF At
<1>5. Deploy(i)!Execute(At(i, 4), Deploy(i)!postgresMigrations[5].up) = {At(i, 5)}
  <2> DEFINE T == TablesAt(4)
             E == ColumnsAt(4)
             X == IndexesAt(4)
  <2>1. /\ "invitations" \notin T
        /\ "invitation_roles" \notin T
        /\ "invitations.pending" \notin X
    BY DEF TablesAt, IndexesAt
  <2>2. /\ "invitations" \in TablesAt(16) /\ Added(E, "invitations") = {} /\ \A x \in X : OfTable(x) # "invitations"
        /\ "invitation_roles" \in TablesAt(16) /\ Added(E, "invitation_roles") = {} /\ \A x \in X : OfTable(x) # "invitation_roles"
    BY Indexed DEF TablesAt, IndexesAt, ColumnsAt, AuditColumns, AuditTables, Added
  <2>3. TablesAt(5) = (T \union {"invitations"}) \union {"invitation_roles"} /\ ColumnsAt(5) = E /\ IndexesAt(5) = X \union {"invitations.pending"}
    BY DEF TablesAt, ColumnsAt, IndexesAt
  <2> HIDE DEF T, E, X
  <2>4. Goes(i, Made(i, T, E, X),
             Birth(i, "invitations"),
             Made(i, T \union {"invitations"}, E, X))
    BY <2>1, <2>2, Indexed, Born, CreateGoes
  <2>5. Goes(i, Made(i, T \union {"invitations"}, E, X),
             Deploy(i)!CreateIndex("invitations", "invitations.pending"),
             Made(i, T \union {"invitations"}, E, X \union {"invitations.pending"}))
    BY <2>1, Indexed, IndexGoes
  <2>6. Goes(i, Made(i, T \union {"invitations"}, E, X \union {"invitations.pending"}),
             Birth(i, "invitation_roles"),
             Made(i, (T \union {"invitations"}) \union {"invitation_roles"}, E, X \union {"invitations.pending"}))
    BY <2>1, <2>2, Indexed, Born, CreateGoes
  <2>7. Deploy(i)!postgresMigrations[5].up
        = <<Birth(i, "invitations"),
            Deploy(i)!CreateIndex("invitations", "invitations.pending"),
            Birth(i, "invitation_roles")>>
    BY Timelines, Births
  <2>8. Deploy(i)!Execute(At(i, 4), Deploy(i)!postgresMigrations[5].up)
        = {Made(i, (T \union {"invitations"}) \union {"invitation_roles"}, E, X \union {"invitations.pending"})}
    <3>1. At(i, 4) = Made(i, T, E, X)
      BY DEF At, T, E, X
    <3> QED
      BY <3>1, <2>7, <2>4, <2>5, <2>6, ExecuteThree
  <2> QED
    BY <2>3, <2>8 DEF At
<1>6. Deploy(i)!Execute(At(i, 5), Deploy(i)!postgresMigrations[6].up) = {At(i, 6)}
  <2> DEFINE T == TablesAt(5)
             E == ColumnsAt(5)
             X == IndexesAt(5)
  <2>1. /\ "role_permissions" \in T
    BY DEF TablesAt, IndexesAt
  <2>3. TablesAt(6) = T /\ ColumnsAt(6) = E /\ IndexesAt(6) = X
    BY DEF TablesAt, ColumnsAt, IndexesAt
  <2> HIDE DEF T, E, X
  <2>4. Goes(i, Made(i, T, E, X),
             Deploy(i)!Grant(Deploy(i)!MemberPermissions),
             Made(i, T, E, X))
    BY <2>1, RowsGo
  <2>5. Deploy(i)!postgresMigrations[6].up
        = <<Deploy(i)!Grant(Deploy(i)!MemberPermissions)>>
    <3>1. Deploy(i)!postgresMigrations[6] = Deploy(i)!BackfillAdminPermissions
      BY Timelines
    <3> QED
      BY <3>1 DEF Deploy!BackfillAdminPermissions
  <2>6. Deploy(i)!Execute(At(i, 5), Deploy(i)!postgresMigrations[6].up)
        = {Made(i, T, E, X)}
    <3>1. At(i, 5) = Made(i, T, E, X)
      BY DEF At, T, E, X
    <3> QED
      BY <3>1, <2>5, <2>4, ExecuteOne
  <2> QED
    BY <2>3, <2>6 DEF At
<1>7. Deploy(i)!Execute(At(i, 6), Deploy(i)!postgresMigrations[7].up) = {At(i, 7)}
  <2> DEFINE T == TablesAt(6)
             E == ColumnsAt(6)
             X == IndexesAt(6)
  <2>1. /\ "outbox" \notin T
        /\ "outbox.pending" \notin X
    BY DEF TablesAt, IndexesAt
  <2>2. /\ "outbox" \in TablesAt(16) /\ Added(E, "outbox") = {} /\ \A x \in X : OfTable(x) # "outbox"
    BY Indexed DEF TablesAt, IndexesAt, ColumnsAt, AuditColumns, AuditTables, Added
  <2>3. TablesAt(7) = T \union {"outbox"} /\ ColumnsAt(7) = E /\ IndexesAt(7) = X \union {"outbox.pending"}
    BY DEF TablesAt, ColumnsAt, IndexesAt
  <2> HIDE DEF T, E, X
  <2>4. Goes(i, Made(i, T, E, X),
             Birth(i, "outbox"),
             Made(i, T \union {"outbox"}, E, X))
    BY <2>1, <2>2, Indexed, Born, CreateGoes
  <2>5. Goes(i, Made(i, T \union {"outbox"}, E, X),
             Deploy(i)!CreateIndex("outbox", "outbox.pending"),
             Made(i, T \union {"outbox"}, E, X \union {"outbox.pending"}))
    BY <2>1, Indexed, IndexGoes
  <2>6. Deploy(i)!postgresMigrations[7].up
        = <<Birth(i, "outbox"),
            Deploy(i)!CreateIndex("outbox", "outbox.pending")>>
    BY Timelines, Births
  <2>7. Deploy(i)!Execute(At(i, 6), Deploy(i)!postgresMigrations[7].up)
        = {Made(i, T \union {"outbox"}, E, X \union {"outbox.pending"})}
    <3>1. At(i, 6) = Made(i, T, E, X)
      BY DEF At, T, E, X
    <3> QED
      BY <3>1, <2>6, <2>4, <2>5, ExecuteTwo
  <2> QED
    BY <2>3, <2>7 DEF At
<1>9. Deploy(i)!Execute(At(i, 8), Deploy(i)!postgresMigrations[9].up) = {At(i, 9)}
  <2> DEFINE T == TablesAt(8)
             E == ColumnsAt(8)
             X == IndexesAt(8)
  <2>1. /\ "membership_roles.role_id" \notin X
        /\ "membership_roles" \in T
    BY DEF TablesAt, IndexesAt
  <2>3. TablesAt(9) = T /\ ColumnsAt(9) = E /\ IndexesAt(9) = X \union {"membership_roles.role_id"}
    BY DEF TablesAt, ColumnsAt, IndexesAt
  <2> HIDE DEF T, E, X
  <2>4. Goes(i, Made(i, T, E, X),
             Deploy(i)!CreateIndex("membership_roles", "membership_roles.role_id"),
             Made(i, T, E, X \union {"membership_roles.role_id"}))
    BY <2>1, Indexed, IndexGoes
  <2>5. Deploy(i)!postgresMigrations[9].up
        = <<Deploy(i)!CreateIndex("membership_roles", "membership_roles.role_id")>>
    <3>1. Deploy(i)!postgresMigrations[9] = Deploy(i)!IndexMembershipRolesRoleId
      BY Timelines
    <3> QED
      BY <3>1 DEF Deploy!IndexMembershipRolesRoleId, Deploy!OneIndex
  <2>6. Deploy(i)!Execute(At(i, 8), Deploy(i)!postgresMigrations[9].up)
        = {Made(i, T, E, X \union {"membership_roles.role_id"})}
    <3>1. At(i, 8) = Made(i, T, E, X)
      BY DEF At, T, E, X
    <3> QED
      BY <3>1, <2>5, <2>4, ExecuteOne
  <2> QED
    BY <2>3, <2>6 DEF At
<1>10. Deploy(i)!Execute(At(i, 9), Deploy(i)!postgresMigrations[10].up) = {At(i, 10)}
  <2> DEFINE T == TablesAt(9)
             E == ColumnsAt(9)
             X == IndexesAt(9)
  <2>1. /\ "idempotency_keys" \notin T
        /\ "idempotency_keys.expires_at" \notin X
    BY DEF TablesAt, IndexesAt
  <2>2. /\ "idempotency_keys" \in TablesAt(16) /\ Added(E, "idempotency_keys") = {} /\ \A x \in X : OfTable(x) # "idempotency_keys"
    BY Indexed DEF TablesAt, IndexesAt, ColumnsAt, AuditColumns, AuditTables, Added
  <2>3. TablesAt(10) = T \union {"idempotency_keys"} /\ ColumnsAt(10) = E /\ IndexesAt(10) = X \union {"idempotency_keys.expires_at"}
    BY DEF TablesAt, ColumnsAt, IndexesAt
  <2> HIDE DEF T, E, X
  <2>4. Goes(i, Made(i, T, E, X),
             Birth(i, "idempotency_keys"),
             Made(i, T \union {"idempotency_keys"}, E, X))
    BY <2>1, <2>2, Indexed, Born, CreateGoes
  <2>5. Goes(i, Made(i, T \union {"idempotency_keys"}, E, X),
             Deploy(i)!CreateIndex("idempotency_keys", "idempotency_keys.expires_at"),
             Made(i, T \union {"idempotency_keys"}, E, X \union {"idempotency_keys.expires_at"}))
    BY <2>1, Indexed, IndexGoes
  <2>6. Deploy(i)!postgresMigrations[10].up
        = <<Birth(i, "idempotency_keys"),
            Deploy(i)!CreateIndex("idempotency_keys", "idempotency_keys.expires_at")>>
    BY Timelines, Births
  <2>7. Deploy(i)!Execute(At(i, 9), Deploy(i)!postgresMigrations[10].up)
        = {Made(i, T \union {"idempotency_keys"}, E, X \union {"idempotency_keys.expires_at"})}
    <3>1. At(i, 9) = Made(i, T, E, X)
      BY DEF At, T, E, X
    <3> QED
      BY <3>1, <2>6, <2>4, <2>5, ExecuteTwo
  <2> QED
    BY <2>3, <2>7 DEF At
<1>11. Deploy(i)!Execute(At(i, 10), Deploy(i)!postgresMigrations[11].up) = {At(i, 11)}
  <2> DEFINE T == TablesAt(10)
             E == ColumnsAt(10)
             X == IndexesAt(10)
  <2>1. /\ "api_keys" \notin T
        /\ "api_keys.tenant_id" \notin X
    BY DEF TablesAt, IndexesAt
  <2>2. /\ "api_keys" \in TablesAt(16) /\ Added(E, "api_keys") = {} /\ \A x \in X : OfTable(x) # "api_keys"
    BY Indexed DEF TablesAt, IndexesAt, ColumnsAt, AuditColumns, AuditTables, Added
  <2>3. TablesAt(11) = T \union {"api_keys"} /\ ColumnsAt(11) = E /\ IndexesAt(11) = X \union {"api_keys.tenant_id"}
    BY DEF TablesAt, ColumnsAt, IndexesAt
  <2> HIDE DEF T, E, X
  <2>4. Goes(i, Made(i, T, E, X),
             Birth(i, "api_keys"),
             Made(i, T \union {"api_keys"}, E, X))
    BY <2>1, <2>2, Indexed, Born, CreateGoes
  <2>5. Goes(i, Made(i, T \union {"api_keys"}, E, X),
             Deploy(i)!CreateIndex("api_keys", "api_keys.tenant_id"),
             Made(i, T \union {"api_keys"}, E, X \union {"api_keys.tenant_id"}))
    BY <2>1, Indexed, IndexGoes
  <2>6. Deploy(i)!postgresMigrations[11].up
        = <<Birth(i, "api_keys"),
            Deploy(i)!CreateIndex("api_keys", "api_keys.tenant_id")>>
    BY Timelines, Births
  <2>7. Deploy(i)!Execute(At(i, 10), Deploy(i)!postgresMigrations[11].up)
        = {Made(i, T \union {"api_keys"}, E, X \union {"api_keys.tenant_id"})}
    <3>1. At(i, 10) = Made(i, T, E, X)
      BY DEF At, T, E, X
    <3> QED
      BY <3>1, <2>6, <2>4, <2>5, ExecuteTwo
  <2> QED
    BY <2>3, <2>7 DEF At
<1>12. Deploy(i)!Execute(At(i, 11), Deploy(i)!postgresMigrations[12].up) = {At(i, 12)}
  <2> DEFINE T == TablesAt(11)
             E == ColumnsAt(11)
             X == IndexesAt(11)
  <2>1. /\ "role_permissions" \in T
    BY DEF TablesAt, IndexesAt
  <2>3. TablesAt(12) = T /\ ColumnsAt(12) = E /\ IndexesAt(12) = X
    BY DEF TablesAt, ColumnsAt, IndexesAt
  <2> HIDE DEF T, E, X
  <2>4. Goes(i, Made(i, T, E, X),
             Deploy(i)!Grant({"identity.api_keys.manage"}),
             Made(i, T, E, X))
    BY <2>1, RowsGo
  <2>5. Deploy(i)!postgresMigrations[12].up
        = <<Deploy(i)!Grant({"identity.api_keys.manage"})>>
    <3>1. Deploy(i)!postgresMigrations[12] = Deploy(i)!BackfillAdminApiKeysManage
      BY Timelines
    <3> QED
      BY <3>1 DEF Deploy!BackfillAdminApiKeysManage
  <2>6. Deploy(i)!Execute(At(i, 11), Deploy(i)!postgresMigrations[12].up)
        = {Made(i, T, E, X)}
    <3>1. At(i, 11) = Made(i, T, E, X)
      BY DEF At, T, E, X
    <3> QED
      BY <3>1, <2>5, <2>4, ExecuteOne
  <2> QED
    BY <2>3, <2>6 DEF At
<1>13. Deploy(i)!Execute(At(i, 12), Deploy(i)!postgresMigrations[13].up) = {At(i, 13)}
  <2> DEFINE T == TablesAt(12)
             E == ColumnsAt(12)
             X == IndexesAt(12)
  <2>1. /\ "refresh_sessions.expires_at" \notin X
        /\ "refresh_sessions" \in T
    BY DEF TablesAt, IndexesAt
  <2>3. TablesAt(13) = T /\ ColumnsAt(13) = E /\ IndexesAt(13) = X \union {"refresh_sessions.expires_at"}
    BY DEF TablesAt, ColumnsAt, IndexesAt
  <2> HIDE DEF T, E, X
  <2>4. Goes(i, Made(i, T, E, X),
             Deploy(i)!CreateIndex("refresh_sessions", "refresh_sessions.expires_at"),
             Made(i, T, E, X \union {"refresh_sessions.expires_at"}))
    BY <2>1, Indexed, IndexGoes
  <2>5. Deploy(i)!postgresMigrations[13].up
        = <<Deploy(i)!CreateIndex("refresh_sessions", "refresh_sessions.expires_at")>>
    <3>1. Deploy(i)!postgresMigrations[13] = Deploy(i)!IndexRefreshSessionExpiry
      BY Timelines
    <3> QED
      BY <3>1 DEF Deploy!IndexRefreshSessionExpiry, Deploy!OneIndex
  <2>6. Deploy(i)!Execute(At(i, 12), Deploy(i)!postgresMigrations[13].up)
        = {Made(i, T, E, X \union {"refresh_sessions.expires_at"})}
    <3>1. At(i, 12) = Made(i, T, E, X)
      BY DEF At, T, E, X
    <3> QED
      BY <3>1, <2>5, <2>4, ExecuteOne
  <2> QED
    BY <2>3, <2>6 DEF At
<1>14. Deploy(i)!Execute(At(i, 13), Deploy(i)!postgresMigrations[14].up) = {At(i, 14)}
  <2> DEFINE T == TablesAt(13)
             E == ColumnsAt(13)
             X == IndexesAt(13)
  <2>1. /\ "password_reset_tokens.expires_at" \notin X
        /\ "password_reset_tokens" \in T
    BY DEF TablesAt, IndexesAt
  <2>3. TablesAt(14) = T /\ ColumnsAt(14) = E /\ IndexesAt(14) = X \union {"password_reset_tokens.expires_at"}
    BY DEF TablesAt, ColumnsAt, IndexesAt
  <2> HIDE DEF T, E, X
  <2>4. Goes(i, Made(i, T, E, X),
             Deploy(i)!CreateIndex("password_reset_tokens", "password_reset_tokens.expires_at"),
             Made(i, T, E, X \union {"password_reset_tokens.expires_at"}))
    BY <2>1, Indexed, IndexGoes
  <2>5. Deploy(i)!postgresMigrations[14].up
        = <<Deploy(i)!CreateIndex("password_reset_tokens", "password_reset_tokens.expires_at")>>
    <3>1. Deploy(i)!postgresMigrations[14] = Deploy(i)!IndexPasswordResetExpiry
      BY Timelines
    <3> QED
      BY <3>1 DEF Deploy!IndexPasswordResetExpiry, Deploy!OneIndex
  <2>6. Deploy(i)!Execute(At(i, 13), Deploy(i)!postgresMigrations[14].up)
        = {Made(i, T, E, X \union {"password_reset_tokens.expires_at"})}
    <3>1. At(i, 13) = Made(i, T, E, X)
      BY DEF At, T, E, X
    <3> QED
      BY <3>1, <2>5, <2>4, ExecuteOne
  <2> QED
    BY <2>3, <2>6 DEF At
<1>15. Deploy(i)!Execute(At(i, 14), Deploy(i)!postgresMigrations[15].up) = {At(i, 15)}
  <2> DEFINE T == TablesAt(14)
             E == ColumnsAt(14)
             X == IndexesAt(14)
  <2>1. /\ "invitations.expires_at" \notin X
        /\ "invitations" \in T
    BY DEF TablesAt, IndexesAt
  <2>3. TablesAt(15) = T /\ ColumnsAt(15) = E /\ IndexesAt(15) = X \union {"invitations.expires_at"}
    BY DEF TablesAt, ColumnsAt, IndexesAt
  <2> HIDE DEF T, E, X
  <2>4. Goes(i, Made(i, T, E, X),
             Deploy(i)!CreateIndex("invitations", "invitations.expires_at"),
             Made(i, T, E, X \union {"invitations.expires_at"}))
    BY <2>1, Indexed, IndexGoes
  <2>5. Deploy(i)!postgresMigrations[15].up
        = <<Deploy(i)!CreateIndex("invitations", "invitations.expires_at")>>
    <3>1. Deploy(i)!postgresMigrations[15] = Deploy(i)!IndexInvitationExpiry
      BY Timelines
    <3> QED
      BY <3>1 DEF Deploy!IndexInvitationExpiry, Deploy!OneIndex
  <2>6. Deploy(i)!Execute(At(i, 14), Deploy(i)!postgresMigrations[15].up)
        = {Made(i, T, E, X \union {"invitations.expires_at"})}
    <3>1. At(i, 14) = Made(i, T, E, X)
      BY DEF At, T, E, X
    <3> QED
      BY <3>1, <2>5, <2>4, ExecuteOne
  <2> QED
    BY <2>3, <2>6 DEF At
<1>16. Deploy(i)!Execute(At(i, 15), Deploy(i)!postgresMigrations[16].up) = {At(i, 16)}
  <2> DEFINE T == TablesAt(15)
             E == ColumnsAt(15)
             X == IndexesAt(15)
  <2>1. /\ "outbox.processing_updated_at" \notin X
        /\ "outbox" \in T
    BY DEF TablesAt, IndexesAt
  <2>3. TablesAt(16) = T /\ ColumnsAt(16) = E /\ IndexesAt(16) = X \union {"outbox.processing_updated_at"}
    BY DEF TablesAt, ColumnsAt, IndexesAt
  <2> HIDE DEF T, E, X
  <2>4. Goes(i, Made(i, T, E, X),
             Deploy(i)!CreateIndex("outbox", "outbox.processing_updated_at"),
             Made(i, T, E, X \union {"outbox.processing_updated_at"}))
    BY <2>1, Indexed, IndexGoes
  <2>5. Deploy(i)!postgresMigrations[16].up
        = <<Deploy(i)!CreateIndex("outbox", "outbox.processing_updated_at")>>
    <3>1. Deploy(i)!postgresMigrations[16] = Deploy(i)!IndexOutboxProcessing
      BY Timelines
    <3> QED
      BY <3>1 DEF Deploy!IndexOutboxProcessing, Deploy!OneIndex
  <2>6. Deploy(i)!Execute(At(i, 15), Deploy(i)!postgresMigrations[16].up)
        = {Made(i, T, E, X \union {"outbox.processing_updated_at"})}
    <3>1. At(i, 15) = Made(i, T, E, X)
      BY DEF At, T, E, X
    <3> QED
      BY <3>1, <2>5, <2>4, ExecuteOne
  <2> QED
    BY <2>3, <2>6 DEF At
<1> QED
  <2>1. m \in {1, 2, 3, 4, 5, 6, 7, 9, 10, 11, 12, 13, 14, 15, 16}
    OBVIOUS
  <2> QED
    BY <2>1, <1>1, <1>2, <1>3, <1>4, <1>5, <1>6, <1>7, <1>9, <1>10, <1>11, <1>12, <1>13, <1>14, <1>15, <1>16

\* Every down but the one of the audit columns undoes its up.
LEMMA DownsGo ==
  ASSUME NEW i, NEW m \in 1 .. 16, m # 8
  PROVE  Deploy(i)!Execute(At(i, m), Deploy(i)!postgresMigrations[m].down) = {At(i, m - 1)}
<1>1. Deploy(i)!Execute(At(i, 1), Deploy(i)!postgresMigrations[1].down) = {At(i, 0)}
  <2> DEFINE T == TablesAt(1)
             E == ColumnsAt(1)
             X == IndexesAt(1)
  <2>1. /\ "users" \in T
    BY DEF TablesAt, IndexesAt
  <2>3. TablesAt(0) = T \ {"users"} /\ ColumnsAt(0) = E
    BY DEF TablesAt, ColumnsAt
  <2>2. Made(i, T \ {"users"}, E, X) = At(i, 0)
    <3>1. IndexesAt(0) = X
      BY DEF IndexesAt
    <3> HIDE DEF T, E, X
    <3> QED
      BY <2>3, <3>1 DEF At
  <2> HIDE DEF T, E, X
  <2>4. Goes(i, Made(i, T, E, X),
             Deploy(i)!DropTable("users"),
             Made(i, T \ {"users"}, E, X))
    BY <2>1, DropGoes
  <2>5. Deploy(i)!postgresMigrations[1].down
        = <<Deploy(i)!DropTable("users")>>
    <3>1. Deploy(i)!postgresMigrations[1] = Deploy(i)!CreateUsers
      BY Timelines
    <3> QED
      BY <3>1 DEF Deploy!CreateUsers
  <2>6. Deploy(i)!Execute(At(i, 1), Deploy(i)!postgresMigrations[1].down)
        = {Made(i, T \ {"users"}, E, X)}
    <3>1. At(i, 1) = Made(i, T, E, X)
      BY DEF At, T, E, X
    <3> QED
      BY <3>1, <2>5, <2>4, ExecuteOne
  <2> QED
    BY <2>2, <2>6
<1>2. Deploy(i)!Execute(At(i, 2), Deploy(i)!postgresMigrations[2].down) = {At(i, 1)}
  <2> DEFINE T == TablesAt(2)
             E == ColumnsAt(2)
             X == IndexesAt(2)
  <2>1. /\ "role_permissions" \in T
        /\ "roles" \in T
    BY DEF TablesAt, IndexesAt
  <2>3. TablesAt(1) = (T \ {"role_permissions"}) \ {"roles"} /\ ColumnsAt(1) = E
    BY DEF TablesAt, ColumnsAt
  <2>2. Made(i, (T \ {"role_permissions"}) \ {"roles"}, E, X) = At(i, 1)
    <3>1. IndexesAt(1) = X
      BY DEF IndexesAt
    <3> HIDE DEF T, E, X
    <3> QED
      BY <2>3, <3>1 DEF At
  <2> HIDE DEF T, E, X
  <2>4. Goes(i, Made(i, T, E, X),
             Deploy(i)!DropTable("role_permissions"),
             Made(i, T \ {"role_permissions"}, E, X))
    BY <2>1, DropGoes
  <2>5. Goes(i, Made(i, T \ {"role_permissions"}, E, X),
             Deploy(i)!DropTable("roles"),
             Made(i, (T \ {"role_permissions"}) \ {"roles"}, E, X))
    BY <2>1, DropGoes
  <2>6. Deploy(i)!postgresMigrations[2].down
        = <<Deploy(i)!DropTable("role_permissions"),
            Deploy(i)!DropTable("roles")>>
    <3>1. Deploy(i)!postgresMigrations[2] = Deploy(i)!CreateRoles
      BY Timelines
    <3> QED
      BY <3>1 DEF Deploy!CreateRoles
  <2>7. Deploy(i)!Execute(At(i, 2), Deploy(i)!postgresMigrations[2].down)
        = {Made(i, (T \ {"role_permissions"}) \ {"roles"}, E, X)}
    <3>1. At(i, 2) = Made(i, T, E, X)
      BY DEF At, T, E, X
    <3> QED
      BY <3>1, <2>6, <2>4, <2>5, ExecuteTwo
  <2> QED
    BY <2>2, <2>7
<1>3. Deploy(i)!Execute(At(i, 3), Deploy(i)!postgresMigrations[3].down) = {At(i, 2)}
  <2> DEFINE T == TablesAt(3)
             E == ColumnsAt(3)
             X == IndexesAt(3)
  <2>1. /\ "membership_roles" \in T
        /\ "memberships" \in T
        /\ "tenants" \in T
        /\ "tenants.tenant_id" \in X
    BY DEF TablesAt, IndexesAt
  <2>3. TablesAt(2) = ((T \ {"membership_roles"}) \ {"memberships"}) \ {"tenants"} /\ ColumnsAt(2) = E
    BY DEF TablesAt, ColumnsAt
  <2>2. Made(i, ((T \ {"membership_roles"}) \ {"memberships"}) \ {"tenants"}, E, X \ {"tenants.tenant_id"}) = At(i, 2)
    <3>1. IndexesAt(2) = X \ {"tenants.tenant_id"}
      BY DEF IndexesAt
    <3> HIDE DEF T, E, X
    <3> QED
      BY <2>3, <3>1 DEF At
  <2> HIDE DEF T, E, X
  <2>4. Goes(i, Made(i, T, E, X),
             Deploy(i)!DropTable("membership_roles"),
             Made(i, T \ {"membership_roles"}, E, X))
    BY <2>1, DropGoes
  <2>5. Goes(i, Made(i, T \ {"membership_roles"}, E, X),
             Deploy(i)!DropTable("memberships"),
             Made(i, (T \ {"membership_roles"}) \ {"memberships"}, E, X))
    BY <2>1, DropGoes
  <2>6. Goes(i, Made(i, (T \ {"membership_roles"}) \ {"memberships"}, E, X),
             Deploy(i)!DropIndex("tenants.tenant_id"),
             Made(i, (T \ {"membership_roles"}) \ {"memberships"}, E, X \ {"tenants.tenant_id"}))
    BY <2>1, Indexed, UnindexGoes
  <2>7. Goes(i, Made(i, (T \ {"membership_roles"}) \ {"memberships"}, E, X \ {"tenants.tenant_id"}),
             Deploy(i)!DropTable("tenants"),
             Made(i, ((T \ {"membership_roles"}) \ {"memberships"}) \ {"tenants"}, E, X \ {"tenants.tenant_id"}))
    BY <2>1, DropGoes
  <2>8. Deploy(i)!postgresMigrations[3].down
        = <<Deploy(i)!DropTable("membership_roles"),
            Deploy(i)!DropTable("memberships"),
            Deploy(i)!DropIndex("tenants.tenant_id"),
            Deploy(i)!DropTable("tenants")>>
    <3>1. Deploy(i)!postgresMigrations[3] = Deploy(i)!CreateTenantsAndMemberships
      BY Timelines
    <3> QED
      BY <3>1 DEF Deploy!CreateTenantsAndMemberships
  <2>9. Deploy(i)!Execute(At(i, 3), Deploy(i)!postgresMigrations[3].down)
        = {Made(i, ((T \ {"membership_roles"}) \ {"memberships"}) \ {"tenants"}, E, X \ {"tenants.tenant_id"})}
    <3>1. At(i, 3) = Made(i, T, E, X)
      BY DEF At, T, E, X
    <3> QED
      BY <3>1, <2>8, <2>4, <2>5, <2>6, <2>7, ExecuteFour
  <2> QED
    BY <2>2, <2>9
<1>4. Deploy(i)!Execute(At(i, 4), Deploy(i)!postgresMigrations[4].down) = {At(i, 3)}
  <2> DEFINE T == TablesAt(4)
             E == ColumnsAt(4)
             X == IndexesAt(4)
  <2>1. /\ "password_reset_tokens" \in T
        /\ "refresh_sessions" \in T
        /\ "user_local_passwords" \in T
    BY DEF TablesAt, IndexesAt
  <2>3. TablesAt(3) = ((T \ {"password_reset_tokens"}) \ {"refresh_sessions"}) \ {"user_local_passwords"} /\ ColumnsAt(3) = E
    BY DEF TablesAt, ColumnsAt
  <2>2. Made(i, ((T \ {"password_reset_tokens"}) \ {"refresh_sessions"}) \ {"user_local_passwords"}, E, X) = At(i, 3)
    <3>1. \A t \in TablesAt(3) : {x \in X : OfTable(x) = t} = {x \in IndexesAt(3) : OfTable(x) = t}
      BY Indexed DEF TablesAt, IndexesAt
    <3> HIDE DEF T, E, X
    <3> QED
      BY <2>3, <3>1, MadeAlike DEF At
  <2> HIDE DEF T, E, X
  <2>4. Goes(i, Made(i, T, E, X),
             Deploy(i)!DropTable("password_reset_tokens"),
             Made(i, T \ {"password_reset_tokens"}, E, X))
    BY <2>1, DropGoes
  <2>5. Goes(i, Made(i, T \ {"password_reset_tokens"}, E, X),
             Deploy(i)!DropTable("refresh_sessions"),
             Made(i, (T \ {"password_reset_tokens"}) \ {"refresh_sessions"}, E, X))
    BY <2>1, DropGoes
  <2>6. Goes(i, Made(i, (T \ {"password_reset_tokens"}) \ {"refresh_sessions"}, E, X),
             Deploy(i)!DropTable("user_local_passwords"),
             Made(i, ((T \ {"password_reset_tokens"}) \ {"refresh_sessions"}) \ {"user_local_passwords"}, E, X))
    BY <2>1, DropGoes
  <2>7. Deploy(i)!postgresMigrations[4].down
        = <<Deploy(i)!DropTable("password_reset_tokens"),
            Deploy(i)!DropTable("refresh_sessions"),
            Deploy(i)!DropTable("user_local_passwords")>>
    <3>1. Deploy(i)!postgresMigrations[4] = Deploy(i)!CreateCredentials
      BY Timelines
    <3> QED
      BY <3>1 DEF Deploy!CreateCredentials
  <2>8. Deploy(i)!Execute(At(i, 4), Deploy(i)!postgresMigrations[4].down)
        = {Made(i, ((T \ {"password_reset_tokens"}) \ {"refresh_sessions"}) \ {"user_local_passwords"}, E, X)}
    <3>1. At(i, 4) = Made(i, T, E, X)
      BY DEF At, T, E, X
    <3> QED
      BY <3>1, <2>7, <2>4, <2>5, <2>6, ExecuteThree
  <2> QED
    BY <2>2, <2>8
<1>5. Deploy(i)!Execute(At(i, 5), Deploy(i)!postgresMigrations[5].down) = {At(i, 4)}
  <2> DEFINE T == TablesAt(5)
             E == ColumnsAt(5)
             X == IndexesAt(5)
  <2>1. /\ "invitation_roles" \in T
        /\ "invitations" \in T
        /\ "invitations.pending" \in X
    BY DEF TablesAt, IndexesAt
  <2>3. TablesAt(4) = (T \ {"invitation_roles"}) \ {"invitations"} /\ ColumnsAt(4) = E
    BY DEF TablesAt, ColumnsAt
  <2>2. Made(i, (T \ {"invitation_roles"}) \ {"invitations"}, E, X \ {"invitations.pending"}) = At(i, 4)
    <3>1. IndexesAt(4) = X \ {"invitations.pending"}
      BY DEF IndexesAt
    <3> HIDE DEF T, E, X
    <3> QED
      BY <2>3, <3>1 DEF At
  <2> HIDE DEF T, E, X
  <2>4. Goes(i, Made(i, T, E, X),
             Deploy(i)!DropTable("invitation_roles"),
             Made(i, T \ {"invitation_roles"}, E, X))
    BY <2>1, DropGoes
  <2>5. Goes(i, Made(i, T \ {"invitation_roles"}, E, X),
             Deploy(i)!DropIndex("invitations.pending"),
             Made(i, T \ {"invitation_roles"}, E, X \ {"invitations.pending"}))
    BY <2>1, Indexed, UnindexGoes
  <2>6. Goes(i, Made(i, T \ {"invitation_roles"}, E, X \ {"invitations.pending"}),
             Deploy(i)!DropTable("invitations"),
             Made(i, (T \ {"invitation_roles"}) \ {"invitations"}, E, X \ {"invitations.pending"}))
    BY <2>1, DropGoes
  <2>7. Deploy(i)!postgresMigrations[5].down
        = <<Deploy(i)!DropTable("invitation_roles"),
            Deploy(i)!DropIndex("invitations.pending"),
            Deploy(i)!DropTable("invitations")>>
    <3>1. Deploy(i)!postgresMigrations[5] = Deploy(i)!CreateInvitations
      BY Timelines
    <3> QED
      BY <3>1 DEF Deploy!CreateInvitations
  <2>8. Deploy(i)!Execute(At(i, 5), Deploy(i)!postgresMigrations[5].down)
        = {Made(i, (T \ {"invitation_roles"}) \ {"invitations"}, E, X \ {"invitations.pending"})}
    <3>1. At(i, 5) = Made(i, T, E, X)
      BY DEF At, T, E, X
    <3> QED
      BY <3>1, <2>7, <2>4, <2>5, <2>6, ExecuteThree
  <2> QED
    BY <2>2, <2>8
<1>6. Deploy(i)!Execute(At(i, 6), Deploy(i)!postgresMigrations[6].down) = {At(i, 5)}
  <2> DEFINE T == TablesAt(6)
             E == ColumnsAt(6)
             X == IndexesAt(6)
  <2>1. /\ "role_permissions" \in T
    BY DEF TablesAt, IndexesAt
  <2>3. TablesAt(5) = T /\ ColumnsAt(5) = E
    BY DEF TablesAt, ColumnsAt
  <2>2. Made(i, T, E, X) = At(i, 5)
    <3>1. IndexesAt(5) = X
      BY DEF IndexesAt
    <3> HIDE DEF T, E, X
    <3> QED
      BY <2>3, <3>1 DEF At
  <2> HIDE DEF T, E, X
  <2>4. Goes(i, Made(i, T, E, X),
             Deploy(i)!Revoke(Deploy(i)!MemberPermissions),
             Made(i, T, E, X))
    BY <2>1, RowsGo
  <2>5. Deploy(i)!postgresMigrations[6].down
        = <<Deploy(i)!Revoke(Deploy(i)!MemberPermissions)>>
    <3>1. Deploy(i)!postgresMigrations[6] = Deploy(i)!BackfillAdminPermissions
      BY Timelines
    <3> QED
      BY <3>1 DEF Deploy!BackfillAdminPermissions
  <2>6. Deploy(i)!Execute(At(i, 6), Deploy(i)!postgresMigrations[6].down)
        = {Made(i, T, E, X)}
    <3>1. At(i, 6) = Made(i, T, E, X)
      BY DEF At, T, E, X
    <3> QED
      BY <3>1, <2>5, <2>4, ExecuteOne
  <2> QED
    BY <2>2, <2>6
<1>7. Deploy(i)!Execute(At(i, 7), Deploy(i)!postgresMigrations[7].down) = {At(i, 6)}
  <2> DEFINE T == TablesAt(7)
             E == ColumnsAt(7)
             X == IndexesAt(7)
  <2>1. /\ "outbox" \in T
        /\ "outbox.pending" \in X
    BY DEF TablesAt, IndexesAt
  <2>3. TablesAt(6) = T \ {"outbox"} /\ ColumnsAt(6) = E
    BY DEF TablesAt, ColumnsAt
  <2>2. Made(i, T \ {"outbox"}, E, X \ {"outbox.pending"}) = At(i, 6)
    <3>1. IndexesAt(6) = X \ {"outbox.pending"}
      BY DEF IndexesAt
    <3> HIDE DEF T, E, X
    <3> QED
      BY <2>3, <3>1 DEF At
  <2> HIDE DEF T, E, X
  <2>4. Goes(i, Made(i, T, E, X),
             Deploy(i)!DropIndex("outbox.pending"),
             Made(i, T, E, X \ {"outbox.pending"}))
    BY <2>1, Indexed, UnindexGoes
  <2>5. Goes(i, Made(i, T, E, X \ {"outbox.pending"}),
             Deploy(i)!DropTable("outbox"),
             Made(i, T \ {"outbox"}, E, X \ {"outbox.pending"}))
    BY <2>1, DropGoes
  <2>6. Deploy(i)!postgresMigrations[7].down
        = <<Deploy(i)!DropIndex("outbox.pending"),
            Deploy(i)!DropTable("outbox")>>
    <3>1. Deploy(i)!postgresMigrations[7] = Deploy(i)!CreateOutbox
      BY Timelines
    <3> QED
      BY <3>1 DEF Deploy!CreateOutbox
  <2>7. Deploy(i)!Execute(At(i, 7), Deploy(i)!postgresMigrations[7].down)
        = {Made(i, T \ {"outbox"}, E, X \ {"outbox.pending"})}
    <3>1. At(i, 7) = Made(i, T, E, X)
      BY DEF At, T, E, X
    <3> QED
      BY <3>1, <2>6, <2>4, <2>5, ExecuteTwo
  <2> QED
    BY <2>2, <2>7
<1>9. Deploy(i)!Execute(At(i, 9), Deploy(i)!postgresMigrations[9].down) = {At(i, 8)}
  <2> DEFINE T == TablesAt(9)
             E == ColumnsAt(9)
             X == IndexesAt(9)
  <2>1. /\ "membership_roles.role_id" \in X
        /\ "membership_roles" \in T
    BY DEF TablesAt, IndexesAt
  <2>3. TablesAt(8) = T /\ ColumnsAt(8) = E
    BY DEF TablesAt, ColumnsAt
  <2>2. Made(i, T, E, X \ {"membership_roles.role_id"}) = At(i, 8)
    <3>1. IndexesAt(8) = X \ {"membership_roles.role_id"}
      BY DEF IndexesAt
    <3> HIDE DEF T, E, X
    <3> QED
      BY <2>3, <3>1 DEF At
  <2> HIDE DEF T, E, X
  <2>4. Goes(i, Made(i, T, E, X),
             Deploy(i)!DropIndex("membership_roles.role_id"),
             Made(i, T, E, X \ {"membership_roles.role_id"}))
    BY <2>1, Indexed, UnindexGoes
  <2>5. Deploy(i)!postgresMigrations[9].down
        = <<Deploy(i)!DropIndex("membership_roles.role_id")>>
    <3>1. Deploy(i)!postgresMigrations[9] = Deploy(i)!IndexMembershipRolesRoleId
      BY Timelines
    <3> QED
      BY <3>1 DEF Deploy!IndexMembershipRolesRoleId, Deploy!OneIndex
  <2>6. Deploy(i)!Execute(At(i, 9), Deploy(i)!postgresMigrations[9].down)
        = {Made(i, T, E, X \ {"membership_roles.role_id"})}
    <3>1. At(i, 9) = Made(i, T, E, X)
      BY DEF At, T, E, X
    <3> QED
      BY <3>1, <2>5, <2>4, ExecuteOne
  <2> QED
    BY <2>2, <2>6
<1>10. Deploy(i)!Execute(At(i, 10), Deploy(i)!postgresMigrations[10].down) = {At(i, 9)}
  <2> DEFINE T == TablesAt(10)
             E == ColumnsAt(10)
             X == IndexesAt(10)
  <2>1. /\ "idempotency_keys" \in T
        /\ "idempotency_keys.expires_at" \in X
    BY DEF TablesAt, IndexesAt
  <2>3. TablesAt(9) = T \ {"idempotency_keys"} /\ ColumnsAt(9) = E
    BY DEF TablesAt, ColumnsAt
  <2>2. Made(i, T \ {"idempotency_keys"}, E, X \ {"idempotency_keys.expires_at"}) = At(i, 9)
    <3>1. IndexesAt(9) = X \ {"idempotency_keys.expires_at"}
      BY DEF IndexesAt
    <3> HIDE DEF T, E, X
    <3> QED
      BY <2>3, <3>1 DEF At
  <2> HIDE DEF T, E, X
  <2>4. Goes(i, Made(i, T, E, X),
             Deploy(i)!DropIndex("idempotency_keys.expires_at"),
             Made(i, T, E, X \ {"idempotency_keys.expires_at"}))
    BY <2>1, Indexed, UnindexGoes
  <2>5. Goes(i, Made(i, T, E, X \ {"idempotency_keys.expires_at"}),
             Deploy(i)!DropTable("idempotency_keys"),
             Made(i, T \ {"idempotency_keys"}, E, X \ {"idempotency_keys.expires_at"}))
    BY <2>1, DropGoes
  <2>6. Deploy(i)!postgresMigrations[10].down
        = <<Deploy(i)!DropIndex("idempotency_keys.expires_at"),
            Deploy(i)!DropTable("idempotency_keys")>>
    <3>1. Deploy(i)!postgresMigrations[10] = Deploy(i)!CreateIdempotencyKeys
      BY Timelines
    <3> QED
      BY <3>1 DEF Deploy!CreateIdempotencyKeys
  <2>7. Deploy(i)!Execute(At(i, 10), Deploy(i)!postgresMigrations[10].down)
        = {Made(i, T \ {"idempotency_keys"}, E, X \ {"idempotency_keys.expires_at"})}
    <3>1. At(i, 10) = Made(i, T, E, X)
      BY DEF At, T, E, X
    <3> QED
      BY <3>1, <2>6, <2>4, <2>5, ExecuteTwo
  <2> QED
    BY <2>2, <2>7
<1>11. Deploy(i)!Execute(At(i, 11), Deploy(i)!postgresMigrations[11].down) = {At(i, 10)}
  <2> DEFINE T == TablesAt(11)
             E == ColumnsAt(11)
             X == IndexesAt(11)
  <2>1. /\ "api_keys" \in T
        /\ "api_keys.tenant_id" \in X
    BY DEF TablesAt, IndexesAt
  <2>3. TablesAt(10) = T \ {"api_keys"} /\ ColumnsAt(10) = E
    BY DEF TablesAt, ColumnsAt
  <2>2. Made(i, T \ {"api_keys"}, E, X \ {"api_keys.tenant_id"}) = At(i, 10)
    <3>1. IndexesAt(10) = X \ {"api_keys.tenant_id"}
      BY DEF IndexesAt
    <3> HIDE DEF T, E, X
    <3> QED
      BY <2>3, <3>1 DEF At
  <2> HIDE DEF T, E, X
  <2>4. Goes(i, Made(i, T, E, X),
             Deploy(i)!DropIndex("api_keys.tenant_id"),
             Made(i, T, E, X \ {"api_keys.tenant_id"}))
    BY <2>1, Indexed, UnindexGoes
  <2>5. Goes(i, Made(i, T, E, X \ {"api_keys.tenant_id"}),
             Deploy(i)!DropTable("api_keys"),
             Made(i, T \ {"api_keys"}, E, X \ {"api_keys.tenant_id"}))
    BY <2>1, DropGoes
  <2>6. Deploy(i)!postgresMigrations[11].down
        = <<Deploy(i)!DropIndex("api_keys.tenant_id"),
            Deploy(i)!DropTable("api_keys")>>
    <3>1. Deploy(i)!postgresMigrations[11] = Deploy(i)!CreateApiKeys
      BY Timelines
    <3> QED
      BY <3>1 DEF Deploy!CreateApiKeys
  <2>7. Deploy(i)!Execute(At(i, 11), Deploy(i)!postgresMigrations[11].down)
        = {Made(i, T \ {"api_keys"}, E, X \ {"api_keys.tenant_id"})}
    <3>1. At(i, 11) = Made(i, T, E, X)
      BY DEF At, T, E, X
    <3> QED
      BY <3>1, <2>6, <2>4, <2>5, ExecuteTwo
  <2> QED
    BY <2>2, <2>7
<1>12. Deploy(i)!Execute(At(i, 12), Deploy(i)!postgresMigrations[12].down) = {At(i, 11)}
  <2> DEFINE T == TablesAt(12)
             E == ColumnsAt(12)
             X == IndexesAt(12)
  <2>1. /\ "role_permissions" \in T
    BY DEF TablesAt, IndexesAt
  <2>3. TablesAt(11) = T /\ ColumnsAt(11) = E
    BY DEF TablesAt, ColumnsAt
  <2>2. Made(i, T, E, X) = At(i, 11)
    <3>1. IndexesAt(11) = X
      BY DEF IndexesAt
    <3> HIDE DEF T, E, X
    <3> QED
      BY <2>3, <3>1 DEF At
  <2> HIDE DEF T, E, X
  <2>4. Goes(i, Made(i, T, E, X),
             Deploy(i)!Revoke({"identity.api_keys.manage"}),
             Made(i, T, E, X))
    BY <2>1, RowsGo
  <2>5. Deploy(i)!postgresMigrations[12].down
        = <<Deploy(i)!Revoke({"identity.api_keys.manage"})>>
    <3>1. Deploy(i)!postgresMigrations[12] = Deploy(i)!BackfillAdminApiKeysManage
      BY Timelines
    <3> QED
      BY <3>1 DEF Deploy!BackfillAdminApiKeysManage
  <2>6. Deploy(i)!Execute(At(i, 12), Deploy(i)!postgresMigrations[12].down)
        = {Made(i, T, E, X)}
    <3>1. At(i, 12) = Made(i, T, E, X)
      BY DEF At, T, E, X
    <3> QED
      BY <3>1, <2>5, <2>4, ExecuteOne
  <2> QED
    BY <2>2, <2>6
<1>13. Deploy(i)!Execute(At(i, 13), Deploy(i)!postgresMigrations[13].down) = {At(i, 12)}
  <2> DEFINE T == TablesAt(13)
             E == ColumnsAt(13)
             X == IndexesAt(13)
  <2>1. /\ "refresh_sessions.expires_at" \in X
        /\ "refresh_sessions" \in T
    BY DEF TablesAt, IndexesAt
  <2>3. TablesAt(12) = T /\ ColumnsAt(12) = E
    BY DEF TablesAt, ColumnsAt
  <2>2. Made(i, T, E, X \ {"refresh_sessions.expires_at"}) = At(i, 12)
    <3>1. IndexesAt(12) = X \ {"refresh_sessions.expires_at"}
      BY DEF IndexesAt
    <3> HIDE DEF T, E, X
    <3> QED
      BY <2>3, <3>1 DEF At
  <2> HIDE DEF T, E, X
  <2>4. Goes(i, Made(i, T, E, X),
             Deploy(i)!DropIndex("refresh_sessions.expires_at"),
             Made(i, T, E, X \ {"refresh_sessions.expires_at"}))
    BY <2>1, Indexed, UnindexGoes
  <2>5. Deploy(i)!postgresMigrations[13].down
        = <<Deploy(i)!DropIndex("refresh_sessions.expires_at")>>
    <3>1. Deploy(i)!postgresMigrations[13] = Deploy(i)!IndexRefreshSessionExpiry
      BY Timelines
    <3> QED
      BY <3>1 DEF Deploy!IndexRefreshSessionExpiry, Deploy!OneIndex
  <2>6. Deploy(i)!Execute(At(i, 13), Deploy(i)!postgresMigrations[13].down)
        = {Made(i, T, E, X \ {"refresh_sessions.expires_at"})}
    <3>1. At(i, 13) = Made(i, T, E, X)
      BY DEF At, T, E, X
    <3> QED
      BY <3>1, <2>5, <2>4, ExecuteOne
  <2> QED
    BY <2>2, <2>6
<1>14. Deploy(i)!Execute(At(i, 14), Deploy(i)!postgresMigrations[14].down) = {At(i, 13)}
  <2> DEFINE T == TablesAt(14)
             E == ColumnsAt(14)
             X == IndexesAt(14)
  <2>1. /\ "password_reset_tokens.expires_at" \in X
        /\ "password_reset_tokens" \in T
    BY DEF TablesAt, IndexesAt
  <2>3. TablesAt(13) = T /\ ColumnsAt(13) = E
    BY DEF TablesAt, ColumnsAt
  <2>2. Made(i, T, E, X \ {"password_reset_tokens.expires_at"}) = At(i, 13)
    <3>1. IndexesAt(13) = X \ {"password_reset_tokens.expires_at"}
      BY DEF IndexesAt
    <3> HIDE DEF T, E, X
    <3> QED
      BY <2>3, <3>1 DEF At
  <2> HIDE DEF T, E, X
  <2>4. Goes(i, Made(i, T, E, X),
             Deploy(i)!DropIndex("password_reset_tokens.expires_at"),
             Made(i, T, E, X \ {"password_reset_tokens.expires_at"}))
    BY <2>1, Indexed, UnindexGoes
  <2>5. Deploy(i)!postgresMigrations[14].down
        = <<Deploy(i)!DropIndex("password_reset_tokens.expires_at")>>
    <3>1. Deploy(i)!postgresMigrations[14] = Deploy(i)!IndexPasswordResetExpiry
      BY Timelines
    <3> QED
      BY <3>1 DEF Deploy!IndexPasswordResetExpiry, Deploy!OneIndex
  <2>6. Deploy(i)!Execute(At(i, 14), Deploy(i)!postgresMigrations[14].down)
        = {Made(i, T, E, X \ {"password_reset_tokens.expires_at"})}
    <3>1. At(i, 14) = Made(i, T, E, X)
      BY DEF At, T, E, X
    <3> QED
      BY <3>1, <2>5, <2>4, ExecuteOne
  <2> QED
    BY <2>2, <2>6
<1>15. Deploy(i)!Execute(At(i, 15), Deploy(i)!postgresMigrations[15].down) = {At(i, 14)}
  <2> DEFINE T == TablesAt(15)
             E == ColumnsAt(15)
             X == IndexesAt(15)
  <2>1. /\ "invitations.expires_at" \in X
        /\ "invitations" \in T
    BY DEF TablesAt, IndexesAt
  <2>3. TablesAt(14) = T /\ ColumnsAt(14) = E
    BY DEF TablesAt, ColumnsAt
  <2>2. Made(i, T, E, X \ {"invitations.expires_at"}) = At(i, 14)
    <3>1. IndexesAt(14) = X \ {"invitations.expires_at"}
      BY DEF IndexesAt
    <3> HIDE DEF T, E, X
    <3> QED
      BY <2>3, <3>1 DEF At
  <2> HIDE DEF T, E, X
  <2>4. Goes(i, Made(i, T, E, X),
             Deploy(i)!DropIndex("invitations.expires_at"),
             Made(i, T, E, X \ {"invitations.expires_at"}))
    BY <2>1, Indexed, UnindexGoes
  <2>5. Deploy(i)!postgresMigrations[15].down
        = <<Deploy(i)!DropIndex("invitations.expires_at")>>
    <3>1. Deploy(i)!postgresMigrations[15] = Deploy(i)!IndexInvitationExpiry
      BY Timelines
    <3> QED
      BY <3>1 DEF Deploy!IndexInvitationExpiry, Deploy!OneIndex
  <2>6. Deploy(i)!Execute(At(i, 15), Deploy(i)!postgresMigrations[15].down)
        = {Made(i, T, E, X \ {"invitations.expires_at"})}
    <3>1. At(i, 15) = Made(i, T, E, X)
      BY DEF At, T, E, X
    <3> QED
      BY <3>1, <2>5, <2>4, ExecuteOne
  <2> QED
    BY <2>2, <2>6
<1>16. Deploy(i)!Execute(At(i, 16), Deploy(i)!postgresMigrations[16].down) = {At(i, 15)}
  <2> DEFINE T == TablesAt(16)
             E == ColumnsAt(16)
             X == IndexesAt(16)
  <2>1. /\ "outbox.processing_updated_at" \in X
        /\ "outbox" \in T
    BY DEF TablesAt, IndexesAt
  <2>3. TablesAt(15) = T /\ ColumnsAt(15) = E
    BY DEF TablesAt, ColumnsAt
  <2>2. Made(i, T, E, X \ {"outbox.processing_updated_at"}) = At(i, 15)
    <3>1. IndexesAt(15) = X \ {"outbox.processing_updated_at"}
      BY DEF IndexesAt
    <3> HIDE DEF T, E, X
    <3> QED
      BY <2>3, <3>1 DEF At
  <2> HIDE DEF T, E, X
  <2>4. Goes(i, Made(i, T, E, X),
             Deploy(i)!DropIndex("outbox.processing_updated_at"),
             Made(i, T, E, X \ {"outbox.processing_updated_at"}))
    BY <2>1, Indexed, UnindexGoes
  <2>5. Deploy(i)!postgresMigrations[16].down
        = <<Deploy(i)!DropIndex("outbox.processing_updated_at")>>
    <3>1. Deploy(i)!postgresMigrations[16] = Deploy(i)!IndexOutboxProcessing
      BY Timelines
    <3> QED
      BY <3>1 DEF Deploy!IndexOutboxProcessing, Deploy!OneIndex
  <2>6. Deploy(i)!Execute(At(i, 16), Deploy(i)!postgresMigrations[16].down)
        = {Made(i, T, E, X \ {"outbox.processing_updated_at"})}
    <3>1. At(i, 16) = Made(i, T, E, X)
      BY DEF At, T, E, X
    <3> QED
      BY <3>1, <2>5, <2>4, ExecuteOne
  <2> QED
    BY <2>2, <2>6
<1> QED
  <2>1. m \in {1, 2, 3, 4, 5, 6, 7, 9, 10, 11, 12, 13, 14, 15, 16}
    OBVIOUS
  <2> QED
    BY <2>1, <1>1, <1>2, <1>3, <1>4, <1>5, <1>6, <1>7, <1>9, <1>10, <1>11, <1>12, <1>13, <1>14, <1>15, <1>16

\* Where a table stands in AUDIT_MIGRATION_TABLES.
Rank(t) ==
    CASE t = "users" -> 1
      [] t = "user_local_passwords" -> 2
      [] t = "refresh_sessions" -> 3
      [] t = "password_reset_tokens" -> 4
      [] t = "tenants" -> 5
      [] t = "memberships" -> 6
      [] t = "membership_roles" -> 7
      [] t = "invitations" -> 8
      [] t = "invitation_roles" -> 9
      [] t = "roles" -> 10
      [] t = "role_permissions" -> 11

LEMMA AuditRanks ==
  ASSUME NEW i
  PROVE  /\ Len(Deploy(i)!AUDIT_MIGRATION_TABLES) = 11
         /\ \A n \in 1 .. 11 : /\ Deploy(i)!AUDIT_MIGRATION_TABLES[n] \in AuditTables
                               /\ Rank(Deploy(i)!AUDIT_MIGRATION_TABLES[n]) = n
         /\ \A t \in AuditTables : Rank(t) \in 1 .. 11 /\ Deploy(i)!AUDIT_MIGRATION_TABLES[Rank(t)] = t
<1> DEFINE A == Deploy(i)!AUDIT_MIGRATION_TABLES
<1>1. /\ Len(A) = 11 /\ A[1] = "users" /\ A[2] = "user_local_passwords" /\ A[3] = "refresh_sessions"
      /\ A[4] = "password_reset_tokens" /\ A[5] = "tenants" /\ A[6] = "memberships"
      /\ A[7] = "membership_roles" /\ A[8] = "invitations" /\ A[9] = "invitation_roles"
      /\ A[10] = "roles" /\ A[11] = "role_permissions"
  BY DEF Deploy!AUDIT_MIGRATION_TABLES
<1> HIDE DEF A
<1>2. /\ Rank("users") = 1 /\ Rank("user_local_passwords") = 2 /\ Rank("refresh_sessions") = 3
      /\ Rank("password_reset_tokens") = 4 /\ Rank("tenants") = 5 /\ Rank("memberships") = 6
      /\ Rank("membership_roles") = 7 /\ Rank("invitations") = 8 /\ Rank("invitation_roles") = 9
      /\ Rank("roles") = 10 /\ Rank("role_permissions") = 11
  BY DEF Rank
<1>3. ASSUME NEW n \in 1 .. 11
      PROVE  A[n] \in AuditTables /\ Rank(A[n]) = n
  <2>1. n \in {1, 2, 3, 4, 5, 6, 7, 8, 9, 10, 11}
    OBVIOUS
  <2> QED
    BY <1>1, <1>2, <2>1 DEF AuditTables
<1>4. \A t \in AuditTables : Rank(t) \in 1 .. 11 /\ A[Rank(t)] = t
  BY <1>1, <1>2 DEF AuditTables
<1> QED
  BY <1>1, <1>3, <1>4 DEF A

\* The audit columns of an audited table are none it was born with.
LEMMA AuditIsNew ==
  ASSUME NEW i, NEW t, NEW c, <<t, c>> \in AuditColumns
  PROVE  /\ t \in TablesAt(7) /\ c \in {"created_at", "updated_at", "version"}
         /\ c \notin Birth(i, t).must /\ c \notin Birth(i, t).may
<1> DEFINE Three == {"created_at", "updated_at", "version"}
           New(st, cs) == \A x \in cs : x \notin st.must /\ x \notin st.may
<1>1. New(Birth(i, "users"), Three)
  BY DEF Birth, Deploy!CreateUsers, Deploy!CreateTable
<1>2. New(Birth(i, "user_local_passwords"), Three)
  BY DEF Birth, Deploy!CreateCredentials, Deploy!CreateTable
<1>3. New(Birth(i, "refresh_sessions"), Three)
  BY DEF Birth, Deploy!CreateCredentials, Deploy!CreateTable
<1>4. New(Birth(i, "password_reset_tokens"), Three)
  BY DEF Birth, Deploy!CreateCredentials, Deploy!CreateTable
<1>5. New(Birth(i, "tenants"), Three)
  BY DEF Birth, Deploy!CreateTenantsAndMemberships, Deploy!CreateTable
<1>6. New(Birth(i, "memberships"), Three)
  BY DEF Birth, Deploy!CreateTenantsAndMemberships, Deploy!CreateTable
<1>7. New(Birth(i, "membership_roles"), Three)
  BY DEF Birth, Deploy!CreateTenantsAndMemberships, Deploy!CreateTable
<1>8. New(Birth(i, "invitations"), Three)
  BY DEF Birth, Deploy!CreateInvitations, Deploy!CreateTable
<1>9. New(Birth(i, "invitation_roles"), Three)
  BY DEF Birth, Deploy!CreateInvitations, Deploy!CreateTable
<1>10. New(Birth(i, "roles"), Three)
  BY DEF Birth, Deploy!CreateRoles, Deploy!CreateTable
<1>11. New(Birth(i, "role_permissions"), Three)
  BY DEF Birth, Deploy!CreateRoles, Deploy!CreateTable
<1>12. New(Birth(i, "outbox"), {"updated_at"})
  BY DEF Birth, Deploy!CreateOutbox, Deploy!CreateTable
<1>13. (t \in AuditTables /\ c \in Three) \/ (t = "outbox" /\ c = "updated_at")
  BY DEF AuditColumns, AuditTables
<1>14. t \in TablesAt(7) /\ c \in Three
  BY <1>13 DEF AuditTables, TablesAt
<1>15. c \notin Birth(i, t).must /\ c \notin Birth(i, t).may
  BY <1>1, <1>2, <1>3, <1>4, <1>5, <1>6, <1>7, <1>8, <1>9, <1>10, <1>11, <1>12, <1>13 DEF AuditTables
<1> QED
  BY <1>14, <1>15

\* Where the audit migration adds a column, and where its down drops it.
AddedAs(p) ==
    CASE p = <<"roles", "version">> -> 23
      [] p = <<"memberships", "version">> -> 24
      [] p = <<"outbox", "updated_at">> -> 25
      [] p[1] \in AuditTables /\ p[2] = "created_at" -> Rank(p[1])
      [] p[1] \in AuditTables /\ p[2] = "updated_at" -> 11 + Rank(p[1])

DroppedAs(p) ==
    CASE p = <<"outbox", "updated_at">> -> 1
      [] p = <<"memberships", "version">> -> 2
      [] p = <<"roles", "version">> -> 3
      [] p[1] \in AuditTables /\ p[2] = "updated_at" -> 3 + Rank(p[1])
      [] p[1] \in AuditTables /\ p[2] = "created_at" -> 14 + Rank(p[1])

LEMMA AuditPlaces ==
  /\ \A t \in AuditTables :
       /\ AddedAs(<<t, "created_at">>) = Rank(t) /\ AddedAs(<<t, "updated_at">>) = 11 + Rank(t)
       /\ DroppedAs(<<t, "updated_at">>) = 3 + Rank(t) /\ DroppedAs(<<t, "created_at">>) = 14 + Rank(t)
  /\ AddedAs(<<"roles", "version">>) = 23 /\ AddedAs(<<"memberships", "version">>) = 24
  /\ AddedAs(<<"outbox", "updated_at">>) = 25
  /\ DroppedAs(<<"outbox", "updated_at">>) = 1 /\ DroppedAs(<<"memberships", "version">>) = 2
  /\ DroppedAs(<<"roles", "version">>) = 3
  /\ \A q \in AuditColumns :
       \/ \E t \in AuditTables : q = <<t, "created_at">> \/ q = <<t, "updated_at">>
       \/ q = <<"roles", "version">> \/ q = <<"memberships", "version">> \/ q = <<"outbox", "updated_at">>
<1>1. ASSUME NEW t \in AuditTables
      PROVE  /\ AddedAs(<<t, "created_at">>) = Rank(t) /\ AddedAs(<<t, "updated_at">>) = 11 + Rank(t)
             /\ DroppedAs(<<t, "updated_at">>) = 3 + Rank(t) /\ DroppedAs(<<t, "created_at">>) = 14 + Rank(t)
  <2>1. t # "outbox"
    BY DEF AuditTables
  <2> QED
    BY <2>1 DEF AddedAs, DroppedAs
<1>2. /\ AddedAs(<<"roles", "version">>) = 23 /\ AddedAs(<<"memberships", "version">>) = 24
      /\ AddedAs(<<"outbox", "updated_at">>) = 25
      /\ DroppedAs(<<"outbox", "updated_at">>) = 1 /\ DroppedAs(<<"memberships", "version">>) = 2
      /\ DroppedAs(<<"roles", "version">>) = 3
  <2> DEFINE r == <<"roles", "version">>
             m == <<"memberships", "version">>
             o == <<"outbox", "updated_at">>
  <2>1. r[1] = "roles" /\ r[2] = "version" /\ m[1] = "memberships" /\ m[2] = "version" /\ o[1] = "outbox"
        /\ r # m /\ r # o /\ m # o
    OBVIOUS
  <2>2. "outbox" \notin AuditTables
    BY DEF AuditTables
  <2> HIDE DEF r, m, o
  <2>3. AddedAs(r) = 23 /\ DroppedAs(r) = 3
    BY <2>1, <2>2 DEF AddedAs, DroppedAs, r, m, o
  <2>4. AddedAs(m) = 24 /\ DroppedAs(m) = 2
    BY <2>1, <2>2 DEF AddedAs, DroppedAs, r, m, o
  <2>5. AddedAs(o) = 25 /\ DroppedAs(o) = 1
    BY <2>1, <2>2 DEF AddedAs, DroppedAs, r, m, o
  <2> QED
    BY <2>3, <2>4, <2>5 DEF r, m, o
<1>3. ASSUME NEW q \in AuditColumns
      PROVE  \/ \E t \in AuditTables : q = <<t, "created_at">> \/ q = <<t, "updated_at">>
             \/ q = <<"roles", "version">> \/ q = <<"memberships", "version">> \/ q = <<"outbox", "updated_at">>
  BY DEF AuditColumns
<1> QED
  BY <1>1, <1>2, <1>3

\* What stands in three lists joined.
Spells(e, a, b, c) ==
    /\ Len(e) = Len(a) + Len(b) + Len(c)
    /\ \A k \in 1 .. Len(a) : e[k] = a[k]
    /\ \A k \in 1 .. Len(b) : e[Len(a) + k] = b[k]
    /\ \A k \in 1 .. Len(c) : e[Len(a) + Len(b) + k] = c[k]

LEMMA Joined ==
  ASSUME NEW S, NEW a \in Seq(S), NEW b \in Seq(S), NEW c \in Seq(S)
  PROVE  Spells(a \o b \o c, a, b, c)
<1> DEFINE d == a \o b
<1>1. Len(a) \in Nat /\ Len(b) \in Nat /\ Len(c) \in Nat
  OBVIOUS
<1>2. /\ d \in Seq(S) /\ Len(d) = Len(a) + Len(b)
      /\ \A k \in 1 .. Len(a) + Len(b) : d[k] = IF k <= Len(a) THEN a[k] ELSE b[k - Len(a)]
  BY ConcatProperties
<1> HIDE DEF d
<1> DEFINE e == d \o c
<1>3. /\ Len(e) = Len(d) + Len(c)
      /\ \A k \in 1 .. Len(d) + Len(c) : e[k] = IF k <= Len(d) THEN d[k] ELSE c[k - Len(d)]
  <2>1. d \in Seq(S)
    BY <1>2
  <2> QED
    BY <2>1, ConcatProperties
<1> HIDE DEF e
<1>4. ASSUME NEW k \in 1 .. Len(a)
      PROVE  e[k] = a[k]
  <2>1. k \in 1 .. Len(d) + Len(c) /\ k <= Len(d) /\ k \in 1 .. Len(a) + Len(b) /\ k <= Len(a)
    BY <1>1, <1>2
  <2> QED
    BY <1>2, <1>3, <2>1
<1>5. ASSUME NEW k \in 1 .. Len(b)
      PROVE  e[Len(a) + k] = b[k]
  <2>1. /\ Len(a) + k \in 1 .. Len(d) + Len(c) /\ Len(a) + k <= Len(d)
        /\ Len(a) + k \in 1 .. Len(a) + Len(b) /\ ~(Len(a) + k <= Len(a)) /\ (Len(a) + k) - Len(a) = k
    BY <1>1, <1>2
  <2> QED
    BY <1>2, <1>3, <2>1
<1>6. ASSUME NEW k \in 1 .. Len(c)
      PROVE  e[Len(a) + Len(b) + k] = c[k]
  <2> DEFINE n == Len(a) + Len(b) + k
  <2>1. n \in 1 .. Len(d) + Len(c) /\ ~(n <= Len(d)) /\ n - Len(d) = k
    BY <1>1, <1>2
  <2> HIDE DEF n
  <2>2. e[n] = c[n - Len(d)]
    BY <1>3, <2>1
  <2> QED
    BY <2>1, <2>2 DEF n
<1>7. Len(e) = Len(a) + Len(b) + Len(c)
  BY <1>2, <1>3
<1> QED
  BY <1>4, <1>5, <1>6, <1>7 DEF d, e, Spells

LEMMA ElevenLong ==
  ASSUME NEW S, NEW f \in [1 .. 11 -> S]
  PROVE  f \in Seq(S) /\ Len(f) = 11
<1>1. \E n \in Nat : f \in [1 .. n -> S]
  OBVIOUS
<1>2. f \in Seq(S)
  BY <1>1, SeqDef
<1>3. DOMAIN f = 1 .. 11
  OBVIOUS
<1> QED
  BY <1>2, <1>3, LenProperties

\* Two lists of 11 and one of three, joined both ways.
LEMMA JoinedBothWays ==
  ASSUME NEW f, NEW g, NEW h, NEW x, NEW y, NEW z, NEW l, NEW m,
         f = [n \in 1 .. 11 |-> f[n]], g = [n \in 1 .. 11 |-> g[n]], h = <<x, y, z>>,
         l = f \o g \o h, m = h \o g \o f
  PROVE  /\ Len(l) = 25 /\ Len(m) = 25
         /\ \A k \in 1 .. 11 : l[k] = f[k] /\ l[k + 11] = g[k] /\ m[k + 3] = g[k] /\ m[k + 14] = f[k]
         /\ l[23] = x /\ l[24] = y /\ l[25] = z
         /\ m[1] = x /\ m[2] = y /\ m[3] = z
<1> DEFINE S == {f[n] : n \in 1 .. 11} \union {g[n] : n \in 1 .. 11} \union {x, y, z}
<1>1. f \in [1 .. 11 -> S] /\ g \in [1 .. 11 -> S] /\ x \in S /\ y \in S /\ z \in S
  OBVIOUS
<1> HIDE DEF S
<1>11. h \in Seq(S) /\ Len(h) = 3
  BY <1>1
<1>2. f \in Seq(S) /\ g \in Seq(S) /\ h \in Seq(S) /\ Len(f) = 11 /\ Len(g) = 11 /\ Len(h) = 3
  BY <1>1, <1>11, ElevenLong
<1>3. Spells(l, f, g, h) /\ Spells(m, h, g, f)
  BY <1>2, Joined
<1>4. /\ \A k \in 1 .. Len(f) : l[k] = f[k] /\ m[Len(h) + Len(g) + k] = f[k]
      /\ \A k \in 1 .. Len(g) : l[Len(f) + k] = g[k] /\ m[Len(h) + k] = g[k]
      /\ \A k \in 1 .. Len(h) : l[Len(f) + Len(g) + k] = h[k] /\ m[k] = h[k]
      /\ Len(l) = Len(f) + Len(g) + Len(h) /\ Len(m) = Len(h) + Len(g) + Len(f)
  BY <1>3 DEF Spells
<1>5. h[1] = x /\ h[2] = y /\ h[3] = z
  OBVIOUS
<1>6. Len(l) = 25 /\ Len(m) = 25
  BY <1>2, <1>4
<1>7. ASSUME NEW k \in 1 .. 11
      PROVE  l[k] = f[k] /\ l[k + 11] = g[k] /\ m[k + 3] = g[k] /\ m[k + 14] = f[k]
  <2>1. l[11 + k] = g[k] /\ m[3 + k] = g[k] /\ m[3 + 11 + k] = f[k] /\ l[k] = f[k]
    BY <1>2, <1>4
  <2>2. 11 + k = k + 11 /\ 3 + k = k + 3 /\ 3 + 11 + k = k + 14
    OBVIOUS
  <2> QED
    BY <2>1, <2>2
<1>8. m[1] = x /\ m[2] = y /\ m[3] = z
  BY <1>2, <1>4, <1>5
<1>9. l[11 + 11 + 1] = h[1] /\ l[11 + 11 + 2] = h[2] /\ l[11 + 11 + 3] = h[3]
  BY <1>2, <1>4
<1>10. l[23] = x /\ l[24] = y /\ l[25] = z
  BY <1>5, <1>9
<1> QED
  BY <1>6, <1>7, <1>8, <1>10

\* The statements of the audit migration, one by one.
LEMMA AuditStatements ==
  ASSUME NEW i
  PROVE  LET A == Deploy(i)!AUDIT_MIGRATION_TABLES
             up == Deploy(i)!AddAuditAndVersionColumns.up
             down == Deploy(i)!AddAuditAndVersionColumns.down
         IN /\ Len(up) = 25 /\ Len(down) = 25
            /\ \A k \in 1 .. 11 : /\ up[k] = Deploy(i)!AddColumn(A[k], "created_at")
                                  /\ up[k + 11] = Deploy(i)!AddColumn(A[k], "updated_at")
                                  /\ down[k + 3] = Deploy(i)!DropColumn(A[k], "updated_at")
                                  /\ down[k + 14] = Deploy(i)!DropColumn(A[k], "created_at")
            /\ up[23] = Deploy(i)!AddColumn("roles", "version")
            /\ up[24] = Deploy(i)!AddColumn("memberships", "version")
            /\ up[25] = Deploy(i)!AddColumn("outbox", "updated_at")
            /\ down[1] = Deploy(i)!DropColumn("outbox", "updated_at")
            /\ down[2] = Deploy(i)!DropColumn("memberships", "version")
            /\ down[3] = Deploy(i)!DropColumn("roles", "version")
<1> DEFINE A == Deploy(i)!AUDIT_MIGRATION_TABLES
           Adds(c) == Deploy(i)!AddColumns(A, c)
           Drops(c) == Deploy(i)!DropColumns(A, c)
<1>1. Len(A) = 11
  BY AuditRanks
<1> HIDE DEF A
<1>2. ASSUME NEW c
      PROVE  /\ Adds(c) = [n \in 1 .. 11 |-> Deploy(i)!AddColumn(A[n], c)]
             /\ Drops(c) = [n \in 1 .. 11 |-> Deploy(i)!DropColumn(A[n], c)]
  BY <1>1 DEF Deploy!AddColumns, Deploy!DropColumns
<1> HIDE DEF Adds, Drops
<1>3. /\ Deploy(i)!AddAuditAndVersionColumns.up
           = Adds("created_at") \o Adds("updated_at")
               \o <<Deploy(i)!AddColumn("roles", "version"), Deploy(i)!AddColumn("memberships", "version"),
                    Deploy(i)!AddColumn("outbox", "updated_at")>>
      /\ Deploy(i)!AddAuditAndVersionColumns.down
           = <<Deploy(i)!DropColumn("outbox", "updated_at"), Deploy(i)!DropColumn("memberships", "version"),
               Deploy(i)!DropColumn("roles", "version")>>
               \o Drops("updated_at") \o Drops("created_at")
  BY DEF Deploy!AddAuditAndVersionColumns, Adds, Drops, A
<1> DEFINE up == Deploy(i)!AddAuditAndVersionColumns.up
           down == Deploy(i)!AddAuditAndVersionColumns.down
<1>6. /\ Len(up) = 25
      /\ \A k \in 1 .. 11 : up[k] = Adds("created_at")[k] /\ up[k + 11] = Adds("updated_at")[k]
      /\ up[23] = Deploy(i)!AddColumn("roles", "version")
      /\ up[24] = Deploy(i)!AddColumn("memberships", "version")
      /\ up[25] = Deploy(i)!AddColumn("outbox", "updated_at")
  <2> DEFINE f == Adds("created_at")
             g == Adds("updated_at")
             x == Deploy(i)!AddColumn("roles", "version")
             y == Deploy(i)!AddColumn("memberships", "version")
             z == Deploy(i)!AddColumn("outbox", "updated_at")
             h == <<x, y, z>>
             m == h \o g \o f
  <2>1. f = [n \in 1 .. 11 |-> f[n]] /\ g = [n \in 1 .. 11 |-> g[n]]
    BY <1>2
  <2>2. up = f \o g \o h /\ h = <<x, y, z>> /\ m = h \o g \o f
    BY <1>3
  <2> HIDE DEF f, g, x, y, z, h, m, up
  <2>3. /\ Len(up) = 25
        /\ \A k \in 1 .. 11 : up[k] = f[k] /\ up[k + 11] = g[k]
        /\ up[23] = x /\ up[24] = y /\ up[25] = z
    BY <2>1, <2>2, JoinedBothWays
  <2> QED
    BY <2>3 DEF f, g, x, y, z
<1>7. /\ Len(down) = 25
      /\ \A k \in 1 .. 11 : down[k + 3] = Drops("updated_at")[k] /\ down[k + 14] = Drops("created_at")[k]
      /\ down[1] = Deploy(i)!DropColumn("outbox", "updated_at")
      /\ down[2] = Deploy(i)!DropColumn("memberships", "version")
      /\ down[3] = Deploy(i)!DropColumn("roles", "version")
  <2> DEFINE f == Drops("created_at")
             g == Drops("updated_at")
             x == Deploy(i)!DropColumn("outbox", "updated_at")
             y == Deploy(i)!DropColumn("memberships", "version")
             z == Deploy(i)!DropColumn("roles", "version")
             h == <<x, y, z>>
             l == f \o g \o h
  <2>1. f = [n \in 1 .. 11 |-> f[n]] /\ g = [n \in 1 .. 11 |-> g[n]]
    BY <1>2
  <2>2. down = h \o g \o f /\ h = <<x, y, z>> /\ l = f \o g \o h
    BY <1>3
  <2> HIDE DEF f, g, x, y, z, h, l, down
  <2>3. /\ Len(down) = 25
        /\ \A k \in 1 .. 11 : down[k + 3] = g[k] /\ down[k + 14] = f[k]
        /\ down[1] = x /\ down[2] = y /\ down[3] = z
    BY <2>1, <2>2, JoinedBothWays
  <2> QED
    BY <2>3 DEF f, g, x, y, z
<1> HIDE DEF up, down
<1>8. \A k \in 1 .. 11 : /\ Adds("created_at")[k] = Deploy(i)!AddColumn(A[k], "created_at")
                         /\ Adds("updated_at")[k] = Deploy(i)!AddColumn(A[k], "updated_at")
                         /\ Drops("created_at")[k] = Deploy(i)!DropColumn(A[k], "created_at")
                         /\ Drops("updated_at")[k] = Deploy(i)!DropColumn(A[k], "updated_at")
  BY <1>2
<1> QED
  BY <1>6, <1>7, <1>8 DEF A, up, down

\* The k-th column that is added and the k-th that is dropped.
LEMMA AuditOrder ==
  ASSUME NEW i, NEW k \in 1 .. 25
  PROVE  /\ \E p \in AuditColumns :
              /\ Deploy(i)!AddAuditAndVersionColumns.up[k] = Deploy(i)!AddColumn(p[1], p[2])
              /\ \A q \in AuditColumns : AddedAs(q) = k <=> q = p
         /\ \E p \in AuditColumns :
              /\ Deploy(i)!AddAuditAndVersionColumns.down[k] = Deploy(i)!DropColumn(p[1], p[2])
              /\ \A q \in AuditColumns : DroppedAs(q) = k <=> q = p
<1> DEFINE A == Deploy(i)!AUDIT_MIGRATION_TABLES
           up == Deploy(i)!AddAuditAndVersionColumns.up
           down == Deploy(i)!AddAuditAndVersionColumns.down
<1>1. /\ \A n \in 1 .. 11 : A[n] \in AuditTables /\ Rank(A[n]) = n
      /\ \A t \in AuditTables : Rank(t) \in 1 .. 11 /\ A[Rank(t)] = t
  BY AuditRanks
<1>2. /\ \A n \in 1 .. 11 : /\ up[n] = Deploy(i)!AddColumn(A[n], "created_at")
                            /\ up[n + 11] = Deploy(i)!AddColumn(A[n], "updated_at")
                            /\ down[n + 3] = Deploy(i)!DropColumn(A[n], "updated_at")
                            /\ down[n + 14] = Deploy(i)!DropColumn(A[n], "created_at")
      /\ up[23] = Deploy(i)!AddColumn("roles", "version")
      /\ up[24] = Deploy(i)!AddColumn("memberships", "version")
      /\ up[25] = Deploy(i)!AddColumn("outbox", "updated_at")
      /\ down[1] = Deploy(i)!DropColumn("outbox", "updated_at")
      /\ down[2] = Deploy(i)!DropColumn("memberships", "version")
      /\ down[3] = Deploy(i)!DropColumn("roles", "version")
  BY AuditStatements
<1>3. /\ \A t \in AuditTables : <<t, "created_at">> \in AuditColumns /\ <<t, "updated_at">> \in AuditColumns
      /\ <<"roles", "version">> \in AuditColumns /\ <<"memberships", "version">> \in AuditColumns
      /\ <<"outbox", "updated_at">> \in AuditColumns
      /\ "outbox" \notin AuditTables
  BY DEF AuditColumns, AuditTables
<1> HIDE DEF A, up, down
<1>4. \A q \in AuditColumns :
        \/ \E t \in AuditTables : q = <<t, "created_at">> /\ AddedAs(q) = Rank(t) /\ DroppedAs(q) = 14 + Rank(t)
        \/ \E t \in AuditTables : q = <<t, "updated_at">> /\ AddedAs(q) = 11 + Rank(t) /\ DroppedAs(q) = 3 + Rank(t)
        \/ q = <<"roles", "version">> /\ AddedAs(q) = 23 /\ DroppedAs(q) = 3
        \/ q = <<"memberships", "version">> /\ AddedAs(q) = 24 /\ DroppedAs(q) = 2
        \/ q = <<"outbox", "updated_at">> /\ AddedAs(q) = 25 /\ DroppedAs(q) = 1
  BY AuditPlaces
<1>5. \E p \in AuditColumns : up[k] = Deploy(i)!AddColumn(p[1], p[2]) /\ AddedAs(p) = k
  <2>1. CASE k <= 11
    <3>1. k \in 1 .. 11 /\ A[k] \in AuditTables
      BY <1>1, <2>1
    <3>2. AddedAs(<<A[k], "created_at">>) = k /\ up[k] = Deploy(i)!AddColumn(A[k], "created_at")
      BY <1>1, <1>2, <3>1, AuditPlaces
    <3> DEFINE p == <<A[k], "created_at">>
    <3>3. p[1] = A[k] /\ p[2] = "created_at" /\ p \in AuditColumns
      BY <1>3, <3>1
    <3> QED
      BY <3>2, <3>3
  <2>2. CASE 11 < k /\ k <= 22
    <3>1. k - 11 \in 1 .. 11 /\ A[k - 11] \in AuditTables /\ (k - 11) + 11 = k
      BY <1>1, <2>2
    <3>2. AddedAs(<<A[k - 11], "updated_at">>) = 11 + (k - 11) /\ up[(k - 11) + 11] = Deploy(i)!AddColumn(A[k - 11], "updated_at")
      BY <1>1, <1>2, <3>1, AuditPlaces
    <3> DEFINE p == <<A[k - 11], "updated_at">>
    <3>3. p[1] = A[k - 11] /\ p[2] = "updated_at" /\ p \in AuditColumns
      BY <1>3, <3>1
    <3> QED
      BY <3>1, <3>2, <3>3
  <2>3. CASE k > 22
    <3>1. k \in {23, 24, 25}
      BY <2>3
    <3> QED
      BY <1>2, <1>3, <3>1, AuditPlaces
  <2> QED
    BY <2>1, <2>2, <2>3
<1>6. \E p \in AuditColumns : down[k] = Deploy(i)!DropColumn(p[1], p[2]) /\ DroppedAs(p) = k
  <2>1. CASE k > 14
    <3>1. k - 14 \in 1 .. 11 /\ A[k - 14] \in AuditTables /\ (k - 14) + 14 = k
      BY <1>1, <2>1
    <3>2. DroppedAs(<<A[k - 14], "created_at">>) = 14 + (k - 14) /\ down[(k - 14) + 14] = Deploy(i)!DropColumn(A[k - 14], "created_at")
      BY <1>1, <1>2, <3>1, AuditPlaces
    <3> DEFINE p == <<A[k - 14], "created_at">>
    <3>3. p[1] = A[k - 14] /\ p[2] = "created_at" /\ p \in AuditColumns
      BY <1>3, <3>1
    <3> QED
      BY <3>1, <3>2, <3>3
  <2>2. CASE 3 < k /\ k <= 14
    <3>1. k - 3 \in 1 .. 11 /\ A[k - 3] \in AuditTables /\ (k - 3) + 3 = k
      BY <1>1, <2>2
    <3>2. DroppedAs(<<A[k - 3], "updated_at">>) = 3 + (k - 3) /\ down[(k - 3) + 3] = Deploy(i)!DropColumn(A[k - 3], "updated_at")
      BY <1>1, <1>2, <3>1, AuditPlaces
    <3> DEFINE p == <<A[k - 3], "updated_at">>
    <3>3. p[1] = A[k - 3] /\ p[2] = "updated_at" /\ p \in AuditColumns
      BY <1>3, <3>1
    <3> QED
      BY <3>1, <3>2, <3>3
  <2>3. CASE k <= 3
    <3>1. k \in {1, 2, 3}
      BY <2>3
    <3> QED
      BY <1>2, <1>3, <3>1, AuditPlaces
  <2> QED
    BY <2>1, <2>2, <2>3
<1>7. \A t, u \in AuditTables : Rank(t) = Rank(u) => t = u
  BY <1>1
<1>8. \A p, q \in AuditColumns : AddedAs(p) = AddedAs(q) \/ DroppedAs(p) = DroppedAs(q) => p = q
  BY <1>1, <1>4, <1>7
<1> QED
  BY <1>5, <1>6, <1>8 DEF up, down

LEMMA AuditPlacesRange ==
  ASSUME NEW q \in AuditColumns
  PROVE  AddedAs(q) \in 1 .. 25 /\ DroppedAs(q) \in 1 .. 25
<1>1. \A t \in AuditTables : Rank(t) \in 1 .. 11
  BY AuditRanks
<1>2. \/ \E t \in AuditTables : q = <<t, "created_at">> \/ q = <<t, "updated_at">>
      \/ AddedAs(q) \in 23 .. 25 /\ DroppedAs(q) \in 1 .. 3
  BY AuditPlaces
<1>3. ASSUME NEW t \in AuditTables, q = <<t, "created_at">> \/ q = <<t, "updated_at">>
      PROVE  AddedAs(q) \in 1 .. 25 /\ DroppedAs(q) \in 1 .. 25
  <2>1. AddedAs(q) \in {Rank(t), 11 + Rank(t)} /\ DroppedAs(q) \in {3 + Rank(t), 14 + Rank(t)}
    BY <1>3, AuditPlaces
  <2> QED
    BY <1>1, <2>1
<1> QED
  BY <1>2, <1>3

\* The audit migration takes its place in the timeline, and its down undoes it.
LEMMA AuditGoes ==
  ASSUME NEW i
  PROVE  /\ Deploy(i)!Execute(At(i, 7), Deploy(i)!postgresMigrations[8].up) = {At(i, 8)}
         /\ Deploy(i)!Execute(At(i, 8), Deploy(i)!postgresMigrations[8].down) = {At(i, 7)}
<1> DEFINE T == TablesAt(7)
           X == IndexesAt(7)
           Ups(k) == {q \in AuditColumns : AddedAs(q) <= k}
           Left(k) == {q \in AuditColumns : DroppedAs(q) > k}
           up == Deploy(i)!AddAuditAndVersionColumns.up
           down == Deploy(i)!AddAuditAndVersionColumns.down
           f == [k \in 0 .. 25 |-> Made(i, T, Ups(k), X)]
           g == [k \in 0 .. 25 |-> Made(i, T, Left(k), X)]
<1>1. Deploy(i)!postgresMigrations[8].up = up /\ Deploy(i)!postgresMigrations[8].down = down
  BY Timelines
<1>2. Len(up) = 25 /\ Len(down) = 25
  BY AuditStatements
<1>3. At(i, 7) = Made(i, T, {}, X) /\ At(i, 8) = Made(i, T, AuditColumns, X)
  <2>1. TablesAt(8) = T /\ IndexesAt(8) = X /\ ColumnsAt(8) = AuditColumns /\ ColumnsAt(7) = {}
    BY DEF TablesAt, IndexesAt, ColumnsAt
  <2> QED
    BY <2>1 DEF At
<1>4. \A q \in AuditColumns : AddedAs(q) \in 1 .. 25 /\ DroppedAs(q) \in 1 .. 25
  BY AuditPlacesRange
<1>5. Ups(0) = {} /\ Ups(25) = AuditColumns /\ Left(0) = AuditColumns /\ Left(25) = {}
  BY <1>4
<1> HIDE DEF T, X, Ups, Left, up, down
<1>6. ASSUME NEW k \in 1 .. 25
      PROVE  Goes(i, f[k - 1], up[k], f[k]) /\ Goes(i, g[k - 1], down[k], g[k])
  <2>1. /\ f[k - 1] = Made(i, T, Ups(k - 1), X) /\ f[k] = Made(i, T, Ups(k), X)
        /\ g[k - 1] = Made(i, T, Left(k - 1), X) /\ g[k] = Made(i, T, Left(k), X)
    OBVIOUS
  <2> HIDE DEF f, g
  <2>2. PICK p \in AuditColumns : /\ up[k] = Deploy(i)!AddColumn(p[1], p[2])
                                  /\ \A q \in AuditColumns : AddedAs(q) = k <=> q = p
    BY AuditOrder DEF up
  <2>3. PICK r \in AuditColumns : /\ down[k] = Deploy(i)!DropColumn(r[1], r[2])
                                  /\ \A q \in AuditColumns : DroppedAs(q) = k <=> q = r
    BY AuditOrder DEF down
  <2>4. p = <<p[1], p[2]>> /\ r = <<r[1], r[2]>>
    BY <2>2, <2>3 DEF AuditColumns
  <2>5. Ups(k) = Ups(k - 1) \union {<<p[1], p[2]>>} /\ <<p[1], p[2]>> \notin Ups(k - 1)
    <3>1. Ups(k) = Ups(k - 1) \union {p} /\ p \notin Ups(k - 1)
      BY <1>4, <2>2 DEF Ups
    <3> QED
      BY <2>4, <3>1
  <2>6. Left(k) = Left(k - 1) \ {<<r[1], r[2]>>} /\ <<r[1], r[2]>> \in Left(k - 1)
    <3>1. Left(k) = Left(k - 1) \ {r} /\ r \in Left(k - 1)
      BY <1>4, <2>3 DEF Left
    <3> QED
      BY <2>4, <3>1
  <2>7. /\ p[1] \in T /\ p[2] \in {"created_at", "updated_at", "version"}
        /\ p[2] \notin Birth(i, p[1]).must /\ p[2] \notin Birth(i, p[1]).may
    <3>1. <<p[1], p[2]>> \in AuditColumns
      BY <2>4
    <3> QED
      BY <3>1, AuditIsNew DEF T
  <2>8. /\ r[1] \in T /\ r[2] \in {"created_at", "updated_at", "version"}
        /\ r[2] \notin Birth(i, r[1]).must /\ r[2] \notin Birth(i, r[1]).may
    <3>1. <<r[1], r[2]>> \in AuditColumns
      BY <2>4
    <3> QED
      BY <3>1, AuditIsNew DEF T
  <2>9. Goes(i, Made(i, T, Ups(k - 1), X), Deploy(i)!AddColumn(p[1], p[2]),
             Made(i, T, Ups(k - 1) \union {<<p[1], p[2]>>}, X))
    BY <2>5, <2>7, AddGoes
  <2>10. Goes(i, Made(i, T, Left(k - 1), X), Deploy(i)!DropColumn(r[1], r[2]),
              Made(i, T, Left(k - 1) \ {<<r[1], r[2]>>}, X))
    BY <2>6, <2>8, RemoveGoes
  <2> QED
    BY <2>1, <2>2, <2>3, <2>5, <2>6, <2>9, <2>10
<1>7. f[0] = At(i, 7) /\ f[25] = At(i, 8) /\ g[0] = At(i, 8) /\ g[25] = At(i, 7)
  BY <1>3, <1>5
<1> HIDE DEF f, g
<1>8. Leads(i, up, f) /\ Leads(i, down, g)
  BY <1>2, <1>6 DEF Leads
<1>9. Deploy(i)!Execute(f[0], up) = {f[Len(up)]} /\ Deploy(i)!Execute(g[0], down) = {g[Len(down)]}
  <2>1. Len(up) \in Nat /\ Len(down) \in Nat
    BY <1>2
  <2> QED
    BY <1>8, <2>1, ExecuteSteps
<1> QED
  BY <1>1, <1>2, <1>7, <1>9

LEMMA UpGoes ==
  ASSUME NEW i, NEW m \in 1 .. 16
  PROVE  Deploy(i)!Execute(At(i, m - 1), Deploy(i)!postgresMigrations[m].up) = {At(i, m)}
<1>1. CASE m = 8
  BY <1>1, AuditGoes
<1>2. CASE m # 8
  BY <1>2, UpsGo
<1> QED
  BY <1>1, <1>2

LEMMA DownGoes ==
  ASSUME NEW i, NEW m \in 1 .. 16
  PROVE  Deploy(i)!Execute(At(i, m), Deploy(i)!postgresMigrations[m].down) = {At(i, m - 1)}
<1>1. CASE m = 8
  BY <1>1, AuditGoes
<1>2. CASE m # 8
  BY <1>2, DownsGo
<1> QED
  BY <1>1, <1>2

\* What is there already: the table, the column or the index of the first
\* statement of an up, and a grant changes no schema.
LEMMA UpAgain ==
  ASSUME NEW i, NEW m \in 1 .. 16, NEW n \in m .. 16
  PROVE  Deploy(i)!Execute(At(i, n), Deploy(i)!postgresMigrations[m].up) \subseteq {At(i, n)}
<1> DEFINE up == Deploy(i)!postgresMigrations[m].up
           s == At(i, n)
<1>1. DOMAIN s = TablesAt(n) /\ \A t \in TablesAt(n) : s[t] = Table(i, t, ColumnsAt(n), IndexesAt(n))
  BY DEF At, Made
<1>2. n \in Nat /\ m \in Nat /\ m <= n
  OBVIOUS
<1>3. ASSUME NEW t, m \in {1, 2, 3, 4, 5, 7, 10, 11}, up[1] = Birth(i, t), t \in TablesAt(n), Len(up) \in Nat, Len(up) >= 1
      PROVE  Deploy(i)!Execute(s, up) = {}
  <2>1. t \in TablesAt(16)
    BY <1>2, <1>3 DEF TablesAt
  <2> HIDE DEF s, up
  <2>2. ~Deploy(i)!Applies(s, up[1])
    BY <1>1, <1>3, <2>1, Born DEF Deploy!Applies
  <2> QED
    BY <1>3, <2>2, ExecuteFails
<1>4. ASSUME NEW x, NEW t, up = <<Deploy(i)!CreateIndex(t, x)>>, OfTable(x) = t, t \in TablesAt(n), x \in IndexesAt(n)
      PROVE  Deploy(i)!Execute(s, up) = {}
  <2>1. x \in s[t].idx
    BY <1>1, <1>4 DEF Table
  <2>2. up[1] = Deploy(i)!CreateIndex(t, x) /\ Len(up) = 1
    BY <1>4
  <2> HIDE DEF s, up
  <2>3. up[1].op = "index" /\ up[1].i = x
    BY <2>2 DEF Deploy!CreateIndex
  <2>4. ~Deploy(i)!Applies(s, up[1])
    BY <1>1, <1>4, <2>1, <2>3 DEF Deploy!Applies
  <2> QED
    BY <2>2, <2>4, ExecuteFails
<1>5. ASSUME NEW ps, up = <<Deploy(i)!Grant(ps)>>, n >= 2
      PROVE  Deploy(i)!Execute(s, up) = {s}
  <2>1. "role_permissions" \in TablesAt(n)
    BY <1>5 DEF TablesAt
  <2>2. Goes(i, s, Deploy(i)!Grant(ps), s)
    BY <2>1, RowsGo DEF At
  <2> HIDE DEF s, up
  <2> QED
    BY <1>5, <2>2, ExecuteOne
<1>6. m \in {1, 2, 3, 4, 5, 6, 7, 8, 9, 10, 11, 12, 13, 14, 15, 16}
  OBVIOUS
<1>7. CASE m = 1
  <2>1. up[1] = Birth(i, "users") /\ Len(up) \in Nat /\ Len(up) >= 1
    <3>1. Deploy(i)!postgresMigrations[1] = Deploy(i)!CreateUsers
      BY Timelines
    <3>2. Deploy(i)!CreateUsers.up[1] = Birth(i, "users")
      BY DEF Birth
    <3>3. Len(Deploy(i)!CreateUsers.up) = 1
      BY DEF Deploy!CreateUsers
    <3> QED
      BY <1>7, <3>1, <3>2, <3>3
  <2>2. "users" \in TablesAt(n)
    BY <1>2, <1>7 DEF TablesAt
  <2> HIDE DEF s, up
  <2>3. Deploy(i)!Execute(s, up) = {}
    BY <1>3, <1>7, <2>1, <2>2
  <2> QED
    BY <2>3 DEF s, up
<1>8. CASE m = 2
  <2>1. up[1] = Birth(i, "roles") /\ Len(up) \in Nat /\ Len(up) >= 1
    <3>1. Deploy(i)!postgresMigrations[2] = Deploy(i)!CreateRoles
      BY Timelines
    <3>2. Deploy(i)!CreateRoles.up[1] = Birth(i, "roles")
      BY DEF Birth
    <3>3. Len(Deploy(i)!CreateRoles.up) = 2
      BY DEF Deploy!CreateRoles
    <3> QED
      BY <1>8, <3>1, <3>2, <3>3
  <2>2. "roles" \in TablesAt(n)
    BY <1>2, <1>8 DEF TablesAt
  <2> HIDE DEF s, up
  <2>3. Deploy(i)!Execute(s, up) = {}
    BY <1>3, <1>8, <2>1, <2>2
  <2> QED
    BY <2>3 DEF s, up
<1>9. CASE m = 3
  <2>1. up[1] = Birth(i, "tenants") /\ Len(up) \in Nat /\ Len(up) >= 1
    <3>1. Deploy(i)!postgresMigrations[3] = Deploy(i)!CreateTenantsAndMemberships
      BY Timelines
    <3>2. Deploy(i)!CreateTenantsAndMemberships.up[1] = Birth(i, "tenants")
      BY DEF Birth
    <3>3. Len(Deploy(i)!CreateTenantsAndMemberships.up) = 4
      BY DEF Deploy!CreateTenantsAndMemberships
    <3> QED
      BY <1>9, <3>1, <3>2, <3>3
  <2>2. "tenants" \in TablesAt(n)
    BY <1>2, <1>9 DEF TablesAt
  <2> HIDE DEF s, up
  <2>3. Deploy(i)!Execute(s, up) = {}
    BY <1>3, <1>9, <2>1, <2>2
  <2> QED
    BY <2>3 DEF s, up
<1>10. CASE m = 4
  <2>1. up[1] = Birth(i, "user_local_passwords") /\ Len(up) \in Nat /\ Len(up) >= 1
    <3>1. Deploy(i)!postgresMigrations[4] = Deploy(i)!CreateCredentials
      BY Timelines
    <3>2. Deploy(i)!CreateCredentials.up[1] = Birth(i, "user_local_passwords")
      BY DEF Birth
    <3>3. Len(Deploy(i)!CreateCredentials.up) = 5
      BY DEF Deploy!CreateCredentials
    <3> QED
      BY <1>10, <3>1, <3>2, <3>3
  <2>2. "user_local_passwords" \in TablesAt(n)
    BY <1>2, <1>10 DEF TablesAt
  <2> HIDE DEF s, up
  <2>3. Deploy(i)!Execute(s, up) = {}
    BY <1>3, <1>10, <2>1, <2>2
  <2> QED
    BY <2>3 DEF s, up
<1>11. CASE m = 5
  <2>1. up[1] = Birth(i, "invitations") /\ Len(up) \in Nat /\ Len(up) >= 1
    <3>1. Deploy(i)!postgresMigrations[5] = Deploy(i)!CreateInvitations
      BY Timelines
    <3>2. Deploy(i)!CreateInvitations.up[1] = Birth(i, "invitations")
      BY DEF Birth
    <3>3. Len(Deploy(i)!CreateInvitations.up) = 3
      BY DEF Deploy!CreateInvitations
    <3> QED
      BY <1>11, <3>1, <3>2, <3>3
  <2>2. "invitations" \in TablesAt(n)
    BY <1>2, <1>11 DEF TablesAt
  <2> HIDE DEF s, up
  <2>3. Deploy(i)!Execute(s, up) = {}
    BY <1>3, <1>11, <2>1, <2>2
  <2> QED
    BY <2>3 DEF s, up
<1>12. CASE m = 6
  <2>1. up = <<Deploy(i)!Grant(Deploy(i)!MemberPermissions)>>
    <3>1. Deploy(i)!postgresMigrations[6] = Deploy(i)!BackfillAdminPermissions
      BY Timelines
    <3> QED
      BY <1>12, <3>1 DEF Deploy!BackfillAdminPermissions
  <2>2. n >= 2
    BY <1>2, <1>12
  <2> HIDE DEF s, up
  <2>3. Deploy(i)!Execute(s, up) = {s}
    BY <1>5, <2>1, <2>2
  <2> QED
    BY <2>3 DEF s, up
<1>13. CASE m = 7
  <2>1. up[1] = Birth(i, "outbox") /\ Len(up) \in Nat /\ Len(up) >= 1
    <3>1. Deploy(i)!postgresMigrations[7] = Deploy(i)!CreateOutbox
      BY Timelines
    <3>2. Deploy(i)!CreateOutbox.up[1] = Birth(i, "outbox")
      BY DEF Birth
    <3>3. Len(Deploy(i)!CreateOutbox.up) = 2
      BY DEF Deploy!CreateOutbox
    <3> QED
      BY <1>13, <3>1, <3>2, <3>3
  <2>2. "outbox" \in TablesAt(n)
    BY <1>2, <1>13 DEF TablesAt
  <2> HIDE DEF s, up
  <2>3. Deploy(i)!Execute(s, up) = {}
    BY <1>3, <1>13, <2>1, <2>2
  <2> QED
    BY <2>3 DEF s, up
<1>14. CASE m = 8
  <2>1. up[1] = Deploy(i)!AddColumn("users", "created_at") /\ Len(up) = 25
    <3>1. Deploy(i)!AUDIT_MIGRATION_TABLES[1] = "users"
      BY DEF Deploy!AUDIT_MIGRATION_TABLES
    <3> QED
      BY <1>14, <3>1, Timelines, AuditStatements
  <2>2. "users" \in TablesAt(n) /\ <<"users", "created_at">> \in ColumnsAt(n)
    BY <1>2, <1>14 DEF TablesAt, ColumnsAt, AuditColumns, AuditTables
  <2>3. "created_at" \in s["users"].may
    BY <1>1, <2>2 DEF Table, Added
  <2> HIDE DEF s, up
  <2>4. up[1].op = "add" /\ up[1].t = "users" /\ up[1].c = "created_at"
    BY <2>1 DEF Deploy!AddColumn
  <2>5. ~Deploy(i)!Applies(s, up[1])
    BY <2>3, <2>4 DEF Deploy!Applies, Deploy!Columns
  <2>7. Len(up) \in Nat /\ Len(up) >= 1
    BY <2>1
  <2>6. Deploy(i)!Execute(s, up) = {}
    BY <2>5, <2>7, ExecuteFails
  <2> QED
    BY <2>6 DEF s, up
<1>15. CASE m = 9
  <2>1. up = <<Deploy(i)!CreateIndex("membership_roles", "membership_roles.role_id")>>
    <3>1. Deploy(i)!postgresMigrations[9] = Deploy(i)!IndexMembershipRolesRoleId
      BY Timelines
    <3> QED
      BY <1>15, <3>1 DEF Deploy!IndexMembershipRolesRoleId, Deploy!OneIndex
  <2>2. "membership_roles" \in TablesAt(n) /\ "membership_roles.role_id" \in IndexesAt(n)
    BY <1>2, <1>15 DEF TablesAt, IndexesAt
  <2> HIDE DEF s, up
  <2>3. Deploy(i)!Execute(s, up) = {}
    BY <1>4, <2>1, <2>2, Indexed
  <2> QED
    BY <2>3 DEF s, up
<1>16. CASE m = 10
  <2>1. up[1] = Birth(i, "idempotency_keys") /\ Len(up) \in Nat /\ Len(up) >= 1
    <3>1. Deploy(i)!postgresMigrations[10] = Deploy(i)!CreateIdempotencyKeys
      BY Timelines
    <3>2. Deploy(i)!CreateIdempotencyKeys.up[1] = Birth(i, "idempotency_keys")
      BY DEF Birth
    <3>3. Len(Deploy(i)!CreateIdempotencyKeys.up) = 2
      BY DEF Deploy!CreateIdempotencyKeys
    <3> QED
      BY <1>16, <3>1, <3>2, <3>3
  <2>2. "idempotency_keys" \in TablesAt(n)
    BY <1>2, <1>16 DEF TablesAt
  <2> HIDE DEF s, up
  <2>3. Deploy(i)!Execute(s, up) = {}
    BY <1>3, <1>16, <2>1, <2>2
  <2> QED
    BY <2>3 DEF s, up
<1>17. CASE m = 11
  <2>1. up[1] = Birth(i, "api_keys") /\ Len(up) \in Nat /\ Len(up) >= 1
    <3>1. Deploy(i)!postgresMigrations[11] = Deploy(i)!CreateApiKeys
      BY Timelines
    <3>2. Deploy(i)!CreateApiKeys.up[1] = Birth(i, "api_keys")
      BY DEF Birth
    <3>3. Len(Deploy(i)!CreateApiKeys.up) = 2
      BY DEF Deploy!CreateApiKeys
    <3> QED
      BY <1>17, <3>1, <3>2, <3>3
  <2>2. "api_keys" \in TablesAt(n)
    BY <1>2, <1>17 DEF TablesAt
  <2> HIDE DEF s, up
  <2>3. Deploy(i)!Execute(s, up) = {}
    BY <1>3, <1>17, <2>1, <2>2
  <2> QED
    BY <2>3 DEF s, up
<1>18. CASE m = 12
  <2>1. up = <<Deploy(i)!Grant({"identity.api_keys.manage"})>>
    <3>1. Deploy(i)!postgresMigrations[12] = Deploy(i)!BackfillAdminApiKeysManage
      BY Timelines
    <3> QED
      BY <1>18, <3>1 DEF Deploy!BackfillAdminApiKeysManage
  <2>2. n >= 2
    BY <1>2, <1>18
  <2> HIDE DEF s, up
  <2>3. Deploy(i)!Execute(s, up) = {s}
    BY <1>5, <2>1, <2>2
  <2> QED
    BY <2>3 DEF s, up
<1>19. CASE m = 13
  <2>1. up = <<Deploy(i)!CreateIndex("refresh_sessions", "refresh_sessions.expires_at")>>
    <3>1. Deploy(i)!postgresMigrations[13] = Deploy(i)!IndexRefreshSessionExpiry
      BY Timelines
    <3> QED
      BY <1>19, <3>1 DEF Deploy!IndexRefreshSessionExpiry, Deploy!OneIndex
  <2>2. "refresh_sessions" \in TablesAt(n) /\ "refresh_sessions.expires_at" \in IndexesAt(n)
    BY <1>2, <1>19 DEF TablesAt, IndexesAt
  <2> HIDE DEF s, up
  <2>3. Deploy(i)!Execute(s, up) = {}
    BY <1>4, <2>1, <2>2, Indexed
  <2> QED
    BY <2>3 DEF s, up
<1>20. CASE m = 14
  <2>1. up = <<Deploy(i)!CreateIndex("password_reset_tokens", "password_reset_tokens.expires_at")>>
    <3>1. Deploy(i)!postgresMigrations[14] = Deploy(i)!IndexPasswordResetExpiry
      BY Timelines
    <3> QED
      BY <1>20, <3>1 DEF Deploy!IndexPasswordResetExpiry, Deploy!OneIndex
  <2>2. "password_reset_tokens" \in TablesAt(n) /\ "password_reset_tokens.expires_at" \in IndexesAt(n)
    BY <1>2, <1>20 DEF TablesAt, IndexesAt
  <2> HIDE DEF s, up
  <2>3. Deploy(i)!Execute(s, up) = {}
    BY <1>4, <2>1, <2>2, Indexed
  <2> QED
    BY <2>3 DEF s, up
<1>21. CASE m = 15
  <2>1. up = <<Deploy(i)!CreateIndex("invitations", "invitations.expires_at")>>
    <3>1. Deploy(i)!postgresMigrations[15] = Deploy(i)!IndexInvitationExpiry
      BY Timelines
    <3> QED
      BY <1>21, <3>1 DEF Deploy!IndexInvitationExpiry, Deploy!OneIndex
  <2>2. "invitations" \in TablesAt(n) /\ "invitations.expires_at" \in IndexesAt(n)
    BY <1>2, <1>21 DEF TablesAt, IndexesAt
  <2> HIDE DEF s, up
  <2>3. Deploy(i)!Execute(s, up) = {}
    BY <1>4, <2>1, <2>2, Indexed
  <2> QED
    BY <2>3 DEF s, up
<1>22. CASE m = 16
  <2>1. up = <<Deploy(i)!CreateIndex("outbox", "outbox.processing_updated_at")>>
    <3>1. Deploy(i)!postgresMigrations[16] = Deploy(i)!IndexOutboxProcessing
      BY Timelines
    <3> QED
      BY <1>22, <3>1 DEF Deploy!IndexOutboxProcessing, Deploy!OneIndex
  <2>2. "outbox" \in TablesAt(n) /\ "outbox.processing_updated_at" \in IndexesAt(n)
    BY <1>2, <1>22 DEF TablesAt, IndexesAt
  <2> HIDE DEF s, up
  <2>3. Deploy(i)!Execute(s, up) = {}
    BY <1>4, <2>1, <2>2, Indexed
  <2> QED
    BY <2>3 DEF s, up
<1> QED
  BY <1>6, <1>7, <1>8, <1>9, <1>10, <1>11, <1>12, <1>13, <1>14, <1>15, <1>16, <1>17, <1>18, <1>19, <1>20, <1>21, <1>22

\* The position of the timeline that migrations up to t reach from n.
Later(n, t) == IF t > n THEN t ELSE n

LEMMA EmptyIsNone ==
  ASSUME NEW i
  PROVE  Deploy(i)!Empty = At(i, 0)
<1>1. TablesAt(0) = {}
  BY DEF TablesAt
<1>2. DOMAIN At(i, 0) = {} /\ At(i, 0) = [t \in {} |-> At(i, 0)[t]]
  BY <1>1 DEF At, Made
<1>3. \A f, g : DOMAIN f = {} /\ DOMAIN g = {} /\ f = [t \in {} |-> f[t]] /\ g = [t \in {} |-> g[t]] => f = g
  OBVIOUS
<1>4. DOMAIN <<>> = {} /\ <<>> = [t \in {} |-> <<>>[t]]
  OBVIOUS
<1> QED
  BY <1>2, <1>3, <1>4 DEF Deploy!Empty

\* The migrations after b, run on n of them, leave a schema of the timeline or
\* none: what is there stops them, or is a backfill.
LEMMA MigrateRaced ==
  ASSUME NEW i, NEW n \in 0 .. 16, NEW b \in 0 .. n, NEW t \in 0 .. 16
  PROVE  Deploy(i)!Migrate(At(i, n), b + 1 .. t) \subseteq {At(i, Later(n, t))}
<1> DEFINE ms == b + 1 .. t
           s == At(i, n)
           Reach(k) == IF k <= n THEN n ELSE IF k <= t THEN k ELSE Later(n, t)
<1>1. PICK g : Passes(i, s, ms, g)
  BY MigrateSolved
<1> DEFINE Right == {k \in Nat : k <= 16 => g[k] \subseteq {At(i, Reach(k))}}
<1>2. 0 \in Right
  BY <1>1 DEF Passes
<1>3. ASSUME NEW k \in Nat, k \in Right
      PROVE  k + 1 \in Right
  <2> SUFFICES ASSUME k + 1 <= 16
               PROVE  g[k + 1] \subseteq {At(i, Reach(k + 1))}
    OBVIOUS
  <2>1. k + 1 \in 1 .. 16 /\ (k + 1) - 1 = k /\ k <= 16
    OBVIOUS
  <2>2. g[k] \subseteq {At(i, Reach(k))}
    BY <1>3, <2>1
  <2>3. g[k + 1] = IF k + 1 \in ms
                   THEN UNION {Deploy(i)!Execute(x, Deploy(i)!postgresMigrations[k + 1].up) : x \in g[k]}
                   ELSE g[k]
    BY <1>1, <2>1 DEF Passes
  <2>4. CASE k + 1 \notin ms
    <3>1. Reach(k + 1) = Reach(k)
      BY <2>4 DEF Later
    <3> HIDE DEF ms, s, Reach, Right
    <3> QED
      BY <2>2, <2>3, <2>4, <3>1
  <2>5. CASE k + 1 \in ms /\ k + 1 <= n
    <3>1. Reach(k) = n /\ Reach(k + 1) = n /\ n \in k + 1 .. 16
      BY <2>5
    <3>2. Deploy(i)!Execute(s, Deploy(i)!postgresMigrations[k + 1].up) \subseteq {s}
      BY <2>1, <3>1, UpAgain
    <3>3. g[k] \subseteq {s} /\ {At(i, Reach(k + 1))} = {s}
      BY <2>2, <3>1
    <3> HIDE DEF ms, s, Reach, Right
    <3> QED
      BY <2>3, <2>5, <3>2, <3>3
  <2>6. CASE k + 1 \in ms /\ k + 1 > n
    <3>1. Reach(k) = k /\ Reach(k + 1) = k + 1
      BY <2>6
    <3>2. Deploy(i)!Execute(At(i, k), Deploy(i)!postgresMigrations[k + 1].up) = {At(i, k + 1)}
      BY <2>1, UpGoes
    <3>3. g[k] \subseteq {At(i, k)} /\ {At(i, Reach(k + 1))} = {At(i, k + 1)}
      BY <2>2, <3>1
    <3> HIDE DEF ms, s, Reach, Right
    <3> QED
      BY <2>3, <2>6, <3>2, <3>3
  <2> QED
    BY <2>4, <2>5, <2>6
<1> HIDE DEF Right
<1>4. 16 \in Right
  BY <1>2, <1>3, NatSetInduction
<1>5. Reach(16) = Later(n, t)
  BY DEF Later
<1>6. g[16] \subseteq {At(i, Reach(16))}
  BY <1>4 DEF Right
<1>7. Deploy(i)!Migrate(s, ms) = g[16]
  BY <1>1 DEF Passes
<1> HIDE DEF Reach
<1> QED
  BY <1>5, <1>6, <1>7

\* The migrations after n, run on n of them, always go through.
LEMMA MigrateWhole ==
  ASSUME NEW i, NEW n \in 0 .. 16, NEW t \in n .. 16
  PROVE  Deploy(i)!Migrate(At(i, n), n + 1 .. t) = {At(i, t)}
<1> DEFINE ms == n + 1 .. t
           s == At(i, n)
           Reach(k) == IF k <= n THEN n ELSE IF k <= t THEN k ELSE t
<1>1. PICK g : Passes(i, s, ms, g)
  BY MigrateSolved
<1> DEFINE Right == {k \in Nat : k <= 16 => g[k] = {At(i, Reach(k))}}
<1>2. 0 \in Right
  BY <1>1 DEF Passes
<1>3. ASSUME NEW k \in Nat, k \in Right
      PROVE  k + 1 \in Right
  <2> SUFFICES ASSUME k + 1 <= 16
               PROVE  g[k + 1] = {At(i, Reach(k + 1))}
    OBVIOUS
  <2>1. k + 1 \in 1 .. 16 /\ (k + 1) - 1 = k /\ k <= 16
    OBVIOUS
  <2>2. g[k] = {At(i, Reach(k))}
    BY <1>3, <2>1
  <2>3. g[k + 1] = IF k + 1 \in ms
                   THEN UNION {Deploy(i)!Execute(x, Deploy(i)!postgresMigrations[k + 1].up) : x \in g[k]}
                   ELSE g[k]
    BY <1>1, <2>1 DEF Passes
  <2>4. CASE k + 1 \notin ms
    <3>1. Reach(k + 1) = Reach(k)
      BY <2>4
    <3> HIDE DEF ms, s, Reach, Right
    <3> QED
      BY <2>2, <2>3, <2>4, <3>1
  <2>6. CASE k + 1 \in ms
    <3>1. Reach(k) = k /\ Reach(k + 1) = k + 1
      BY <2>6
    <3>2. Deploy(i)!Execute(At(i, k), Deploy(i)!postgresMigrations[k + 1].up) = {At(i, k + 1)}
      BY <2>1, UpGoes
    <3>3. g[k] = {At(i, k)} /\ {At(i, Reach(k + 1))} = {At(i, k + 1)}
      BY <2>2, <3>1
    <3> HIDE DEF ms, s, Reach, Right
    <3> QED
      BY <2>3, <2>6, <3>2, <3>3
  <2> QED
    BY <2>4, <2>6
<1> HIDE DEF Right
<1>4. 16 \in Right
  BY <1>2, <1>3, NatSetInduction
<1>5. Reach(16) = t
  OBVIOUS
<1>6. g[16] = {At(i, Reach(16))}
  BY <1>4 DEF Right
<1>7. Deploy(i)!Migrate(s, ms) = g[16]
  BY <1>1 DEF Passes
<1> HIDE DEF Reach
<1> QED
  BY <1>5, <1>6, <1>7

\* The schema is its history, wherever in the timeline it is.
LEMMA HistoryIs ==
  ASSUME NEW i, NEW n \in 0 .. 16
  PROVE  Deploy(i)!Migrate(Deploy(i)!Empty, 1 .. n) = {At(i, n)}
<1> DEFINE z == 0
<1>1. z \in 0 .. 16 /\ n \in z .. 16 /\ z + 1 = 1
  OBVIOUS
<1>2. At(i, z) = Deploy(i)!Empty
  BY EmptyIsNone
<1> HIDE DEF z
<1>3. Deploy(i)!Migrate(At(i, z), z + 1 .. n) = {At(i, n)}
  BY <1>1, MigrateWhole
<1> QED
  BY <1>1, <1>2, <1>3

\* What the audit migration adds to each table.
LEMMA AddedColumns ==
  /\ \A t \in AuditTables : {"created_at", "updated_at"} \subseteq Added(AuditColumns, t)
  /\ "version" \in Added(AuditColumns, "roles") /\ "version" \in Added(AuditColumns, "memberships")
  /\ "updated_at" \in Added(AuditColumns, "outbox")
BY DEF Added, AuditColumns

\* The columns and keys of the migrated schema are those the entities name.
LEMMA EntitiesServed ==
  ASSUME NEW i, NEW e \in Deploy(i)!postgresEntities
  PROVE  Deploy(i)!Serves(At(i, 16), e)
<1> DEFINE s == At(i, 16)
           Fits(x, t, cs) ==
             /\ x.t = t /\ t \in TablesAt(16)
             /\ x.cols \subseteq Birth(i, t).must \union Birth(i, t).may \union cs
             /\ Birth(i, t).must \subseteq x.cols /\ x.keys \subseteq Birth(i, t).keys
<1>1. DOMAIN s = TablesAt(16) /\ \A t \in TablesAt(16) : s[t] = Table(i, t, AuditColumns, IndexesAt(16))
  BY DEF At, Made, ColumnsAt
<1>2. ASSUME NEW x, NEW t, NEW cs, Fits(x, t, cs), cs \subseteq Added(AuditColumns, t)
      PROVE  Deploy(i)!Serves(s, x)
  <2>2. t \in TablesAt(16)
    BY <1>2
  <2> HIDE DEF s
  <2>3. s[t] = Table(i, t, AuditColumns, IndexesAt(16))
    BY <1>1, <2>2
  <2>1. /\ s[t].must = Birth(i, t).must /\ s[t].keys = Birth(i, t).keys
        /\ s[t].may = Birth(i, t).may \union Added(AuditColumns, t)
    BY <2>3 DEF Table
  <2> QED
    BY <1>1, <1>2, <2>1 DEF Deploy!Serves, Deploy!Columns
<1>3. Deploy(i)!Serves(s, Deploy(i)!UserEntity)
  <2> DEFINE x == Deploy(i)!UserEntity
             st == Birth(i, "users")
  <2>1. x.t = "users" /\ x.cols \subseteq st.must \union st.may \union {"created_at", "updated_at"} /\ st.must \subseteq x.cols
    BY DEF Deploy!UserEntity, Deploy!Audited, Birth, Deploy!CreateUsers, Deploy!CreateTable
  <2>2. x.keys = st.keys
    BY DEF Deploy!UserEntity, Deploy!Audited, Birth, Deploy!CreateUsers, Deploy!CreateTable
  <2>3. "users" \in TablesAt(16) /\ {"created_at", "updated_at"} \subseteq Added(AuditColumns, "users")
    BY AddedColumns DEF TablesAt, AuditTables
  <2> HIDE DEF x, st, s
  <2>4. Fits(x, "users", {"created_at", "updated_at"})
    BY <2>1, <2>2, <2>3 DEF st
  <2> QED
    BY <1>2, <2>3, <2>4 DEF x
<1>4. Deploy(i)!Serves(s, Deploy(i)!ApiKeyEntity)
  <2> DEFINE x == Deploy(i)!ApiKeyEntity
             st == Birth(i, "api_keys")
  <2>1. x.t = "api_keys" /\ x.cols \subseteq st.must \union st.may \union {} /\ st.must \subseteq x.cols
    BY DEF Deploy!ApiKeyEntity, Deploy!Audited, Birth, Deploy!CreateApiKeys, Deploy!CreateTable
  <2>2. x.keys = st.keys
    BY DEF Deploy!ApiKeyEntity, Deploy!Audited, Birth, Deploy!CreateApiKeys, Deploy!CreateTable
  <2>3. "api_keys" \in TablesAt(16) /\ {} \subseteq Added(AuditColumns, "api_keys")
    BY AddedColumns DEF TablesAt, AuditTables
  <2> HIDE DEF x, st, s
  <2>4. Fits(x, "api_keys", {})
    BY <2>1, <2>2, <2>3 DEF st
  <2> QED
    BY <1>2, <2>3, <2>4 DEF x
<1>5. Deploy(i)!Serves(s, Deploy(i)!LocalPasswordEntity)
  <2> DEFINE x == Deploy(i)!LocalPasswordEntity
             st == Birth(i, "user_local_passwords")
  <2>1. x.t = "user_local_passwords" /\ x.cols \subseteq st.must \union st.may \union {"created_at", "updated_at"} /\ st.must \subseteq x.cols
    BY DEF Deploy!LocalPasswordEntity, Deploy!Audited, Birth, Deploy!CreateCredentials, Deploy!CreateTable
  <2>2. x.keys = st.keys
    BY DEF Deploy!LocalPasswordEntity, Deploy!Audited, Birth, Deploy!CreateCredentials, Deploy!CreateTable
  <2>3. "user_local_passwords" \in TablesAt(16) /\ {"created_at", "updated_at"} \subseteq Added(AuditColumns, "user_local_passwords")
    BY AddedColumns DEF TablesAt, AuditTables
  <2> HIDE DEF x, st, s
  <2>4. Fits(x, "user_local_passwords", {"created_at", "updated_at"})
    BY <2>1, <2>2, <2>3 DEF st
  <2> QED
    BY <1>2, <2>3, <2>4 DEF x
<1>6. Deploy(i)!Serves(s, Deploy(i)!RefreshSessionEntity)
  <2> DEFINE x == Deploy(i)!RefreshSessionEntity
             st == Birth(i, "refresh_sessions")
  <2>1. x.t = "refresh_sessions" /\ x.cols \subseteq st.must \union st.may \union {"created_at", "updated_at"} /\ st.must \subseteq x.cols
    BY DEF Deploy!RefreshSessionEntity, Deploy!Audited, Birth, Deploy!CreateCredentials, Deploy!CreateTable
  <2>2. x.keys = st.keys
    BY DEF Deploy!RefreshSessionEntity, Deploy!Audited, Birth, Deploy!CreateCredentials, Deploy!CreateTable
  <2>3. "refresh_sessions" \in TablesAt(16) /\ {"created_at", "updated_at"} \subseteq Added(AuditColumns, "refresh_sessions")
    BY AddedColumns DEF TablesAt, AuditTables
  <2> HIDE DEF x, st, s
  <2>4. Fits(x, "refresh_sessions", {"created_at", "updated_at"})
    BY <2>1, <2>2, <2>3 DEF st
  <2> QED
    BY <1>2, <2>3, <2>4 DEF x
<1>7. Deploy(i)!Serves(s, Deploy(i)!PasswordResetTokenEntity)
  <2> DEFINE x == Deploy(i)!PasswordResetTokenEntity
             st == Birth(i, "password_reset_tokens")
  <2>1. x.t = "password_reset_tokens" /\ x.cols \subseteq st.must \union st.may \union {"created_at", "updated_at"} /\ st.must \subseteq x.cols
    BY DEF Deploy!PasswordResetTokenEntity, Deploy!Audited, Birth, Deploy!CreateCredentials, Deploy!CreateTable
  <2>2. x.keys = st.keys
    BY DEF Deploy!PasswordResetTokenEntity, Deploy!Audited, Birth, Deploy!CreateCredentials, Deploy!CreateTable
  <2>3. "password_reset_tokens" \in TablesAt(16) /\ {"created_at", "updated_at"} \subseteq Added(AuditColumns, "password_reset_tokens")
    BY AddedColumns DEF TablesAt, AuditTables
  <2> HIDE DEF x, st, s
  <2>4. Fits(x, "password_reset_tokens", {"created_at", "updated_at"})
    BY <2>1, <2>2, <2>3 DEF st
  <2> QED
    BY <1>2, <2>3, <2>4 DEF x
<1>8. Deploy(i)!Serves(s, Deploy(i)!TenantEntity)
  <2> DEFINE x == Deploy(i)!TenantEntity
             st == Birth(i, "tenants")
  <2>1. x.t = "tenants" /\ x.cols \subseteq st.must \union st.may \union {"created_at", "updated_at"} /\ st.must \subseteq x.cols
    BY DEF Deploy!TenantEntity, Deploy!Audited, Birth, Deploy!CreateTenantsAndMemberships, Deploy!CreateTable
  <2>2. x.keys = st.keys
    BY DEF Deploy!TenantEntity, Deploy!Audited, Birth, Deploy!CreateTenantsAndMemberships, Deploy!CreateTable
  <2>3. "tenants" \in TablesAt(16) /\ {"created_at", "updated_at"} \subseteq Added(AuditColumns, "tenants")
    BY AddedColumns DEF TablesAt, AuditTables
  <2> HIDE DEF x, st, s
  <2>4. Fits(x, "tenants", {"created_at", "updated_at"})
    BY <2>1, <2>2, <2>3 DEF st
  <2> QED
    BY <1>2, <2>3, <2>4 DEF x
<1>9. Deploy(i)!Serves(s, Deploy(i)!MembershipEntity)
  <2> DEFINE x == Deploy(i)!MembershipEntity
             st == Birth(i, "memberships")
  <2>1. x.t = "memberships" /\ x.cols \subseteq st.must \union st.may \union {"created_at", "updated_at", "version"} /\ st.must \subseteq x.cols
    BY DEF Deploy!MembershipEntity, Deploy!Audited, Deploy!Versioned, Birth, Deploy!CreateTenantsAndMemberships, Deploy!CreateTable
  <2>2. x.keys = st.keys
    BY DEF Deploy!MembershipEntity, Deploy!Audited, Deploy!Versioned, Birth, Deploy!CreateTenantsAndMemberships, Deploy!CreateTable
  <2>3. "memberships" \in TablesAt(16) /\ {"created_at", "updated_at", "version"} \subseteq Added(AuditColumns, "memberships")
    BY AddedColumns DEF TablesAt, AuditTables
  <2> HIDE DEF x, st, s
  <2>4. Fits(x, "memberships", {"created_at", "updated_at", "version"})
    BY <2>1, <2>2, <2>3 DEF st
  <2> QED
    BY <1>2, <2>3, <2>4 DEF x
<1>10. Deploy(i)!Serves(s, Deploy(i)!MembershipRoleEntity)
  <2> DEFINE x == Deploy(i)!MembershipRoleEntity
             st == Birth(i, "membership_roles")
  <2>1. x.t = "membership_roles" /\ x.cols \subseteq st.must \union st.may \union {"created_at", "updated_at"} /\ st.must \subseteq x.cols
    BY DEF Deploy!MembershipRoleEntity, Deploy!Audited, Birth, Deploy!CreateTenantsAndMemberships, Deploy!CreateTable
  <2>2. x.keys = st.keys
    BY DEF Deploy!MembershipRoleEntity, Deploy!Audited, Birth, Deploy!CreateTenantsAndMemberships, Deploy!CreateTable
  <2>3. "membership_roles" \in TablesAt(16) /\ {"created_at", "updated_at"} \subseteq Added(AuditColumns, "membership_roles")
    BY AddedColumns DEF TablesAt, AuditTables
  <2> HIDE DEF x, st, s
  <2>4. Fits(x, "membership_roles", {"created_at", "updated_at"})
    BY <2>1, <2>2, <2>3 DEF st
  <2> QED
    BY <1>2, <2>3, <2>4 DEF x
<1>11. Deploy(i)!Serves(s, Deploy(i)!InvitationEntity)
  <2> DEFINE x == Deploy(i)!InvitationEntity
             st == Birth(i, "invitations")
  <2>1. x.t = "invitations" /\ x.cols \subseteq st.must \union st.may \union {"created_at", "updated_at"} /\ st.must \subseteq x.cols
    BY DEF Deploy!InvitationEntity, Deploy!Audited, Birth, Deploy!CreateInvitations, Deploy!CreateTable
  <2>2. x.keys = st.keys
    BY DEF Deploy!InvitationEntity, Deploy!Audited, Birth, Deploy!CreateInvitations, Deploy!CreateTable
  <2>3. "invitations" \in TablesAt(16) /\ {"created_at", "updated_at"} \subseteq Added(AuditColumns, "invitations")
    BY AddedColumns DEF TablesAt, AuditTables
  <2> HIDE DEF x, st, s
  <2>4. Fits(x, "invitations", {"created_at", "updated_at"})
    BY <2>1, <2>2, <2>3 DEF st
  <2> QED
    BY <1>2, <2>3, <2>4 DEF x
<1>12. Deploy(i)!Serves(s, Deploy(i)!InvitationRoleEntity)
  <2> DEFINE x == Deploy(i)!InvitationRoleEntity
             st == Birth(i, "invitation_roles")
  <2>1. x.t = "invitation_roles" /\ x.cols \subseteq st.must \union st.may \union {"created_at", "updated_at"} /\ st.must \subseteq x.cols
    BY DEF Deploy!InvitationRoleEntity, Deploy!Audited, Birth, Deploy!CreateInvitations, Deploy!CreateTable
  <2>2. x.keys = st.keys
    BY DEF Deploy!InvitationRoleEntity, Deploy!Audited, Birth, Deploy!CreateInvitations, Deploy!CreateTable
  <2>3. "invitation_roles" \in TablesAt(16) /\ {"created_at", "updated_at"} \subseteq Added(AuditColumns, "invitation_roles")
    BY AddedColumns DEF TablesAt, AuditTables
  <2> HIDE DEF x, st, s
  <2>4. Fits(x, "invitation_roles", {"created_at", "updated_at"})
    BY <2>1, <2>2, <2>3 DEF st
  <2> QED
    BY <1>2, <2>3, <2>4 DEF x
<1>13. Deploy(i)!Serves(s, Deploy(i)!RoleEntity)
  <2> DEFINE x == Deploy(i)!RoleEntity
             st == Birth(i, "roles")
  <2>1. x.t = "roles" /\ x.cols \subseteq st.must \union st.may \union {"created_at", "updated_at", "version"} /\ st.must \subseteq x.cols
    BY DEF Deploy!RoleEntity, Deploy!Audited, Deploy!Versioned, Birth, Deploy!CreateRoles, Deploy!CreateTable
  <2>2. x.keys = st.keys
    BY DEF Deploy!RoleEntity, Deploy!Audited, Deploy!Versioned, Birth, Deploy!CreateRoles, Deploy!CreateTable
  <2>3. "roles" \in TablesAt(16) /\ {"created_at", "updated_at", "version"} \subseteq Added(AuditColumns, "roles")
    BY AddedColumns DEF TablesAt, AuditTables
  <2> HIDE DEF x, st, s
  <2>4. Fits(x, "roles", {"created_at", "updated_at", "version"})
    BY <2>1, <2>2, <2>3 DEF st
  <2> QED
    BY <1>2, <2>3, <2>4 DEF x
<1>14. Deploy(i)!Serves(s, Deploy(i)!RolePermissionEntity)
  <2> DEFINE x == Deploy(i)!RolePermissionEntity
             st == Birth(i, "role_permissions")
  <2>1. x.t = "role_permissions" /\ x.cols \subseteq st.must \union st.may \union {"created_at", "updated_at"} /\ st.must \subseteq x.cols
    BY DEF Deploy!RolePermissionEntity, Deploy!Audited, Birth, Deploy!CreateRoles, Deploy!CreateTable
  <2>2. x.keys = st.keys
    BY DEF Deploy!RolePermissionEntity, Deploy!Audited, Birth, Deploy!CreateRoles, Deploy!CreateTable
  <2>3. "role_permissions" \in TablesAt(16) /\ {"created_at", "updated_at"} \subseteq Added(AuditColumns, "role_permissions")
    BY AddedColumns DEF TablesAt, AuditTables
  <2> HIDE DEF x, st, s
  <2>4. Fits(x, "role_permissions", {"created_at", "updated_at"})
    BY <2>1, <2>2, <2>3 DEF st
  <2> QED
    BY <1>2, <2>3, <2>4 DEF x
<1>15. Deploy(i)!Serves(s, Deploy(i)!OutboxEntryEntity)
  <2> DEFINE x == Deploy(i)!OutboxEntryEntity
             st == Birth(i, "outbox")
  <2>1. x.t = "outbox" /\ x.cols \subseteq st.must \union st.may \union {"updated_at"} /\ st.must \subseteq x.cols
    BY DEF Deploy!OutboxEntryEntity, Deploy!Audited, Birth, Deploy!CreateOutbox, Deploy!CreateTable
  <2>2. x.keys = st.keys
    BY DEF Deploy!OutboxEntryEntity, Deploy!Audited, Birth, Deploy!CreateOutbox, Deploy!CreateTable
  <2>3. "outbox" \in TablesAt(16) /\ {"updated_at"} \subseteq Added(AuditColumns, "outbox")
    BY AddedColumns DEF TablesAt, AuditTables
  <2> HIDE DEF x, st, s
  <2>4. Fits(x, "outbox", {"updated_at"})
    BY <2>1, <2>2, <2>3 DEF st
  <2> QED
    BY <1>2, <2>3, <2>4 DEF x
<1>16. Deploy(i)!Serves(s, Deploy(i)!IdempotencyKeyEntity)
  <2> DEFINE x == Deploy(i)!IdempotencyKeyEntity
             st == Birth(i, "idempotency_keys")
  <2>1. x.t = "idempotency_keys" /\ x.cols \subseteq st.must \union st.may \union {} /\ st.must \subseteq x.cols
    BY DEF Deploy!IdempotencyKeyEntity, Deploy!Audited, Birth, Deploy!CreateIdempotencyKeys, Deploy!CreateTable
  <2>2. x.keys = st.keys
    BY DEF Deploy!IdempotencyKeyEntity, Deploy!Audited, Birth, Deploy!CreateIdempotencyKeys, Deploy!CreateTable
  <2>3. "idempotency_keys" \in TablesAt(16) /\ {} \subseteq Added(AuditColumns, "idempotency_keys")
    BY AddedColumns DEF TablesAt, AuditTables
  <2> HIDE DEF x, st, s
  <2>4. Fits(x, "idempotency_keys", {})
    BY <2>1, <2>2, <2>3 DEF st
  <2> QED
    BY <1>2, <2>3, <2>4 DEF x
<1> HIDE DEF s
<1> QED
  BY <1>3, <1>4, <1>5, <1>6, <1>7, <1>8, <1>9, <1>10, <1>11, <1>12, <1>13, <1>14, <1>15, <1>16 DEF Deploy!postgresEntities, s

\* The tables of the timeline are those of entities.
LEMMA TablesNamed ==
  ASSUME NEW i, NEW n \in 0 .. 16
  PROVE  DOMAIN At(i, n) \subseteq {e.t : e \in Deploy(i)!postgresEntities}
<1>1. DOMAIN At(i, n) = TablesAt(n)
  BY DEF At, Made
<1>2. /\ Deploy(i)!UserEntity.t = "users"
      /\ Deploy(i)!ApiKeyEntity.t = "api_keys"
      /\ Deploy(i)!LocalPasswordEntity.t = "user_local_passwords"
      /\ Deploy(i)!RefreshSessionEntity.t = "refresh_sessions"
      /\ Deploy(i)!PasswordResetTokenEntity.t = "password_reset_tokens"
      /\ Deploy(i)!TenantEntity.t = "tenants"
      /\ Deploy(i)!MembershipEntity.t = "memberships"
      /\ Deploy(i)!MembershipRoleEntity.t = "membership_roles"
      /\ Deploy(i)!InvitationEntity.t = "invitations"
      /\ Deploy(i)!InvitationRoleEntity.t = "invitation_roles"
      /\ Deploy(i)!RoleEntity.t = "roles"
      /\ Deploy(i)!RolePermissionEntity.t = "role_permissions"
      /\ Deploy(i)!OutboxEntryEntity.t = "outbox"
      /\ Deploy(i)!IdempotencyKeyEntity.t = "idempotency_keys"
  BY DEF Deploy!Audited, Deploy!Versioned, Deploy!UserEntity, Deploy!ApiKeyEntity, Deploy!LocalPasswordEntity, Deploy!RefreshSessionEntity, Deploy!PasswordResetTokenEntity, Deploy!TenantEntity, Deploy!MembershipEntity, Deploy!MembershipRoleEntity, Deploy!InvitationEntity, Deploy!InvitationRoleEntity, Deploy!RoleEntity, Deploy!RolePermissionEntity, Deploy!OutboxEntryEntity, Deploy!IdempotencyKeyEntity
<1>3. /\ Deploy(i)!UserEntity \in Deploy(i)!postgresEntities
      /\ Deploy(i)!ApiKeyEntity \in Deploy(i)!postgresEntities
      /\ Deploy(i)!LocalPasswordEntity \in Deploy(i)!postgresEntities
      /\ Deploy(i)!RefreshSessionEntity \in Deploy(i)!postgresEntities
      /\ Deploy(i)!PasswordResetTokenEntity \in Deploy(i)!postgresEntities
      /\ Deploy(i)!TenantEntity \in Deploy(i)!postgresEntities
      /\ Deploy(i)!MembershipEntity \in Deploy(i)!postgresEntities
      /\ Deploy(i)!MembershipRoleEntity \in Deploy(i)!postgresEntities
      /\ Deploy(i)!InvitationEntity \in Deploy(i)!postgresEntities
      /\ Deploy(i)!InvitationRoleEntity \in Deploy(i)!postgresEntities
      /\ Deploy(i)!RoleEntity \in Deploy(i)!postgresEntities
      /\ Deploy(i)!RolePermissionEntity \in Deploy(i)!postgresEntities
      /\ Deploy(i)!OutboxEntryEntity \in Deploy(i)!postgresEntities
      /\ Deploy(i)!IdempotencyKeyEntity \in Deploy(i)!postgresEntities
  BY DEF Deploy!postgresEntities
<1> DEFINE Named == {e.t : e \in Deploy(i)!postgresEntities}
<1>4. /\ "users" \in Named
      /\ "api_keys" \in Named
      /\ "user_local_passwords" \in Named
      /\ "refresh_sessions" \in Named
      /\ "password_reset_tokens" \in Named
      /\ "tenants" \in Named
      /\ "memberships" \in Named
      /\ "membership_roles" \in Named
      /\ "invitations" \in Named
      /\ "invitation_roles" \in Named
      /\ "roles" \in Named
      /\ "role_permissions" \in Named
      /\ "outbox" \in Named
      /\ "idempotency_keys" \in Named
  BY <1>2, <1>3
<1> HIDE DEF Named
<1> QED
  BY <1>1, <1>4 DEF TablesAt, Named

-----------------------------------------------------------------------------
(* The permissions of the backfills.                                         *)

\* What the backfill at m grants.
Backfilled(i, m) == IF m = 6 THEN Deploy(i)!MemberPermissions ELSE {"identity.api_keys.manage"}

LEMMA BackfillsGrant ==
  ASSUME NEW i, NEW m \in {6, 12}
  PROVE  Deploy(i)!PermissionsOf(Deploy(i)!postgresMigrations[m].up, "grant") = Backfilled(i, m)
<1>1. ASSUME NEW ps, NEW sts, sts = <<Deploy(i)!Grant(ps)>>
      PROVE  Deploy(i)!PermissionsOf(sts, "grant") = ps
  <2>1. DOMAIN sts = {1} /\ sts[1].op = "grant" /\ sts[1].ps = ps
    BY <1>1 DEF Deploy!Grant
  <2> QED
    BY <2>1 DEF Deploy!PermissionsOf
<1>2. CASE m = 6
  <2>1. Deploy(i)!postgresMigrations[6] = Deploy(i)!BackfillAdminPermissions
    BY Timelines
  <2>2. Deploy(i)!BackfillAdminPermissions.up = <<Deploy(i)!Grant(Deploy(i)!MemberPermissions)>>
    BY DEF Deploy!BackfillAdminPermissions
  <2> QED
    BY <1>1, <1>2, <2>1, <2>2 DEF Backfilled
<1>3. CASE m = 12
  <2>1. Deploy(i)!postgresMigrations[12] = Deploy(i)!BackfillAdminApiKeysManage
    BY Timelines
  <2>2. Deploy(i)!BackfillAdminApiKeysManage.up = <<Deploy(i)!Grant({"identity.api_keys.manage"})>>
    BY DEF Deploy!BackfillAdminApiKeysManage
  <2> QED
    BY <1>1, <1>3, <2>1, <2>2 DEF Backfilled
<1> QED
  BY <1>2, <1>3

\* Only the downs of the backfills revoke, and only what was backfilled.
LEMMA DownsRevoke ==
  ASSUME NEW i, NEW m \in 1 .. 16
  PROVE  Deploy(i)!PermissionsOf(Deploy(i)!postgresMigrations[m].down, "revoke")
           = IF m \in {6, 12} THEN Backfilled(i, m) ELSE {}
<1>1. ASSUME NEW ps, NEW sts, sts = <<Deploy(i)!Revoke(ps)>>
      PROVE  Deploy(i)!PermissionsOf(sts, "revoke") = ps
  <2>1. DOMAIN sts = {1} /\ sts[1].op = "revoke" /\ sts[1].ps = ps
    BY <1>1 DEF Deploy!Revoke
  <2> QED
    BY <2>1 DEF Deploy!PermissionsOf
<1>2. ASSUME NEW sts, \A k \in DOMAIN sts : sts[k].op # "revoke"
      PROVE  Deploy(i)!PermissionsOf(sts, "revoke") = {}
  BY <1>2 DEF Deploy!PermissionsOf
<1>3. m \in {1, 2, 3, 4, 5, 6, 7, 8, 9, 10, 11, 12, 13, 14, 15, 16}
  OBVIOUS
<1>4. CASE m = 1
  <2>1. Deploy(i)!postgresMigrations[1] = Deploy(i)!CreateUsers
    BY Timelines
  <2>2. \A k \in DOMAIN Deploy(i)!CreateUsers.down : Deploy(i)!CreateUsers.down[k].op # "revoke"
    BY DEF Deploy!CreateUsers, Deploy!DropTable, Deploy!DropIndex
  <2> QED
    BY <1>2, <1>4, <2>1, <2>2
<1>5. CASE m = 2
  <2>1. Deploy(i)!postgresMigrations[2] = Deploy(i)!CreateRoles
    BY Timelines
  <2>2. \A k \in DOMAIN Deploy(i)!CreateRoles.down : Deploy(i)!CreateRoles.down[k].op # "revoke"
    BY DEF Deploy!CreateRoles, Deploy!DropTable, Deploy!DropIndex
  <2> QED
    BY <1>2, <1>5, <2>1, <2>2
<1>6. CASE m = 3
  <2>1. Deploy(i)!postgresMigrations[3] = Deploy(i)!CreateTenantsAndMemberships
    BY Timelines
  <2>2. \A k \in DOMAIN Deploy(i)!CreateTenantsAndMemberships.down : Deploy(i)!CreateTenantsAndMemberships.down[k].op # "revoke"
    BY DEF Deploy!CreateTenantsAndMemberships, Deploy!DropTable, Deploy!DropIndex
  <2> QED
    BY <1>2, <1>6, <2>1, <2>2
<1>7. CASE m = 4
  <2>1. Deploy(i)!postgresMigrations[4] = Deploy(i)!CreateCredentials
    BY Timelines
  <2>2. \A k \in DOMAIN Deploy(i)!CreateCredentials.down : Deploy(i)!CreateCredentials.down[k].op # "revoke"
    BY DEF Deploy!CreateCredentials, Deploy!DropTable, Deploy!DropIndex
  <2> QED
    BY <1>2, <1>7, <2>1, <2>2
<1>8. CASE m = 5
  <2>1. Deploy(i)!postgresMigrations[5] = Deploy(i)!CreateInvitations
    BY Timelines
  <2>2. \A k \in DOMAIN Deploy(i)!CreateInvitations.down : Deploy(i)!CreateInvitations.down[k].op # "revoke"
    BY DEF Deploy!CreateInvitations, Deploy!DropTable, Deploy!DropIndex
  <2> QED
    BY <1>2, <1>8, <2>1, <2>2
<1>9. CASE m = 6
  <2>1. Deploy(i)!postgresMigrations[6] = Deploy(i)!BackfillAdminPermissions
    BY Timelines
  <2>2. Deploy(i)!BackfillAdminPermissions.down = <<Deploy(i)!Revoke(Deploy(i)!MemberPermissions)>>
    BY DEF Deploy!BackfillAdminPermissions
  <2> QED
    BY <1>1, <1>9, <2>1, <2>2 DEF Backfilled
<1>10. CASE m = 7
  <2>1. Deploy(i)!postgresMigrations[7] = Deploy(i)!CreateOutbox
    BY Timelines
  <2>2. \A k \in DOMAIN Deploy(i)!CreateOutbox.down : Deploy(i)!CreateOutbox.down[k].op # "revoke"
    BY DEF Deploy!CreateOutbox, Deploy!DropTable, Deploy!DropIndex
  <2> QED
    BY <1>2, <1>10, <2>1, <2>2
<1>11. CASE m = 8
  <2> DEFINE down == Deploy(i)!AddAuditAndVersionColumns.down
  <2>1. Deploy(i)!postgresMigrations[8] = Deploy(i)!AddAuditAndVersionColumns
    BY Timelines
  <2>2. \A k \in 1 .. 25 : \E p \in AuditColumns : down[k] = Deploy(i)!DropColumn(p[1], p[2])
    BY AuditOrder
  <2>3. DOMAIN down = 1 .. 25
    BY AuditStatements
  <2> HIDE DEF down
  <2>4. \A k \in DOMAIN down : down[k].op # "revoke"
    BY <2>2, <2>3 DEF Deploy!DropColumn
  <2> QED
    BY <1>2, <1>11, <2>1, <2>4 DEF down
<1>12. CASE m = 9
  <2>1. Deploy(i)!postgresMigrations[9] = Deploy(i)!IndexMembershipRolesRoleId
    BY Timelines
  <2>2. \A k \in DOMAIN Deploy(i)!IndexMembershipRolesRoleId.down : Deploy(i)!IndexMembershipRolesRoleId.down[k].op # "revoke"
    BY DEF Deploy!IndexMembershipRolesRoleId, Deploy!DropTable, Deploy!DropIndex, Deploy!OneIndex
  <2> QED
    BY <1>2, <1>12, <2>1, <2>2
<1>13. CASE m = 10
  <2>1. Deploy(i)!postgresMigrations[10] = Deploy(i)!CreateIdempotencyKeys
    BY Timelines
  <2>2. \A k \in DOMAIN Deploy(i)!CreateIdempotencyKeys.down : Deploy(i)!CreateIdempotencyKeys.down[k].op # "revoke"
    BY DEF Deploy!CreateIdempotencyKeys, Deploy!DropTable, Deploy!DropIndex
  <2> QED
    BY <1>2, <1>13, <2>1, <2>2
<1>14. CASE m = 11
  <2>1. Deploy(i)!postgresMigrations[11] = Deploy(i)!CreateApiKeys
    BY Timelines
  <2>2. \A k \in DOMAIN Deploy(i)!CreateApiKeys.down : Deploy(i)!CreateApiKeys.down[k].op # "revoke"
    BY DEF Deploy!CreateApiKeys, Deploy!DropTable, Deploy!DropIndex
  <2> QED
    BY <1>2, <1>14, <2>1, <2>2
<1>15. CASE m = 12
  <2>1. Deploy(i)!postgresMigrations[12] = Deploy(i)!BackfillAdminApiKeysManage
    BY Timelines
  <2>2. Deploy(i)!BackfillAdminApiKeysManage.down = <<Deploy(i)!Revoke({"identity.api_keys.manage"})>>
    BY DEF Deploy!BackfillAdminApiKeysManage
  <2> QED
    BY <1>1, <1>15, <2>1, <2>2 DEF Backfilled
<1>16. CASE m = 13
  <2>1. Deploy(i)!postgresMigrations[13] = Deploy(i)!IndexRefreshSessionExpiry
    BY Timelines
  <2>2. \A k \in DOMAIN Deploy(i)!IndexRefreshSessionExpiry.down : Deploy(i)!IndexRefreshSessionExpiry.down[k].op # "revoke"
    BY DEF Deploy!IndexRefreshSessionExpiry, Deploy!DropTable, Deploy!DropIndex, Deploy!OneIndex
  <2> QED
    BY <1>2, <1>16, <2>1, <2>2
<1>17. CASE m = 14
  <2>1. Deploy(i)!postgresMigrations[14] = Deploy(i)!IndexPasswordResetExpiry
    BY Timelines
  <2>2. \A k \in DOMAIN Deploy(i)!IndexPasswordResetExpiry.down : Deploy(i)!IndexPasswordResetExpiry.down[k].op # "revoke"
    BY DEF Deploy!IndexPasswordResetExpiry, Deploy!DropTable, Deploy!DropIndex, Deploy!OneIndex
  <2> QED
    BY <1>2, <1>17, <2>1, <2>2
<1>18. CASE m = 15
  <2>1. Deploy(i)!postgresMigrations[15] = Deploy(i)!IndexInvitationExpiry
    BY Timelines
  <2>2. \A k \in DOMAIN Deploy(i)!IndexInvitationExpiry.down : Deploy(i)!IndexInvitationExpiry.down[k].op # "revoke"
    BY DEF Deploy!IndexInvitationExpiry, Deploy!DropTable, Deploy!DropIndex, Deploy!OneIndex
  <2> QED
    BY <1>2, <1>18, <2>1, <2>2
<1>19. CASE m = 16
  <2>1. Deploy(i)!postgresMigrations[16] = Deploy(i)!IndexOutboxProcessing
    BY Timelines
  <2>2. \A k \in DOMAIN Deploy(i)!IndexOutboxProcessing.down : Deploy(i)!IndexOutboxProcessing.down[k].op # "revoke"
    BY DEF Deploy!IndexOutboxProcessing, Deploy!DropTable, Deploy!DropIndex, Deploy!OneIndex
  <2> QED
    BY <1>2, <1>19, <2>1, <2>2
<1> QED
  BY <1>3, <1>4, <1>5, <1>6, <1>7, <1>8, <1>9, <1>10, <1>11, <1>12, <1>13, <1>14, <1>15, <1>16, <1>17, <1>18, <1>19

-----------------------------------------------------------------------------
(* The invariant of a deployment.                                            *)

Counts(i) ==
    /\ createdBy \in [i.tenants -> 0 .. Len(i.builds)]
    /\ build \in 0 .. Len(i.builds)
    /\ image \in 1 .. Len(i.builds)
    /\ reverts \in 0 .. i.reverts
    /\ late \subseteq i.tenants
    /\ runner \in [i.runners -> SUBSET Nat]

\* The first n migrations ran, and a runner holds migrations that follow some of
\* them.
Place(i, n) ==
    /\ executed = 1 .. n
    /\ schema = At(i, n)
    /\ \A r \in i.runners : \E b \in 0 .. n, t \in 0 .. 16 : runner[r] = b + 1 .. t

\* A runner without another holds what follows all of them, and nothing failed.
Alone(i, n) ==
    (\A a, b \in i.runners : a = b) =>
        /\ ~failed
        /\ \A r \in i.runners : \E t \in 0 .. 16 : runner[r] = n + 1 .. t

\* What an Admin lacks is what a backfill still to run grants.
Awaited(i, p) == \E m \in {6, 12} \ executed : p \in Backfilled(i, m)

Reached(i) ==
    \A t \in i.tenants \ late : createdBy[t] # 0 =>
        \A p \in Deploy(i)!Bundle("Admin") : <<t, "Admin", p>> \in grants \/ Awaited(i, p)

DeployInv(i) ==
    /\ Counts(i)
    /\ \E n \in 0 .. 16 : Place(i, n) /\ Alone(i, n)
    /\ Reached(i)

LEMMA BuildsAre ==
  ASSUME NEW i, Deploy(i)!BuildsAssumption
  PROVE  /\ Len(i.builds) \in Nat /\ Len(i.builds) >= 1 /\ i.reverts \in Nat
         /\ \A b \in 1 .. Len(i.builds) : i.builds[b] \in 1 .. 16
BY DEF Deploy!BuildsAssumption

LEMMA InitDeployInv ==
  ASSUME NEW i, Deploy(i)!BuildsAssumption, Deploy(i)!Init
  PROVE  DeployInv(i)
<1>1. Counts(i)
  BY BuildsAre DEF Deploy!Init, Deploy!Idle, Counts
<1>2. Place(i, 0)
  <2>1. \A r \in i.runners : runner[r] = 0 + 1 .. 0
    BY DEF Deploy!Init, Deploy!Idle
  <2>2. executed = 1 .. 0 /\ schema = At(i, 0)
    BY EmptyIsNone DEF Deploy!Init
  <2> QED
    BY <2>1, <2>2 DEF Place
<1>3. Alone(i, 0)
  BY DEF Deploy!Init, Deploy!Idle, Alone
<1>4. Reached(i)
  BY DEF Deploy!Init, Reached
<1> QED
  BY <1>1, <1>2, <1>3, <1>4 DEF DeployInv

\* Steps that leave the database and the runners alone.
LEMMA PlaceStays ==
  ASSUME NEW i, UNCHANGED <<schema, executed, runner, failed>>, \E n \in 0 .. 16 : Place(i, n) /\ Alone(i, n)
  PROVE  \E n \in 0 .. 16 : Place(i, n)' /\ Alone(i, n)'
<1>1. PICK n \in 0 .. 16 : Place(i, n) /\ Alone(i, n)
  OBVIOUS
<1>2. Place(i, n)'
  BY <1>1 DEF Place
<1>3. Alone(i, n)'
  BY <1>1 DEF Alone
<1> QED
  BY <1>2, <1>3

LEMMA ReachedStays ==
  ASSUME NEW i, UNCHANGED <<executed, grants, createdBy, late>>, Reached(i)
  PROVE  Reached(i)'
BY DEF Reached, Awaited

LEMMA OpenKeepsDeployInv ==
  ASSUME NEW i, Deploy(i)!BuildsAssumption, DeployInv(i), NEW r \in i.runners, Deploy(i)!Open(r)
  PROVE  DeployInv(i)'
<1>1. PICK n \in 0 .. 16 : Place(i, n) /\ Alone(i, n)
  BY DEF DeployInv
<1> DEFINE t == i.builds[image]
           pending == Deploy(i)!Registered(image) \ executed
<1>2. t \in 1 .. 16
  BY BuildsAre DEF DeployInv, Counts
<1>3. pending = n + 1 .. t
  BY <1>1, <1>2 DEF Deploy!Registered, Place
<1>4. runner' = [runner EXCEPT ![r] = pending] /\ runner \in [i.runners -> SUBSET Nat]
  BY DEF Deploy!Open, DeployInv, Counts
<1>5. pending \in SUBSET Nat
  BY <1>2, <1>3
<1>6. UNCHANGED <<schema, executed, grants, createdBy, build, image, failed, reverts, late>>
  BY DEF Deploy!Open
<1> HIDE DEF pending, t
<1>7. \A a \in i.runners : runner'[a] = IF a = r THEN pending ELSE runner[a]
  BY <1>4
<1>8. Counts(i)'
  BY <1>4, <1>5, <1>6 DEF DeployInv, Counts
<1>9. Place(i, n)'
  <2>1. \A a \in i.runners : \E b \in 0 .. n, u \in 0 .. 16 : runner'[a] = b + 1 .. u
    <3> TAKE a \in i.runners
    <3>1. CASE a = r
      <4>1. runner'[a] = n + 1 .. t /\ t \in 0 .. 16 /\ n \in 0 .. n
        BY <1>2, <1>3, <1>7, <3>1
      <4> QED
        BY <4>1
    <3>2. CASE a # r
      BY <1>1, <1>7, <3>2 DEF Place
    <3> QED
      BY <3>1, <3>2
  <2> QED
    BY <1>1, <1>6, <2>1 DEF Place
<1>10. Alone(i, n)'
  <2>1. t \in 0 .. 16
    BY <1>2
  <2> QED
    BY <1>1, <1>3, <1>6, <1>7, <2>1 DEF Alone
<1>11. Reached(i)'
  BY <1>6, ReachedStays DEF DeployInv
<1> QED
  BY <1>8, <1>9, <1>10, <1>11 DEF DeployInv

LEMMA RunLostKeepsDeployInv ==
  ASSUME NEW i, DeployInv(i), NEW r \in i.runners, Deploy(i)!RunLost(r)
  PROVE  DeployInv(i)'
<1>1. PICK n \in 0 .. 16 : Place(i, n) /\ Alone(i, n)
  BY DEF DeployInv
<1>2. runner' = [runner EXCEPT ![r] = {}] /\ runner \in [i.runners -> SUBSET Nat]
  BY DEF Deploy!RunLost, Deploy!Idle, DeployInv, Counts
<1>3. UNCHANGED <<schema, executed, grants, createdBy, build, image, failed, reverts, late>>
  BY DEF Deploy!RunLost
<1>4. \A a \in i.runners : runner'[a] = IF a = r THEN {} ELSE runner[a]
  BY <1>2
<1>5. Counts(i)'
  BY <1>2, <1>3 DEF DeployInv, Counts
<1>6. Place(i, n)'
  <2>1. {} = 0 + 1 .. 0 /\ 0 \in 0 .. n /\ 0 \in 0 .. 16
    OBVIOUS
  <2> QED
    BY <1>1, <1>3, <1>4, <2>1 DEF Place
<1>7. Alone(i, n)'
  <2>1. {} = n + 1 .. 0 /\ 0 \in 0 .. 16
    OBVIOUS
  <2> QED
    BY <1>1, <1>3, <1>4, <2>1 DEF Alone
<1>8. Reached(i)'
  BY <1>3, ReachedStays DEF DeployInv
<1> QED
  BY <1>5, <1>6, <1>7, <1>8 DEF DeployInv

\* What a run grants: what its backfills are about, to every tenant there is.
LEMMA RunGrants ==
  ASSUME NEW i, DeployInv(i), NEW ms \in SUBSET Nat, executed' = executed \cup ms,
         UNCHANGED <<createdBy, late>>,
         grants' = grants \cup
           Deploy(i)!Created \X {"Admin"}
             \X UNION {Deploy(i)!PermissionsOf(Deploy(i)!postgresMigrations[m].up, "grant") : m \in ms}
  PROVE  Reached(i)'
<1> SUFFICES ASSUME NEW t \in i.tenants \ late, createdBy[t] # 0, NEW p \in Deploy(i)!Bundle("Admin")
             PROVE  <<t, "Admin", p>> \in grants' \/ Awaited(i, p)'
  BY DEF Reached
<1>1. CASE <<t, "Admin", p>> \in grants
  BY <1>1
<1>2. CASE Awaited(i, p)
  <2>1. PICK m \in {6, 12} \ executed : p \in Backfilled(i, m)
    BY <1>2 DEF Awaited
  <2>2. CASE m \in ms
    <3>1. p \in Deploy(i)!PermissionsOf(Deploy(i)!postgresMigrations[m].up, "grant")
      BY <2>1, BackfillsGrant
    <3>2. t \in Deploy(i)!Created
      BY DEF Deploy!Created
    <3> QED
      BY <2>2, <3>1, <3>2
  <2>3. CASE m \notin ms
    BY <2>1, <2>3 DEF Awaited
  <2> QED
    BY <2>2, <2>3
<1> QED
  BY <1>1, <1>2 DEF DeployInv, Reached

LEMMA RunKeepsDeployInv ==
  ASSUME NEW i, DeployInv(i), NEW r \in i.runners, Deploy(i)!Run(r)
  PROVE  DeployInv(i)'
<1>1. PICK n \in 0 .. 16 : Place(i, n) /\ Alone(i, n)
  BY DEF DeployInv
<1>2. PICK b \in 0 .. n, t \in 0 .. 16 : runner[r] = b + 1 .. t
  BY <1>1 DEF Place
<1>3. runner' = [runner EXCEPT ![r] = {}] /\ runner \in [i.runners -> SUBSET Nat]
  BY DEF Deploy!Run, Deploy!Idle, DeployInv, Counts
<1>4. UNCHANGED <<createdBy, build, image, reverts, late>>
  BY DEF Deploy!Run
<1>5. \A a \in i.runners : runner'[a] = IF a = r THEN {} ELSE runner[a]
  BY <1>3
<1>6. Counts(i)'
  BY <1>3, <1>4 DEF DeployInv, Counts
<1>7. runner[r] # {}
  BY DEF Deploy!Run, Deploy!Idle
<1>8. ASSUME NEW k \in n .. 16, executed' = 1 .. k, schema' = At(i, k)
      PROVE  Place(i, k)'
  <2>1. \A a \in i.runners : \E c \in 0 .. k, u \in 0 .. 16 : runner'[a] = c + 1 .. u
    <3> TAKE a \in i.runners
    <3>1. CASE a = r
      <4>1. runner'[a] = 0 + 1 .. 0 /\ 0 \in 0 .. k /\ 0 \in 0 .. 16
        BY <1>5, <3>1
      <4> QED
        BY <4>1
    <3>2. CASE a # r
      <4>1. PICK c \in 0 .. n, u \in 0 .. 16 : runner[a] = c + 1 .. u
        BY <1>1 DEF Place
      <4>2. c \in 0 .. k /\ runner'[a] = c + 1 .. u
        BY <1>5, <3>2, <4>1
      <4> QED
        BY <4>2
    <3> QED
      BY <3>1, <3>2
  <2> QED
    BY <1>8, <2>1 DEF Place
<1>9. ASSUME NEW k \in 0 .. 16, UNCHANGED failed
      PROVE  Alone(i, k)'
  <2> SUFFICES ASSUME \A a, c \in i.runners : a = c
               PROVE  ~failed' /\ \A a \in i.runners : \E u \in 0 .. 16 : runner'[a] = k + 1 .. u
    BY DEF Alone
  <2>1. {} = k + 1 .. 0 /\ 0 \in 0 .. 16
    OBVIOUS
  <2>2. ~failed
    BY <1>1 DEF Alone
  <2>3. \A a \in i.runners : runner'[a] = {}
    BY <1>5
  <2> QED
    BY <1>9, <2>1, <2>2, <2>3
<1>10. CASE /\ schema' \in Deploy(i)!Migrate(schema, runner[r])
            /\ executed' = executed \cup runner[r]
            /\ grants' = grants \cup
                 Deploy(i)!Created \X {"Admin"}
                   \X UNION {Deploy(i)!PermissionsOf(Deploy(i)!postgresMigrations[m].up, "grant") : m \in runner[r]}
            /\ UNCHANGED failed
  <2> DEFINE k == Later(n, t)
  <2>1. k \in n .. 16 /\ k \in 0 .. 16
    BY DEF Later
  <2>2. schema' = At(i, k)
    BY <1>1, <1>2, <1>10, MigrateRaced DEF Place
  <2>3. executed' = 1 .. k
    <3>1. executed = 1 .. n
      BY <1>1 DEF Place
    <3>2. (1 .. n) \cup (b + 1 .. t) = 1 .. k
      BY DEF Later
    <3> QED
      BY <1>2, <1>10, <3>1, <3>2
  <2>4. Reached(i)'
    <3>1. runner[r] \in SUBSET Nat
      BY <1>3
    <3> QED
      BY <1>4, <1>10, <3>1, RunGrants
  <2> HIDE DEF k
  <2>5. Place(i, k)' /\ Alone(i, k)'
    BY <1>8, <1>9, <1>10, <2>1, <2>2, <2>3
  <2> QED
    BY <1>6, <2>1, <2>4, <2>5 DEF DeployInv
<1>11. CASE /\ Deploy(i)!Migrate(schema, runner[r]) = {}
            /\ failed' = TRUE
            /\ UNCHANGED <<schema, executed, grants>>
  <2>1. Place(i, n)'
    <3>1. n \in n .. 16 /\ executed' = 1 .. n /\ schema' = At(i, n)
      BY <1>1, <1>11 DEF Place
    <3> QED
      BY <1>8, <3>1
  <2>2. Alone(i, n)'
    <3> SUFFICES ASSUME \A a, c \in i.runners : a = c
                 PROVE  FALSE
      BY DEF Alone
    <3>1. PICK u \in 0 .. 16 : runner[r] = n + 1 .. u
      BY <1>1 DEF Alone
    <3>2. u \in n .. 16
      BY <1>7, <3>1
    <3>3. Deploy(i)!Migrate(At(i, n), n + 1 .. u) = {At(i, u)}
      BY <3>2, MigrateWhole
    <3> QED
      BY <1>1, <1>11, <3>1, <3>3 DEF Place
  <2>3. Reached(i)'
    BY <1>4, <1>11, ReachedStays DEF DeployInv
  <2> QED
    BY <1>6, <2>1, <2>2, <2>3 DEF DeployInv
<1> QED
  BY <1>10, <1>11 DEF Deploy!Run

LEMMA LastOfFirst ==
  ASSUME NEW i, NEW n \in 1 .. 16
  PROVE  Deploy(i)!LastOf(1 .. n) = n
<1> DEFINE Last(m) == m \in 1 .. n /\ \A k \in 1 .. n : k <= m
<1>1. Last(n)
  OBVIOUS
<1>2. \A m : Last(m) => m = n
  OBVIOUS
<1>3. Deploy(i)!LastOf(1 .. n) = CHOOSE m : Last(m)
  BY DEF Deploy!LastOf
<1> HIDE DEF Last
<1> QED
  BY <1>1, <1>2, <1>3

LEMMA RevertKeepsDeployInv ==
  ASSUME NEW i, Deploy(i)!BuildsAssumption, DeployInv(i), Deploy(i)!Revert
  PROVE  DeployInv(i)'
<1>1. PICK n \in 0 .. 16 : Place(i, n) /\ Alone(i, n)
  BY DEF DeployInv
<1> DEFINE undone == Deploy(i)!postgresMigrations[Deploy(i)!LastOf(executed)].down
           Kept == /\ grants' = grants \ (i.tenants \X {"Admin"} \X Deploy(i)!PermissionsOf(undone, "revoke"))
                   /\ UNCHANGED <<createdBy, late>>
           Lost == grants' = {} /\ createdBy' = [t \in i.tenants |-> 0] /\ late' = {}
<1>2. n \in 1 .. 16 /\ n - 1 \in 0 .. 16
  BY <1>1 DEF Deploy!Revert, Place
<1>3. Deploy(i)!LastOf(executed) = n /\ executed = 1 .. n /\ schema = At(i, n)
  BY <1>1, <1>2, LastOfFirst DEF Place
<1>4. Deploy(i)!Execute(schema, undone) = {At(i, n - 1)}
  BY <1>2, <1>3, DownGoes
<1>5. /\ schema' \in Deploy(i)!Execute(schema, undone)
      /\ executed' = executed \ {n}
      /\ Kept \/ Lost
      /\ UNCHANGED failed
  <2> HIDE DEF undone
  <2>1. \/ /\ schema' \in Deploy(i)!Execute(schema, undone)
           /\ executed' = executed \ {Deploy(i)!LastOf(executed)}
           /\ Kept \/ Lost
           /\ UNCHANGED failed
        \/ Deploy(i)!Execute(schema, undone) = {}
    BY DEF Deploy!Revert, undone
  <2> HIDE DEF Kept, Lost
  <2> QED
    BY <1>3, <1>4, <2>1
<1>6. Deploy(i)!PermissionsOf(undone, "revoke") = IF n \in {6, 12} THEN Backfilled(i, n) ELSE {}
  BY <1>2, <1>3, DownsRevoke
<1>7. executed' = 1 .. (n - 1) /\ schema' = At(i, n - 1)
  BY <1>2, <1>3, <1>4, <1>5
<1>8. UNCHANGED <<build, image, runner>> /\ reverts' = reverts + 1 /\ reverts < i.reverts
  BY DEF Deploy!Revert
<1>9. \A r \in i.runners : runner'[r] = {}
  BY <1>8 DEF Deploy!Revert, Deploy!Idle
<1>10. Counts(i)'
  <2>1. createdBy' \in [i.tenants -> 0 .. Len(i.builds)] /\ late' \subseteq i.tenants
    BY <1>5, BuildsAre DEF DeployInv, Counts
  <2> QED
    BY <1>8, <2>1, BuildsAre DEF DeployInv, Counts
<1> DEFINE k == n - 1
<1>11. k \in 0 .. 16
  BY <1>2
<1>12. Place(i, k)'
  <2>1. {} = 0 + 1 .. 0 /\ 0 \in 0 .. k /\ 0 \in 0 .. 16
    BY <1>11
  <2> QED
    BY <1>7, <1>9, <2>1 DEF Place
<1>13. Alone(i, k)'
  <2>1. {} = k + 1 .. 0 /\ 0 \in 0 .. 16
    BY <1>11
  <2> QED
    BY <1>1, <1>5, <1>8, <1>9, <2>1 DEF Alone
<1>14. CASE Lost
  <2>1. Reached(i)'
    BY <1>14 DEF Reached
  <2> HIDE DEF k
  <2> QED
    BY <1>10, <1>11, <1>12, <1>13, <2>1 DEF DeployInv
<1>15. CASE Kept
  <2>1. Reached(i)'
    <3> SUFFICES ASSUME NEW t \in i.tenants \ late, createdBy[t] # 0, NEW p \in Deploy(i)!Bundle("Admin")
                 PROVE  <<t, "Admin", p>> \in grants' \/ Awaited(i, p)'
      BY <1>15 DEF Reached
    <3>1. <<t, "Admin", p>> \in grants \/ Awaited(i, p)
      BY DEF DeployInv, Reached
    <3>2. CASE Awaited(i, p)
      BY <1>5, <3>2 DEF Awaited
    <3>3. CASE <<t, "Admin", p>> \in grants
      <4> HIDE DEF undone
      <4>1. CASE p \in Deploy(i)!PermissionsOf(undone, "revoke")
        <5>1. n \in {6, 12} /\ p \in Backfilled(i, n) /\ n \notin executed'
          BY <1>5, <1>6, <4>1
        <5> QED
          BY <5>1 DEF Awaited
      <4>2. CASE p \notin Deploy(i)!PermissionsOf(undone, "revoke")
        BY <1>15, <3>3, <4>2
      <4> QED
        BY <4>1, <4>2
    <3> QED
      BY <3>1, <3>2, <3>3
  <2> HIDE DEF k
  <2> QED
    BY <1>10, <1>11, <1>12, <1>13, <2>1 DEF DeployInv
<1> HIDE DEF Kept, Lost
<1> QED
  BY <1>5, <1>14, <1>15

\* An Admin lacks at first what the backfills after the build are about; when one
\* of them ran the tenant is late.
LEMMA CreateTenantKeepsDeployInv ==
  ASSUME NEW i, Deploy(i)!BuildsAssumption, DeployInv(i), NEW t \in i.tenants, Deploy(i)!CreateTenant(t)
  PROVE  DeployInv(i)'
<1>1. UNCHANGED <<schema, executed, build, image, runner, failed, reverts>> /\ build # 0
  BY DEF Deploy!CreateTenant
<1>2. build \in 1 .. Len(i.builds) /\ i.builds[build] \in 1 .. 16
  <2>1. Len(i.builds) \in Nat /\ \A b \in 1 .. Len(i.builds) : i.builds[b] \in 1 .. 16
    BY BuildsAre
  <2>2. build \in 1 .. Len(i.builds)
    BY <1>1, <2>1 DEF DeployInv, Counts
  <2> QED
    BY <2>1, <2>2
<1>3. createdBy' = [createdBy EXCEPT ![t] = build] /\ (late' = late \/ late' = late \cup {t})
  BY DEF Deploy!CreateTenant
<1>4. Counts(i)'
  BY <1>1, <1>2, <1>3 DEF DeployInv, Counts
<1>5. \E n \in 0 .. 16 : Place(i, n)' /\ Alone(i, n)'
  BY <1>1, PlaceStays DEF DeployInv
<1>6. grants' = grants \cup UNION {{t} \X {n} \X Deploy(i)!BundleOf(build, n) : n \in Deploy(i)!SystemRoleNames}
  BY DEF Deploy!CreateTenant
<1>7. grants \subseteq grants' /\ \A p \in Deploy(i)!BundleOf(build, "Admin") : <<t, "Admin", p>> \in grants'
  <2>1. "Admin" \in Deploy(i)!SystemRoleNames
    BY DEF Deploy!SystemRoleNames
  <2> QED
    BY <1>6, <2>1
<1>8. t \in late' \/ \A m \in executed : Deploy(i)!Backfills(m) => ~(m > i.builds[build])
  BY DEF Deploy!CreateTenant
<1>9. Reached(i)'
  <2> SUFFICES ASSUME NEW u \in i.tenants \ late', createdBy'[u] # 0, NEW p \in Deploy(i)!Bundle("Admin")
               PROVE  <<u, "Admin", p>> \in grants' \/ Awaited(i, p)'
    BY DEF Reached
  <2>1. CASE u # t
    <3>1. u \in i.tenants \ late /\ createdBy[u] # 0
      BY <1>3, <2>1 DEF DeployInv, Counts
    <3>2. <<u, "Admin", p>> \in grants \/ Awaited(i, p)
      BY <3>1 DEF DeployInv, Reached
    <3> QED
      BY <1>1, <1>7, <3>2 DEF Awaited
  <2>2. CASE u = t
    <3>1. CASE p \in Deploy(i)!BundleOf(build, "Admin")
      BY <1>7, <2>2, <3>1
    <3>2. CASE p \notin Deploy(i)!BundleOf(build, "Admin")
      <4>1. p \in Deploy(i)!Unborn(build)
        BY <3>2 DEF Deploy!BundleOf
      <4>2. \A m \in {6, 12} : i.builds[build] < m => m \notin executed
        BY <1>2, <1>8, <2>2 DEF Deploy!Backfills
      <4>3. \E m \in {6, 12} : i.builds[build] < m /\ p \in Backfilled(i, m)
        BY <4>1 DEF Deploy!Unborn, Backfilled
      <4>4. Awaited(i, p)
        BY <4>2, <4>3 DEF Awaited
      <4> QED
        BY <1>1, <4>4 DEF Awaited
    <3> QED
      BY <3>1, <3>2
  <2> QED
    BY <2>1, <2>2
<1> QED
  BY <1>4, <1>5, <1>9 DEF DeployInv

LEMMA NextDeployInv ==
  ASSUME NEW i, Deploy(i)!BuildsAssumption, DeployInv(i), [Deploy(i)!Next]_deployVars
  PROVE  DeployInv(i)'
<1>1. ASSUME UNCHANGED <<schema, executed, grants, createdBy, runner, failed, reverts, late>>,
             build' \in 0 .. Len(i.builds), image' \in 1 .. Len(i.builds)
      PROVE  DeployInv(i)'
  <2>1. Counts(i)'
    BY <1>1 DEF DeployInv, Counts
  <2>2. Reached(i)'
    BY <1>1, ReachedStays DEF DeployInv
  <2> QED
    BY <1>1, <2>1, <2>2, PlaceStays DEF DeployInv
<1>2. /\ Len(i.builds) \in Nat /\ build \in 0 .. Len(i.builds) /\ image \in 1 .. Len(i.builds)
  BY BuildsAre DEF DeployInv, Counts
<1>3. CASE Deploy(i)!Release
  BY <1>1, <1>2, <1>3 DEF Deploy!Release
<1>4. CASE Deploy(i)!Up
  BY <1>1, <1>2, <1>4 DEF Deploy!Up
<1>5. CASE Deploy(i)!RollBack
  BY <1>1, <1>2, <1>5 DEF Deploy!RollBack
<1>6. CASE UNCHANGED deployVars
  BY <1>1, <1>2, <1>6 DEF deployVars
<1>7. CASE \E r \in i.runners : Deploy(i)!Open(r) \/ Deploy(i)!Run(r) \/ Deploy(i)!RunLost(r)
  BY <1>7, OpenKeepsDeployInv, RunKeepsDeployInv, RunLostKeepsDeployInv
<1>8. CASE \E t \in i.tenants : Deploy(i)!CreateTenant(t)
  BY <1>8, CreateTenantKeepsDeployInv
<1>9. CASE Deploy(i)!Revert
  BY <1>9, RevertKeepsDeployInv
<1> QED
  BY <1>3, <1>4, <1>5, <1>6, <1>7, <1>8, <1>9 DEF Deploy!Next

LEMMA DeployInvImplies ==
  ASSUME NEW i, DeployInv(i)
  PROVE  /\ Deploy(i)!TypeOK /\ Deploy(i)!SchemaIsItsHistory
         /\ Deploy(i)!EntitiesAreServed /\ Deploy(i)!BackfillsReachTheOld
<1>1. PICK n \in 0 .. 16 : Place(i, n)
  BY DEF DeployInv
<1>2. Deploy(i)!TypeOK
  <2>1. DOMAIN schema \subseteq {e.t : e \in Deploy(i)!postgresEntities}
    BY <1>1, TablesNamed DEF Place
  <2>2. executed \in Deploy(i)!Timeline
    BY <1>1 DEF Place, Deploy!Timeline
  <2> QED
    BY <2>1, <2>2 DEF Deploy!TypeOK, DeployInv, Counts
<1>3. Deploy(i)!SchemaIsItsHistory
  BY <1>1, HistoryIs DEF Place, Deploy!SchemaIsItsHistory
<1>4. Deploy(i)!EntitiesAreServed
  <2> SUFFICES ASSUME executed = Deploy(i)!Everything
               PROVE  \A e \in Deploy(i)!postgresEntities : Deploy(i)!Serves(schema, e)
    BY DEF Deploy!EntitiesAreServed
  <2>1. 16 \in 1 .. n /\ n \in 0 .. 16
    BY <1>1 DEF Place, Deploy!Everything
  <2>2. n = 16
    BY <2>1
  <2> QED
    BY <1>1, <2>2, EntitiesServed DEF Place
<1>5. Deploy(i)!BackfillsReachTheOld
  <2> SUFFICES ASSUME executed = Deploy(i)!Everything, NEW t \in i.tenants \ late, createdBy[t] # 0,
                      NEW p \in Deploy(i)!Bundle("Admin")
               PROVE  <<t, "Admin", p>> \in grants
    BY DEF Deploy!BackfillsReachTheOld, Deploy!Holds
  <2>1. ~Awaited(i, p)
    BY DEF Awaited, Deploy!Everything
  <2> QED
    BY <2>1 DEF DeployInv, Reached
<1> QED
  BY <1>2, <1>3, <1>4, <1>5

-----------------------------------------------------------------------------
(* The theorems, of each component and of the run.                           *)

\* The CI monitor of .cursor/skills/monitor-ci: for any courses of CI, budgets and
\* timeouts, the actions it takes are the cycles it counts and at most as many as
\* it has, and it takes none past its timeout but for answers it could not read.  It
\* stops after as many polls without news as the circuit breaker allows, unless it
\* tracks an attempt or CI writes the classification in upper case; then each such
\* poll still takes a minute off its timeout.
THEOREM MonitorIsBounded ==
  Monitor!Spec => [](/\ Monitor!TypeOK /\ Monitor!ActionsWithinCycles
                     /\ Monitor!StopsAtTimeout
                     /\ Monitor!BreakerTripsUnlessBypassed /\ Monitor!StandstillSpendsTimeout)
BY InitMonitorInv, NextMonitorInv, MonitorInvImplies, PTL DEF Monitor!Spec, Monitor!vars, monitorVars

\* The same of the run that explores the monitor beside the other components.
THEOREM MonitorStaysBounded == ToolingSpec => []MonitorKeepsItsLimits
<1> DEFINE Inv == part = "monitor" => MonitorInv
<1>1. ToolingInit => Inv
  BY InitMonitorInv DEF ToolingInit
<1>2. Inv /\ [ToolingNext]_<<part, deployVars, monitorVars, chainVars, path, fileVars, initVars>> => Inv'
  BY NextMonitorInv
  DEF ToolingNext, Migrating, Racing, Monitoring, Importing, Reaching, Declaring, Renaming
<1>3. Inv => MonitorKeepsItsLimits
  BY MonitorInvImplies DEF MonitorKeepsItsLimits
<1> QED
  BY <1>1, <1>2, <1>3, PTL DEF ToolingSpec

\* The module boundaries and overlays of config/eslint: along a chain of imports of any length,
\* scopes stay apart, apps come by an adapter through composition only, adapters
\* stand alone but for the allowance of the specs of postgres, no chain from
\* outside the shared packages comes back to its start, and domain and platform
\* import neither Nest nor TypeORM.
THEOREM ChainsKeepTheLayers ==
  Imports!Spec => [](/\ Imports!TypeOK /\ Imports!ScopesStayApart
                     /\ Imports!AdaptersComeThroughComposition /\ Imports!AdaptersStandAlone
                     /\ Imports!LayersPointInward /\ Imports!InnerLayersStayPure)
BY InitChainInv, ImportKeepsChainInv, ChainInvImplies, PTL DEF Imports!Spec, Imports!vars, chainVars

\* The rules of config/eslint/plugin on imports between folders: for any contexts and resources and chains
\* of any length, contexts stay apart, what is shared knows none of them, and the
\* slices of the frontends point down.
THEOREM FoldersKeepApart ==
  Folders!Spec => [](/\ Folders!TypeOK /\ Folders!ContextsStayApart
                     /\ Folders!SharedKnowsNoContext /\ Folders!SlicesPointDown)
<1>1. FolderInv /\ [Folders!Next]_path => FolderInv'
  BY FolderStepKeepsInv
<1> QED
  BY <1>1, InitFolderInv, FolderInvImplies, PTL DEF Folders!Spec

\* The rules of config/eslint/plugin on what a file declares: however many statements it has, a file they
\* accept has one function or class at most, and types beside it only if it is a
\* component, one, and nothing else they see.
THEOREM FilesKeepOneKind ==
  Files!Spec => [](Files!TypeOK /\ Files!OneRuntimePerFile /\ Files!OnlyComponentsMix)
BY InitFileShape, DeclareKeepsFileShape, OneRuntimeRemains, OnlyComponentsKeepTypes, PTL
DEF Files!Spec, Files!vars, fileVars

\* The three of the run that explores the rules beside the other components.
THEOREM ArchitectureIsKept == ToolingSpec => []RulesKeepTheArchitecture
<1> DEFINE Inv == /\ part = "imports" => ChainInv
                  /\ part = "folders" => FolderInv
                  /\ part = "files" => Files!TypeOK
<1>1. ToolingInit => Inv
  BY InitChainInv, InitFolderInv, InitFileShape DEF ToolingInit
<1>2. Inv /\ [ToolingNext]_<<part, deployVars, monitorVars, chainVars, path, fileVars, initVars>> => Inv'
  <2> SUFFICES ASSUME Inv, [ToolingNext]_<<part, deployVars, monitorVars, chainVars, path, fileVars, initVars>>
               PROVE  Inv'
    OBVIOUS
  <2>1. /\ part' = part
        /\ part = "imports" => [Imports!Next]_chainVars
        /\ part = "folders" => [Folders!Next]_path
        /\ part = "files" => [Files!Next]_fileVars
    BY DEF ToolingNext, Migrating, Racing, Monitoring, Importing, Reaching, Declaring, Renaming
  <2>2. part = "imports" => ChainInv'
    BY <2>1, ImportKeepsChainInv
  <2>3. part = "folders" => FolderInv'
    BY <2>1, FolderStepKeepsInv
  <2>4. part = "files" => Files!TypeOK'
    BY <2>1, DeclareKeepsFileShape
  <2> QED
    BY <2>1, <2>2, <2>3, <2>4
<1>3. Inv => RulesKeepTheArchitecture
  BY ChainInvImplies, FolderInvImplies, OneRuntimeRemains, OnlyComponentsKeepTypes
  DEF RulesKeepTheArchitecture
<1> QED
  BY <1>1, <1>2, <1>3, PTL DEF ToolingSpec

\* Migrations: whatever builds are released, rolled back and migrated, by how
\* many runners, the schema is what the executed migrations build from nothing,
\* all of them serve every entity, and the Admin of a tenant older than a
\* backfill holds its bundle; with one runner at a time no run and no revert fails.
THEOREM DeploysAreSound ==
  ASSUME NEW i, Deploy(i)!BuildsAssumption
  PROVE  Deploy(i)!Spec =>
           [](/\ Deploy(i)!TypeOK /\ Deploy(i)!SchemaIsItsHistory
              /\ Deploy(i)!EntitiesAreServed /\ Deploy(i)!BackfillsReachTheOld
              /\ (\A a, b \in i.runners : a = b) => Deploy(i)!NothingFails)
<1>1. Deploy(i)!Init => DeployInv(i)
  BY InitDeployInv
<1>2. DeployInv(i) /\ [Deploy(i)!Next]_(Deploy(i)!vars) => DeployInv(i)'
  BY NextDeployInv DEF Deploy!vars, deployVars
<1>3. DeployInv(i) => /\ Deploy(i)!TypeOK /\ Deploy(i)!SchemaIsItsHistory
                      /\ Deploy(i)!EntitiesAreServed /\ Deploy(i)!BackfillsReachTheOld
                      /\ (\A a, b \in i.runners : a = b) => Deploy(i)!NothingFails
  BY DeployInvImplies DEF DeployInv, Alone, Deploy!NothingFails
<1> QED
  BY <1>1, <1>2, <1>3, PTL DEF Deploy!Spec

\* The same of the two deployments of the run, which are explored beside the
\* other components.
THEOREM MigrationsAreSound == ToolingSpec => []MigrationsStaySound
<1> DEFINE Inv == /\ part = "migrations" => DeployInv(Rollout)
                  /\ part = "race" => DeployInv(Race)
<1>1. Deploy(Rollout)!BuildsAssumption /\ Deploy(Race)!BuildsAssumption
  BY DeployAssumption
<1>2. ToolingInit => Inv
  BY <1>1, InitDeployInv DEF ToolingInit
<1>3. Inv /\ [ToolingNext]_<<part, deployVars, monitorVars, chainVars, path, fileVars, initVars>> => Inv'
  <2> SUFFICES ASSUME Inv, [ToolingNext]_<<part, deployVars, monitorVars, chainVars, path, fileVars, initVars>>
               PROVE  Inv'
    OBVIOUS
  <2>1. /\ part' = part
        /\ part = "migrations" => [Deploy(Rollout)!Next]_deployVars
        /\ part = "race" => [Deploy(Race)!Next]_deployVars
    BY DEF ToolingNext, Migrating, Racing, Monitoring, Importing, Reaching, Declaring, Renaming
  <2>2. part = "migrations" => DeployInv(Rollout)'
    BY <1>1, <2>1, NextDeployInv
  <2>3. part = "race" => DeployInv(Race)'
    BY <1>1, <2>1, NextDeployInv
  <2> QED
    BY <2>1, <2>2, <2>3
<1>4. Inv => MigrationsStaySound
  <2>1. ASSUME DeployInv(Rollout)
        PROVE  Deploy(Rollout)!NothingFails
    <3>1. \A a, b \in Rollout.runners : a = b
      BY RunnersAssumption DEF Rollout
    <3> QED
      BY <2>1, <3>1 DEF DeployInv, Alone, Deploy!NothingFails
  <2> QED
    BY <2>1, DeployInvImplies DEF MigrationsStaySound
<1> QED
  BY <1>2, <1>3, <1>4, PTL DEF ToolingSpec

=============================================================================
