----------------------------- MODULE CiMonitor -----------------------------
(* The CI monitor of .cursor/skills/monitor-ci: ci-poll-decide.mjs classifies  *)
(* what CI says of the current attempt, ci-state-update.mjs keeps the budgets, *)
(* and the orchestrator carries their outputs from one call to the next        *)
(* (SKILL.md steps 1 to 4) until a code tells it to stop.  CI itself moves on  *)
(* between polls.  Time is in units of 30 seconds.                             *)
EXTENDS Integers, FiniteSetsExt

CONSTANTS
    CiInfo,            \* answers of ci_information about an attempt (ciInfo records)
    NoProgressCap,     \* polls without progress before the circuit breaker (13)
    EnvRerunCap,       \* environment reruns (2)
    MaxCycles,         \* --max-cycles
    LocalAttempts,     \* --local-verify-attempts
    TimeoutUnits,      \* --timeout
    NewCipeUnits,      \* --new-cipe-timeout
    MaxAttempts,       \* bound: CI attempts of the branch
    MaxUnparsed        \* bound: answers of CI that do not parse

CiMonitorAssumption ==
    /\ {EnvRerunCap, MaxCycles, LocalAttempts, MaxUnparsed} \subseteq Nat
    /\ {NoProgressCap, TimeoutUnits, NewCipeUnits, MaxAttempts} \subseteq Nat \ {0}

None == "none"

(* Attempts and commits are numbered from 1. *)
Unset == 0

VARIABLES
    ci,        \* CI: [url, sha, info] of the newest attempt, url and sha its number and commit's
    head,      \* commits of the branch
    due,       \* CI owes an attempt: Unset, or the commit it is for
    mon,       \* the orchestrator's tracking state
    phase,     \* "poll" | "handle" | "stopped"
    code,      \* code of the last output
    elapsed,   \* time since start_time
    unparsed,  \* answers that do not parse left
    stale,     \* history: consecutive polls in normal mode that saw what the one before saw
    actions,   \* history: actions of the monitor that start an attempt
    reruns     \* history: environment reruns since the last other code

vars == <<ci, head, due, mon, phase, code, elapsed, unparsed, stale, actions, reruns>>

(* elapsed is cut off here, past every moment a property looks at. *)
Horizon == TimeoutUnits + 2 * MaxUnparsed + 7

NoStatuses == [cipe |-> None, sh |-> None, ver |-> None, fc |-> None]

(* Step 1: tracking state. *)
Init ==
    /\ ci \in [url : {1}, sha : {1}, info : CiInfo]
    /\ head = 1
    /\ due = Unset
    /\ mon = [wait |-> FALSE, polls |-> 0, noProgress |-> 0, envReruns |-> 0, local |-> 0, cycles |-> 0,
              lastUrl |-> Unset, sha |-> Unset, agent |-> FALSE, prev |-> NoStatuses]
    /\ phase = "poll"
    /\ code = None
    /\ elapsed = 0
    /\ unparsed = MaxUnparsed
    /\ stale = 0
    /\ actions = 0
    /\ reruns = 0

----------------------------------------------------------------------------
(* ci-poll-decide.mjs *)

backoff(count) == CASE count = 0 -> 2 [] count = 1 -> 3 [] count = 2 -> 4 [] OTHER -> 6

(* toLowerCase() of the classification CI gives. *)
Lower(fc) ==
    CASE fc = "ENVIRONMENT_STATE" -> "environment_state"
      [] fc = "FLAKY_TASK" -> "flaky_task"
      [] OTHER -> fc

(* The statuses a poll sees, as CI writes them and as the orchestrator hands   *)
(* them to the next poll: WAIT_FIELDS has only the attempt's.                  *)
Seen ==
    IF mon.wait THEN [NoStatuses EXCEPT !.cipe = ci.info.cipe]
    ELSE [cipe |-> ci.info.cipe, sh |-> ci.info.sh, ver |-> ci.info.ver, fc |-> ci.info.fc]

(* The classification seen now is in lower case, the one seen before is not. *)
hasStateChanged ==
    LET now == [Seen EXCEPT !.fc = Lower(@)] IN
    \E f \in DOMAIN now : mon.prev[f] # None /\ now[f] # mon.prev[f]

isTimedOut == elapsed >= TimeoutUnits

isWaitTimedOut == mon.polls >= NewCipeUnits

isNewCipe ==
    \/ mon.lastUrl # Unset /\ ci.url # mon.lastUrl
    \/ mon.sha # Unset /\ ci.sha = mon.sha

noProgressCount ==
    IF isNewCipe \/ (~mon.wait /\ hasStateChanged) THEN 0
    ELSE IF mon.wait THEN mon.noProgress
    ELSE mon.noProgress + 1

(* Wait mode *)
classifyWait ==
    CASE isNewCipe -> "new_cipe_detected"
      [] ~isNewCipe /\ isTimedOut -> "polling_timeout"
      [] ~isNewCipe /\ ~isTimedOut /\ isWaitTimedOut -> "no_new_cipe"
      [] OTHER -> "waiting_for_cipe"

(* A fix is there: what its verification allows. *)
classifyFix(i) ==
    IF i.ver \in {"FAILED", "NOT_EXECUTABLE"} \/ (~i.autoApply /\ i.ver = None) THEN "fix_needs_review"
    ELSE IF i.tasks = "unverified" THEN "fix_needs_local_verify"
    ELSE "fix_apply_ready"

(* Normal mode after its guards, the first that applies. *)
classifyInfo(i) ==
    IF i.cipe = "SUCCEEDED" THEN "ci_success"
    ELSE IF i.cipe = "CANCELED" THEN "cipe_canceled"
    ELSE IF i.cipe = "TIMED_OUT" THEN "cipe_timed_out"
    ELSE IF i.cipe = "FAILED" /\ i.tasks = "no_tasks" /\ i.sh = None THEN "cipe_no_tasks"
    ELSE IF Lower(i.fc) = "environment_state" THEN
        IF mon.envReruns >= EnvRerunCap THEN "environment_rerun_cap" ELSE "environment_issue"
    ELSE IF i.skip = "THROTTLED" THEN "self_healing_throttled"
    ELSE IF i.cipe \in {"IN_PROGRESS", "NOT_STARTED"} THEN "ci_running"
    ELSE IF i.sh \in {"IN_PROGRESS", "NOT_STARTED"} /\ i.skip = None THEN "sh_running"
    ELSE IF Lower(i.fc) = "flaky_task" THEN "flaky_rerun"
    ELSE IF i.autoApplied THEN "fix_auto_applied"
    ELSE IF i.autoApply /\ i.skipApply THEN "fix_auto_apply_skipped"
    ELSE IF i.autoApply /\ i.ver \in {"NOT_STARTED", "IN_PROGRESS"} THEN "verification_pending"
    ELSE IF i.autoApply /\ i.ver = "COMPLETED" THEN "fix_auto_applying"
    ELSE IF i.sh = "COMPLETED" THEN classifyFix(i)
    ELSE IF i.sh = "FAILED" THEN "fix_failed"
    ELSE IF i.cipe = "FAILED" /\ (~i.enabled \/ i.sh = "NOT_EXECUTABLE") THEN "no_fix"
    ELSE "fallback"

classify ==
    IF mon.wait THEN classifyWait
    ELSE IF isTimedOut THEN "polling_timeout"
    ELSE IF noProgressCount >= NoProgressCap THEN "circuit_breaker"
    ELSE classifyInfo(ci.info)

PollCodes == {"new_cipe_detected", "ci_running", "sh_running", "flaky_rerun", "fix_auto_applied",
              "verification_pending", "fallback"}

resetProgressCodes == {"ci_success", "fix_auto_applying", "fix_auto_apply_skipped", "fix_needs_review",
                       "fix_apply_ready", "fix_needs_local_verify"}

(* buildOutput: the delay of a poll or a wait, none before a code is handled. *)
Delay(c) ==
    CASE c = "waiting_for_cipe" -> 1
      [] c = "new_cipe_detected" -> 2
      [] c \in PollCodes \ {"new_cipe_detected"} -> backoff(noProgressCount)
      [] OTHER -> 0

(* One call of the decision script with the orchestrator's updates (2c). *)
Poll ==
    LET c == classify IN
    /\ phase = "poll"
    /\ code' = c
    /\ phase' = IF c \in PollCodes \union {"waiting_for_cipe"} THEN "poll" ELSE "handle"
    /\ mon' = [mon EXCEPT
        !.wait = mon.wait /\ c # "new_cipe_detected",
        !.polls = Min({@ + 1, NewCipeUnits}),
        !.noProgress = IF c \in resetProgressCodes THEN 0 ELSE noProgressCount,
        !.envReruns = IF c = "new_cipe_detected" THEN 0 ELSE @,
        !.local = IF c = "new_cipe_detected" THEN 0 ELSE @,
        !.prev = Seen]
    /\ elapsed' = Min({elapsed + Delay(c), Horizon})
    /\ stale' = IF mon.wait \/ Seen # mon.prev \/ phase' # "poll" THEN 0 ELSE Min({stale + 1, NoProgressCap + 1})
    /\ UNCHANGED <<ci, head, due, unparsed, actions, reruns>>

----------------------------------------------------------------------------
(* ci-state-update.mjs *)

cycleCheckLate(c) ==
    [cycles |-> IF mon.agent THEN mon.cycles + 1 ELSE mon.cycles,
     envReruns |-> IF c = "environment_issue" THEN mon.envReruns ELSE 0,
     limitReached |-> mon.cycles >= MaxCycles]

cycleCheck(c) ==
    LET cycles == IF mon.agent THEN mon.cycles + 1 ELSE mon.cycles IN
    [cycles |-> cycles,
     envReruns |-> IF c = "environment_issue" THEN mon.envReruns ELSE 0,
     limitReached |-> cycles >= MaxCycles]

gateLocalFix == mon.local < LocalAttempts

gateEnvRerun(count) == count < EnvRerunCap

(* post-action: wait for an attempt with another url, or with the new commit. *)
CipeUrlActions == {"fix-auto-applying", "apply-mcp", "env-rerun"}

CommitShaActions == {"apply-local-push", "reject-fix-push", "local-fix-push", "auto-fix-push", "empty-commit-push"}

postAction(m, action, sha) ==
    [m EXCEPT !.wait = TRUE, !.polls = 0, !.agent = (action # "fix-auto-applying"),
              !.lastUrl = IF action \in CipeUrlActions THEN ci.url ELSE Unset,
              !.sha = IF action \in CommitShaActions THEN sha ELSE Unset]

(* What a code's flow may do: the actions of references/fix-flows.md. *)
Flow(c) ==
    CASE c = "fix_auto_applying" -> {"fix-auto-applying"}
      [] c \in {"fix_auto_apply_skipped", "fix_apply_ready"} -> {"apply-mcp"}
      [] c = "fix_needs_local_verify" -> {"apply-mcp", "apply-local-push"}
      [] c = "fix_needs_review" -> {"apply-mcp", "apply-local-push", "reject-fix-push"}
      [] c \in {"fix_failed", "no_fix"} -> {"local-fix-push"}
      [] c = "environment_issue" -> {"env-rerun"}
      [] c = "self_healing_throttled" -> {"local-fix-push", "empty-commit-push"}
      [] c = "no_new_cipe" -> {"auto-fix-push"}
      [] c = "cipe_no_tasks" -> {"empty-commit-push"}
      [] OTHER -> {}

Allowed(action, envReruns) ==
    /\ action \in {"reject-fix-push", "local-fix-push"} => gateLocalFix
    /\ action = "env-rerun" => gateEnvRerun(envReruns)

(* Step 3: cycle-check, the gate of the flow, the action and post-action. *)
Act(action) ==
    LET check == cycleCheck(code)
        push == action \in CommitShaActions
        checked == [mon EXCEPT
            !.cycles = check.cycles,
            !.envReruns = IF action = "env-rerun" THEN check.envReruns + 1 ELSE check.envReruns,
            !.local = IF action \in {"reject-fix-push", "local-fix-push"} THEN @ + 1 ELSE @]
    IN
    /\ phase = "handle"
    /\ ~check.limitReached
    /\ action \in Flow(code)
    /\ Allowed(action, check.envReruns)
    /\ ci.url < MaxAttempts
    /\ head' = IF push THEN head + 1 ELSE head
    /\ due' = head'
    /\ mon' = postAction(checked, action, head')
    /\ phase' = "poll"
    /\ actions' = IF action = "fix-auto-applying" THEN actions ELSE actions + 1
    /\ reruns' = IF action = "env-rerun" THEN reruns + 1 ELSE 0
    /\ UNCHANGED <<ci, code, elapsed, unparsed, stale>>

(* ci_information JSON that does not parse: error, before any budget is looked *)
(* at; after cycle-check the monitor waits 60 seconds and loops.               *)
PollUnparsed ==
    LET check == cycleCheck("error") IN
    /\ phase = "poll"
    /\ unparsed > 0
    /\ unparsed' = unparsed - 1
    /\ code' = "error"
    /\ phase' = IF check.limitReached THEN "stopped" ELSE "poll"
    /\ mon' = [mon EXCEPT !.noProgress = Min({@ + 1, NoProgressCap}), !.polls = Min({@ + 1, NewCipeUnits}),
                          !.cycles = check.cycles, !.envReruns = check.envReruns, !.agent = FALSE,
                          !.prev = NoStatuses]
    /\ elapsed' = Min({elapsed + 2, Horizon})
    /\ stale' = 0
    /\ UNCHANGED <<ci, head, due, actions, reruns>>

(* The limit is reached, the code or its gate ends the monitor, or the user does. *)
Stop ==
    /\ phase = "handle"
    /\ phase' = "stopped"
    /\ UNCHANGED <<ci, head, due, mon, code, elapsed, unparsed, stale, actions, reruns>>

----------------------------------------------------------------------------
(* CI: the attempt moves on; an owed attempt starts; somebody else pushes. *)
CiProgress ==
    /\ phase = "poll"
    /\ \E i \in CiInfo : ci' = [ci EXCEPT !.info = i]
    /\ UNCHANGED <<head, due, mon, phase, code, elapsed, unparsed, stale, actions, reruns>>

CiStarts ==
    /\ phase = "poll"
    /\ due # Unset
    /\ due' = Unset
    /\ \E i \in CiInfo : ci' = [url |-> ci.url + 1, sha |-> due, info |-> i]
    /\ UNCHANGED <<head, mon, phase, code, elapsed, unparsed, stale, actions, reruns>>

HumanPush ==
    /\ phase = "poll"
    /\ ci.url < MaxAttempts
    /\ due = Unset
    /\ head' = head + 1
    /\ due' = head'
    /\ UNCHANGED <<ci, mon, phase, code, elapsed, unparsed, stale, actions, reruns>>

Next ==
    \/ Poll
    \/ PollUnparsed
    \/ \E action \in CipeUrlActions \union CommitShaActions : Act(action)
    \/ Stop
    \/ CiProgress \/ CiStarts \/ HumanPush

Spec == Init /\ [][Next]_vars

(* The orchestrator goes on polling and handling codes. *)
FairSpec == Spec /\ WF_vars(Poll) /\ WF_vars(Stop \/ \E action \in CipeUrlActions \union CommitShaActions : Act(action))

----------------------------------------------------------------------------
TypeOK ==
    /\ ci.info \in CiInfo
    /\ ci.url \in 1 .. MaxAttempts
    /\ ci.sha \in 1 .. head
    /\ due \in 0 .. head
    /\ phase \in {"poll", "handle", "stopped"}
    /\ mon.cycles \in 0 .. actions
    /\ mon.envReruns \in 0 .. EnvRerunCap
    /\ mon.local \in 0 .. LocalAttempts
    /\ mon.wait => (mon.lastUrl = Unset) # (mon.sha = Unset)

(* The monitor acts within --max-cycles: the action after the last allowed cycle *)
(* is never taken, whoever started the attempts in between.                      *)
ActionsWithinCycles == actions <= MaxCycles

(* --timeout caps the whole run, waits for a new attempt and sequences of them    *)
(* included: the monitor stops within one delay of it, and a minute for each      *)
(* answer that did not parse.                                                     *)
StopsAtTimeout ==
    phase # "stopped" => elapsed < TimeoutUnits + backoff(NoProgressCap) + 2 * (MaxUnparsed - unparsed)

(* What makes a poll that saw nothing new look like progress: the attempt the     *)
(* monitor waited for is still the expected one, or CI writes the classification  *)
(* in another case than the script compares it in.                                *)
BreakerBypassed ==
    \/ mon.lastUrl # Unset \/ mon.sha # Unset
    \/ Lower(mon.prev.fc) # mon.prev.fc

(* The circuit breaker trips after NoProgressCap polls that saw nothing new,      *)
(* unless it is bypassed in one of these two ways.                                *)
BreakerTripsUnlessBypassed == stale >= NoProgressCap => BreakerBypassed

(* Bypassed or not, polls that see nothing new spend the budget of --timeout, a   *)
(* minute each at least: by StopsAtTimeout they come to an end.                   *)
StandstillSpendsTimeout == 2 * stale <= elapsed

(* The monitor stops. *)
Stops == <>(phase = "stopped")

(* "enforces --timeout as a total monitor budget across every poll and attempt"   *)
TimeoutIsTotal == phase # "stopped" => elapsed < TimeoutUnits + backoff(NoProgressCap)

(* "No progress after 13 consecutive polls. Stopping."  A tracked attempt, or a   *)
(* classification in upper case, resets the count at every poll.                  *)
BreakerTrips == stale < NoProgressCap

(* "Environment rerun cap (2) exceeded. Bailing."                                 *)
RerunsWithinCap == reruns <= EnvRerunCap

(* "Fix available and verified. Ready to apply."                                  *)
ApplyReadyIsVerified == phase = "handle" /\ code = "fix_apply_ready" => mon.prev.ver = "COMPLETED"
=============================================================================
