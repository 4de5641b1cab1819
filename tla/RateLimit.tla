------------------------------ MODULE RateLimit ------------------------------
(***************************************************************************)
(* The budget of one IP address in one scope (core/ratelimit.py, and       *)
(* orders/tracking.py, which repeats it over its own table): the checkout, *)
(* login, search, review, tracking, kiosk and POS views check it, do their *)
(* work and record the attempt.                                            *)
(*                                                                         *)
(* Grain.  The count of the failures, the count of all attempts and the    *)
(* row that is recorded are steps, with other workers' steps and any time  *)
(* between them.                                                           *)
(*                                                                         *)
(* Data.  A row is its age and its outcome.  Rows older than both windows  *)
(* stay in the table and are left out: no query sees them.  The clock is   *)
(* read once for both counts; reading it again for the second lets that    *)
(* one see less, the weaker check.                                         *)
(***************************************************************************)
EXTENDS FiniteSets, Functions, Integers

CONSTANTS
    Workers,       \* requests of the address that run at once
    MaxAttempts,   \* policy.max_attempts
    Window,        \* policy.window_seconds
    Threshold,     \* policy.lockout_failure_threshold, or NoLockout
    NoLockout,     \* the threshold of a policy without a lockout
    LockoutWindow  \* policy.lockout_window_seconds

VARIABLES
    attempts,  \* attempts[a][ok]: RateLimitAttempt rows of age a
    worker     \* worker[w]: "idle", "unlocked" (the failures are counted)
               \* or "working" (both counts passed)

vars == <<attempts, worker>>

(* The longer of the two windows; without a lockout it is the throttle's.  *)
Longest == IF Window > LockoutWindow THEN Window ELSE LockoutWindow
Ages == 0 .. Longest
Count(window, outcomes) ==
    SumFunctionOnSet([p \in Ages \X BOOLEAN |-> attempts[p[1]][p[2]]],
                     {a \in Ages : a <= window} \X outcomes)

Init ==
    /\ attempts = [a \in Ages |-> [ok \in BOOLEAN |-> 0]]
    /\ worker = [w \in Workers |-> "idle"]

(* Mutant: one more failure before the lockout.                            *)
LockedOutLate == Threshold # NoLockout /\ Count(LockoutWindow, {FALSE}) > Threshold

LockedOut == Threshold # NoLockout /\ Count(LockoutWindow, {FALSE}) >= Threshold
RateLimited == Count(Window, BOOLEAN) >= MaxAttempts

(* A refused request records nothing and ends; in the model it may as well *)
(* not have come.                                                          *)
CountFailures(w) ==
    /\ worker[w] = "idle"
    /\ ~LockedOut
    /\ worker' = [worker EXCEPT ![w] = "unlocked"]
    /\ UNCHANGED attempts

CountAttempts(w) ==
    /\ worker[w] = "unlocked"
    /\ worker' = [worker EXCEPT ![w] = IF RateLimited THEN "idle" ELSE "working"]
    /\ UNCHANGED attempts

Record(w, succeeded) ==
    /\ worker[w] = "working"
    /\ attempts' = [attempts EXCEPT ![0][succeeded] = @ + 1]
    /\ worker' = [worker EXCEPT ![w] = "idle"]

(* The worker dies, or its view ends without an attempt (an empty cart).   *)
RecordNothing(w) ==
    /\ worker[w] = "working"
    /\ worker' = [worker EXCEPT ![w] = "idle"]
    /\ UNCHANGED attempts

(* Time goes by.                                                           *)
Tick ==
    /\ attempts' = [a \in Ages |-> IF a = 0 THEN [ok \in BOOLEAN |-> 0]
                                           ELSE attempts[a - 1]]
    /\ UNCHANGED worker

(* Mutant: refused requests are recorded as well, when they are checked.   *)
RequestStepRecorded(w) ==
    \/ CountFailures(w) \/ CountAttempts(w)
    \/ \E succeeded \in BOOLEAN : Record(w, succeeded)
    \/ RecordNothing(w)
    \/ /\ worker[w] = "idle" /\ LockedOut
       /\ Count(0, BOOLEAN) < MaxAttempts
       /\ attempts' = [attempts EXCEPT ![0][FALSE] = @ + 1]
       /\ UNCHANGED worker

RequestStep(w) ==
    \/ CountFailures(w) \/ CountAttempts(w)
    \/ \E succeeded \in BOOLEAN : Record(w, succeeded)
    \/ RecordNothing(w)

Next == Tick \/ \E w \in Workers : RequestStep(w)

Spec == Init /\ [][Next]_vars

-----------------------------------------------------------------------------
(* Properties.                                                             *)

TypeOK ==
    /\ attempts \in [Ages -> [BOOLEAN -> Nat]]
    /\ worker \in [Workers -> {"idle", "unlocked", "working"}]

(* Checking before the work and recording after it lets parallel requests  *)
(* past the limit, but never more of them than may run at once: in no      *)
(* window are there more attempts, or failures, than the policy's and one  *)
(* for every other worker.                                                 *)
BurstsAreBounded ==
    LET others == Cardinality(Workers) - 1 IN
    /\ Count(Window, BOOLEAN) <= MaxAttempts + others
    /\ Threshold # NoLockout =>
          Count(LockoutWindow, {FALSE}) <= Threshold + others

(* A lockout ends by itself ("self-expires as old failures age out", see   *)
(* LockedOutError of orders/tracking.py), whatever is tried meanwhile.     *)
LockoutEnds == LockedOut ~> ~LockedOut
=============================================================================
