-------------------------------- MODULE Retry --------------------------------
(***************************************************************************)
(* The pure part of internal/delivery: which answers of a destination      *)
(* count as delivered, which are worth another attempt, and how long the   *)
(* queue waits before it.                                                  *)
(*                                                                         *)
(* Backoff returns a random duration between half of a nominal delay and   *)
(* the whole of it.  The module gives the nominal delay in seconds: in     *)
(* HALF seconds the range of the jittered delay is then                    *)
(* Nominal .. 2 * Nominal, with no rounding (the code divides an even      *)
(* number of nanoseconds).                                                 *)
(***************************************************************************)
EXTENDS Integers

\* time.Hour, in seconds: the cap on a delay.
Hour == 3600

\* Finish's test of a status code: anything else is a failed attempt.
Success(status) == status >= 200 /\ status < 300

\* Status 0 stands for "no answer" (network failure or timeout).
Retryable(status) ==
    status = 0 \/ status = 408 \/ status = 429 \/ status >= 500

\* The attempt number is clamped to 1..10 before it is used as a shift.
ClampAttempt(attempt) ==
    IF attempt < 1 THEN 1 ELSE IF attempt > 10 THEN 10 ELSE attempt

\* Faulty variant: the shift is one too large.
NominalShifted(attempt, base) ==
    LET d == base * 2^ClampAttempt(attempt)
    IN  IF d > Hour THEN Hour ELSE d

\* base * 2^(attempt-1) seconds, at most an hour.
Nominal(attempt, base) ==
    LET d == base * 2^(ClampAttempt(attempt) - 1)
    IN  IF d > Hour THEN Hour ELSE d

\* The durations Backoff may return, in half seconds.
Backoff(attempt, base) == Nominal(attempt, base) .. 2 * Nominal(attempt, base)
==============================================================================
