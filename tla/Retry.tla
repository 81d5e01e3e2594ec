-------------------------------- MODULE Retry -------------------------------
(* The retry policy of lib/retry.js.                                       *)
EXTENDS Integers

\* Mutant: the attempt is taken for the number of retries.
ShouldRetryOnceLess(attempt, maxRetries) == attempt + 1 < maxRetries

\* The worker passes the attempt that failed, counted from one.
ShouldRetry(attempt, maxRetries) == attempt < maxRetries

=============================================================================
