----------------------- MODULE GoogleCallsProperties -----------------------
(***************************************************************************)
(* What the callers of a Backend method rely on.                           *)
(***************************************************************************)
EXTENDS GoogleCalls

\* Whatever hints Google sends, one page sleeps three minutes at most
\* (_errors.py:101-103).
SleepsBounded == call.slept <= 3 * 120

\* The types of the variables; every pause is one that time.sleep accepts.
CallTypeOK ==
  /\ SleepsBounded
  /\ call.at \in {"idle", "asked", "asleep"}
  /\ call.method \in Methods \cup {"none"}
  /\ call.attempt \in 0 .. MaxAttempts /\ call.slept \in Nat
  /\ call.page \in 0 .. MaxPages /\ call.first \in 0 .. MaxPages
  /\ pages \in 1 .. MaxPages /\ done \in Nat
  /\ result.pages \in 0 .. MaxPages /\ result.since \in 0 .. MaxPages

\* One call of a method that changes something changes it at most once, over
\* every sequence of failures and repetitions (_errors.py:89-105).
WritesAtMostOnce == done <= 1

\* The outcome tells the caller what happened: after "ok" a write was carried out,
\* and after an error that names a reason it was not.  Only ApiError and an error
\* of the transport leave it open.
OutcomeHonest ==
  /\ result.outcome = "ok" /\ result.of \in Writes => done = 1
  /\ result.outcome \in {"AuthError", "NotFoundError", "AccessError", "ServiceDisabledError",
                         "InvalidInputError", "RateLimitError"} => done = 0

\* A listing that succeeds has every page there was when it began, although
\* others arrived meanwhile (backend.py:744-758).
ListingWhole ==
  result.outcome = "ok" /\ result.of \in {"list_comments", "list_permissions",
                                        "list_access_proposals", "list_file_labels"} =>
    result.pages >= result.since

\* Over every sequence of failures and repetitions a caller knows from the outcome what
\* was done, and it was not done twice (_errors.py:89-105, backend.py:744-1173).
TellsWhatWasDone == WritesAtMostOnce /\ OutcomeHonest
=============================================================================
