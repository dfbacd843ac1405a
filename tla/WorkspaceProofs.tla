-------------------------- MODULE WorkspaceProofs --------------------------
(***************************************************************************)
(* The library as a whole.  Towards Google, for every number of pages and   *)
(* every Retry-After header: a write is carried out at most once in a call, *)
(* the outcome tells whether it was, a listing that succeeds is whole, and  *)
(* no page sleeps longer than three minutes.  The demonstration, for any    *)
(* kinds of files that fit its plan, any server and any number of steps     *)
(* that fail, are declined or lose their answer: it does to others what it  *)
(* was asked to do, and takes back what it made.  And side by side with     *)
(* the others every component keeps to its own specification, so what is    *)
(* proved of each holds of the library.                                     *)
(***************************************************************************)
EXTENDS MCWorkspace, CommentsProofs, DocumentsProofs, FilesProofs

-----------------------------------------------------------------------------
(* Requests to Google. *)

CallState == [at : {"idle", "asked", "asleep"}, method : Methods \cup {"none"}, page : Nat,
              attempt : 0 .. MaxAttempts, slept : Nat, first : Nat]

\* While a call runs nothing has been carried out, for only what Google refuses
\* is repeated; it has read the pages before the one it asks for, and it has slept
\* two minutes at most per attempt it has behind it.
CallInv ==
  /\ call \in CallState /\ pages \in Nat /\ done \in {0, 1}
  /\ call.at # "idle" =>
       /\ call.method \in Methods \ UpstreamRefusals
       /\ done = 0 /\ result = NoResult
       /\ call.attempt \in 1 .. MaxAttempts /\ call.first <= pages
       /\ call.at = "asleep" => call.attempt < MaxAttempts
       /\ call.slept <= 120 * (IF call.at = "asleep" THEN call.attempt ELSE call.attempt - 1)
  /\ call.at = "idle" => call.slept = 0
  /\ OutcomeHonest /\ ListingWhole

\* What pause returns can be slept, and is a minute at most.
LEMMA PauseBounded ==
  ASSUME NEW attempt \in 1 .. 3, NEW r, NEW hint \in Int
  PROVE  pause(attempt, r, hint) \in 0 .. 120
<1>1. backoff[attempt] \in 0 .. 120
  BY DEF backoff
<1>2. CASE r = "429" /\ retry_after(hint) # NoHint
  BY <1>2 DEF pause, retry_after, NoHint
<1>3. CASE ~(r = "429" /\ retry_after(hint) # NoHint)
  BY <1>1, <1>3 DEF pause
<1> QED BY <1>2, <1>3

\* Only a read is repeated after an answer that leaves open what happened.
LEMMA RepeatedIsUndone ==
  ASSUME NEW m \in Methods, NEW r \in Uncertain, m \in Writes
  PROVE  ~retryable(m, r)
  BY DEF retryable, idempotent, Uncertain

LEMMA PagedIsRead == \A m \in Paged : m \notin Writes
  BY DEF Paged, Writes, ThreadWrites, FileWrites, GrantWrites, ProposalWrites, StructureWrites,
         BodyWrites

LEMMA AskKeeps ==
  ASSUME CallInv, NEW m \in Methods, Ask(m)
  PROVE  CallInv'
<1>2. CASE m \in UpstreamRefusals
  <2>1. result'.outcome = "UnsupportedOperation" /\ call' = call /\ done' = 0 /\ pages' = pages
    BY <1>2 DEF Ask, NoResult
  <2> QED BY <2>1 DEF Ask, CallInv, OutcomeHonest, ListingWhole
<1>3. CASE m \notin UpstreamRefusals
  <2>1. call' = [at |-> "asked", method |-> m, page |-> 1, attempt |-> 1, slept |-> 0,
                 first |-> pages]
        /\ result' = NoResult /\ done' = 0 /\ pages' = pages
    BY <1>3 DEF Ask
  <2>2. result'.outcome = "none" BY <2>1 DEF NoResult
  <2>3. call' \in CallState BY <2>1 DEF CallState, CallInv, MaxAttempts
  <2> QED BY <1>3, <2>1, <2>2, <2>3 DEF CallInv, OutcomeHonest, ListingWhole, MaxAttempts
<1> QED BY <1>2, <1>3

LEMMA EndResult ==
  ASSUME CallInv, NEW outcome, End(outcome)
  PROVE  /\ call' = NoCall
         /\ result'.outcome = outcome /\ result'.of = call.method
         /\ result'.pages = call.page /\ result'.since = call.first
  BY DEF End

LEMMA ContinueKeeps ==
  ASSUME call \in CallState, NEW where \in {"asked", "asleep"}, NEW page \in Nat,
         NEW attempt \in 1 .. MaxAttempts, NEW slept \in Nat, Continue(where, page, attempt, slept)
  PROVE  /\ call' \in CallState /\ call'.at = where /\ call'.method = call.method
         /\ call'.attempt = attempt /\ call'.slept = slept /\ call'.first = call.first
  BY DEF Continue, CallState, MaxAttempts

LEMMA NoCallInv ==
  /\ NoCall \in CallState /\ NoCall.at = "idle" /\ NoCall.slept = 0
  BY DEF NoCall, CallState, MaxAttempts

LEMMA CallInvInit == CallInit => CallInv
<1>1. NoResult.outcome = "none" BY DEF NoResult
<1> QED BY <1>1, NoCallInv DEF CallInit, CallInv, OutcomeHonest, ListingWhole

LEMMA ServedKeeps ==
  ASSUME CallInv, Served
  PROVE  CallInv'
<1> USE DEF CallInv
<1>1. CASE call.method \in Paged /\ call.page < pages
  <2>1. call.method \notin Writes BY <1>1, PagedIsRead
  <2>2. Continue("asked", call.page + 1, 1, 0) /\ result' = result /\ pages' = pages
    BY <1>1 DEF Served, next_page
  <2>3. /\ call' \in CallState /\ call'.at = "asked" /\ call'.method = call.method
        /\ call'.attempt = 1 /\ call'.slept = 0 /\ call'.first = call.first
    <3>1. call \in CallState /\ call.page + 1 \in Nat /\ 1 \in 1 .. MaxAttempts /\ 0 \in Nat
      BY DEF CallState, MaxAttempts
    <3> QED BY <2>2, <3>1 DEF Continue, CallState
  <2> QED BY <2>1, <2>2, <2>3 DEF Served, MaxAttempts, OutcomeHonest, ListingWhole
<1>2. CASE ~(call.method \in Paged /\ call.page < pages)
  <2>1. End("ok") /\ pages' = pages
    BY <1>2 DEF Served
  <2>2. done' = (IF call.method \in Writes THEN 1 ELSE 0)
    BY DEF Served
  <2>3. OutcomeHonest'
    BY <2>1, <2>2, EndResult DEF Served, OutcomeHonest
  <2>4. ListingWhole'
    BY <1>2, <2>1, EndResult DEF Served, ListingWhole, Paged, CallState
  <2> QED BY <2>1, <2>2, <2>3, <2>4, EndResult, NoCallInv DEF Served
<1> QED BY <1>1, <1>2

LEMMA FailedKeeps ==
  ASSUME CallInv, NEW r \in Answer \ {"ok"}, NEW hint \in Hints, Failed(r, hint)
  PROVE  CallInv'
<1>0. hint \in Int BY CallAssumption
<1>1. CASE retryable(call.method, r) /\ call.attempt < MaxAttempts
  <2>1. done' = done
    BY <1>1, RepeatedIsUndone DEF Failed, CallInv
  <2>2. pause(call.attempt, r, hint) \in 0 .. 120
    BY <1>0, <1>1, PauseBounded DEF CallInv, CallState, MaxAttempts, Failed
  <2>3. Continue("asleep", call.page, call.attempt, call.slept + pause(call.attempt, r, hint))
        /\ result' = result /\ pages' = pages /\ call.at = "asked"
    BY <1>1 DEF Failed
  <2>4. call'.slept = call.slept + pause(call.attempt, r, hint)
        /\ call'.attempt = call.attempt /\ call'.at = "asleep" /\ call'.method = call.method
        /\ call'.first = call.first /\ call' \in CallState
    <3>1. /\ call \in CallState /\ call.page \in Nat /\ call.attempt \in 1 .. MaxAttempts
          /\ call.slept + pause(call.attempt, r, hint) \in Nat
      BY <2>2, <2>3 DEF CallInv, CallState
    <3> QED BY <2>3, <3>1, ContinueKeeps
  <2> QED BY <1>1, <2>1, <2>2, <2>3, <2>4 DEF CallInv, MaxAttempts, OutcomeHonest, ListingWhole, CallState
<1>2. CASE ~(retryable(call.method, r) /\ call.attempt < MaxAttempts)
  <2>1. translate_http_error(r) # "ok"
    BY DEF translate_http_error, Answer
  <2>2. End(translate_http_error(r)) /\ pages' = pages /\ call.at = "asked"
    BY <1>2 DEF Failed
  <2>3. done' \in {0, 1} /\ (r \notin Uncertain => done' = 0)
    BY <2>2 DEF Failed, CallInv
  <2>4. r \in Uncertain =>
          translate_http_error(r) \in {"ApiError", "OSError"}
    BY DEF Uncertain, translate_http_error
  <2>5. OutcomeHonest'
    BY <2>1, <2>2, <2>3, <2>4, EndResult DEF OutcomeHonest
  <2>6. ListingWhole'
    BY <2>1, <2>2, EndResult DEF ListingWhole
  <2> QED BY <2>1, <2>2, <2>3, <2>5, <2>6, EndResult, NoCallInv DEF CallInv
<1> QED BY <1>1, <1>2

LEMMA OthersKeep ==
  ASSUME CallInv, Grow \/ Wake \/ UNCHANGED callVars
  PROVE  CallInv'
<1>1. CASE Grow
  BY <1>1 DEF Grow, CallInv, CallState, OutcomeHonest, ListingWhole
<1>2. CASE Wake
  <2>1. call'.at = "asked" /\ call'.method = call.method /\ call'.slept = call.slept
        /\ call'.attempt = call.attempt + 1 /\ call'.first = call.first /\ call' \in CallState
    <3>1. /\ call \in CallState /\ call.page \in Nat /\ call.attempt + 1 \in 1 .. MaxAttempts
          /\ call.slept \in Nat
      BY <1>2 DEF Wake, CallInv, CallState, MaxAttempts
    <3> QED BY <1>2, <3>1 DEF Wake, Continue, CallState
  <2> QED BY <1>2, <2>1 DEF Wake, CallInv, OutcomeHonest, ListingWhole, MaxAttempts, CallState
<1>3. CASE UNCHANGED callVars
  BY <1>3 DEF callVars, CallInv, OutcomeHonest, ListingWhole
<1> QED BY <1>1, <1>2, <1>3

LEMMA CallInvNext == CallInv /\ [CallNext]_callVars => CallInv'
  BY AskKeeps, ServedKeeps, FailedKeeps, OthersKeep DEF CallNext, Answered

LEMMA CallInvAlways == CallSpec => []CallInv
<1> QED BY CallInvInit, CallInvNext, PTL DEF CallSpec

\* From the outcome of a call its caller knows what was done, and nothing was done twice,
\* over every sequence of failures and repetitions.
THEOREM CallersKnow == CallSpec => []TellsWhatWasDone
<1>1. CallInv => TellsWhatWasDone
  BY DEF CallInv, WritesAtMostOnce, TellsWhatWasDone
<1> QED BY <1>1, CallInvAlways, PTL

\* A listing that succeeds has every page there was when it began.
THEOREM WholeListings == CallSpec => []ListingWhole
<1>1. CallInv => ListingWhole
  BY DEF CallInv
<1> QED BY <1>1, CallInvAlways, PTL

\* No page sleeps longer than three minutes, whatever Google hints.
THEOREM BoundedSleep == CallSpec => []SleepsBounded
<1>1. CallInv => SleepsBounded
  BY DEF CallInv, CallState, SleepsBounded, MaxAttempts
<1> QED BY <1>1, CallInvAlways, PTL

\* A listing has the pages it has, and a call neither is nor was beyond them.
CallBounded ==
  /\ pages \in 1 .. MaxPages
  /\ call.page \in 0 .. pages /\ call.first \in 0 .. pages
  /\ result.pages \in 0 .. MaxPages /\ result.since \in 0 .. MaxPages

LEMMA CallBoundedInit == CallInit => CallBounded
  BY CallAssumption DEF CallInit, CallBounded, NoCall, NoResult

LEMMA CallBoundedNext == CallInv /\ CallBounded /\ [CallNext]_callVars => CallBounded'
<1> SUFFICES ASSUME CallInv, CallBounded, [CallNext]_callVars PROVE CallBounded'
  OBVIOUS
<1>0. MaxPages \in Nat /\ pages \in 1 .. MaxPages /\ call \in CallState
  BY CallAssumption DEF CallBounded, CallInv
<1>1. ASSUME NEW outcome, End(outcome), pages' = pages PROVE CallBounded'
  <2>1. call' = NoCall /\ result'.pages = call.page /\ result'.since = call.first
    BY <1>1, EndResult
  <2>2. NoCall.page = 0 /\ NoCall.first = 0 BY DEF NoCall
  <2> QED BY <1>0, <1>1, <2>1, <2>2 DEF CallBounded
<1>2. ASSUME NEW where, NEW page \in 0 .. pages, NEW attempt, NEW slept,
             Continue(where, page, attempt, slept), pages' = pages, result' = result
      PROVE  CallBounded'
  <2>1. call'.page = page /\ call'.first = call.first BY <1>2 DEF Continue
  <2> QED BY <1>2, <2>1 DEF CallBounded
<1>3. CASE \E m \in Methods : Ask(m)
  <2> PICK m \in Methods : Ask(m) BY <1>3
  <2>1. CASE m \in UpstreamRefusals
    <3>1. result'.pages = 0 /\ result'.since = 0 /\ call' = call /\ pages' = pages
      BY <2>1 DEF Ask, NoResult
    <3> QED BY <1>0, <3>1 DEF CallBounded
  <2>2. CASE m \notin UpstreamRefusals
    <3>1. call'.page = 1 /\ call'.first = pages /\ pages' = pages /\ result' = NoResult
      BY <2>2 DEF Ask
    <3>2. NoResult.pages = 0 /\ NoResult.since = 0 BY DEF NoResult
    <3> QED BY <1>0, <3>1, <3>2 DEF CallBounded
  <2> QED BY <2>1, <2>2
<1>4. CASE Grow
  BY <1>0, <1>4 DEF Grow, CallBounded
<1>5. CASE Served
  <2>1. CASE call.method \in Paged /\ call.page < pages
    <3>1. call.page + 1 \in 0 .. pages BY <1>0, <2>1 DEF CallBounded
    <3>2. Continue("asked", call.page + 1, 1, 0) /\ pages' = pages /\ result' = result
      BY <1>5, <2>1 DEF Served, next_page
    <3> QED BY <1>2, <3>1, <3>2
  <2>2. CASE ~(call.method \in Paged /\ call.page < pages)
    <3>1. End("ok") /\ pages' = pages BY <1>5, <2>2 DEF Served
    <3> QED BY <1>1, <3>1
  <2> QED BY <2>1, <2>2
<1>6. ASSUME NEW r \in Answer \ {"ok"}, NEW hint \in Hints, Failed(r, hint)
      PROVE  CallBounded'
  <2>1. CASE retryable(call.method, r) /\ call.attempt < MaxAttempts
    <3>1. /\ Continue("asleep", call.page, call.attempt, call.slept + pause(call.attempt, r, hint))
          /\ pages' = pages /\ result' = result
      BY <1>6, <2>1 DEF Failed
    <3>2. call.page \in 0 .. pages BY DEF CallBounded
    <3> QED BY <1>2, <3>1, <3>2
  <2>2. CASE ~(retryable(call.method, r) /\ call.attempt < MaxAttempts)
    <3>1. End(translate_http_error(r)) /\ pages' = pages BY <1>6, <2>2 DEF Failed
    <3> QED BY <1>1, <3>1
  <2> QED BY <2>1, <2>2
<1>7. CASE Wake
  <2>1. /\ Continue("asked", call.page, call.attempt + 1, call.slept)
        /\ pages' = pages /\ result' = result
    BY <1>7 DEF Wake
  <2>2. call.page \in 0 .. pages BY DEF CallBounded
  <2> QED BY <1>2, <2>1, <2>2
<1>8. CASE UNCHANGED callVars
  BY <1>8 DEF callVars, CallBounded
<1> QED BY <1>3, <1>4, <1>5, <1>6, <1>7, <1>8 DEF CallNext, Answered

\* Whatever Google answers, a call asks for no page its listing does not have, makes four
\* attempts at most and sleeps what time.sleep accepts (_errors.py:89-105, backend.py:744-758).
THEOREM CallTypes == CallSpec => []CallTypeOK
<1>1. CallInv /\ CallBounded => CallTypeOK
  <2> SUFFICES ASSUME CallInv, CallBounded PROVE CallTypeOK OBVIOUS
  <2>1. MaxPages \in Nat /\ pages \in 1 .. MaxPages BY CallAssumption DEF CallBounded
  <2>2. /\ call.at \in {"idle", "asked", "asleep"} /\ call.method \in Methods \cup {"none"}
        /\ call.attempt \in 0 .. MaxAttempts /\ call.slept \in Nat
    BY DEF CallInv, CallState
  <2>3. SleepsBounded BY DEF CallInv, CallState, SleepsBounded, MaxAttempts
  <2>4. done \in Nat BY DEF CallInv
  <2>5. /\ call.page \in 0 .. MaxPages /\ call.first \in 0 .. MaxPages
        /\ result.pages \in 0 .. MaxPages /\ result.since \in 0 .. MaxPages
    BY <2>1 DEF CallBounded
  <2> QED BY <2>1, <2>2, <2>3, <2>4, <2>5 DEF CallTypeOK
<1>2. CallSpec => []CallBounded
  BY CallBoundedInit, CallBoundedNext, CallInvAlways, PTL DEF CallSpec
<1> QED BY <1>1, <1>2, CallInvAlways, PTL

-----------------------------------------------------------------------------
(* The demonstration. *)

N == Len(TYPES)

LEMMA KindsInOrder ==
  /\ N \in Nat \ {0} /\ 2 * N + 1 <= 8 /\ DOMAIN TYPES = 1 .. N
  /\ TYPES \in Seq(Kinds) /\ \A p \in 1 .. N : TYPES[p] \in Kinds
  /\ \A k \in Kinds : \E p \in 1 .. N : TYPES[p] = k
  /\ NoKind \notin Kinds
<1>1. TYPES \in Seq(Kinds) /\ TYPES # <<>> BY DemoAssumption DEF Kinds
<1>2. N \in Nat /\ DOMAIN TYPES = 1 .. N /\ \A p \in 1 .. N : TYPES[p] \in Kinds
  BY <1>1, LenProperties, ElementOfSeq DEF N
<1>3. N # 0 BY <1>1, EmptySeq DEF N
<1>4. \A k \in Kinds : \E p \in DOMAIN TYPES : TYPES[p] = k BY DEF Kinds, ToSet
<1> QED BY <1>1, <1>2, <1>3, <1>4, DemoAssumption DEF N, _MAX_CLEANUP, Kinds

-----------------------------------------------------------------------------
(* The plan, step by step. *)

\* The steps there are for a kind, and the plan's steps.
OfKind(k) ==
  {Plain("create_file", File(k, FALSE), "file.create", FALSE),
   Plain("edit", File(k, FALSE), "content.write", k = TYPES[Len(TYPES)]),
   Plain("create_comment", File(k, FALSE), "comment.create", FALSE),
   Plain("change_comment", File(k, FALSE), "comment.reply", FALSE),
   Plain("delete_comment", File(k, FALSE), "comment.delete", FALSE),
   Plain("export_comments", File(k, FALSE), "none", TRUE),
   Plain("apply_comment_actions", File(k, FALSE), "comment.reply", TRUE),
   Plain("copy_file", File(k, TRUE), "file.create", FALSE),
   Plain("share_file", File(k, FALSE), "file.share", TRUE),
   Plain("update_file_permission", File(k, FALSE), "file.share", TRUE),
   Plain("unshare_file", File(k, FALSE), "file.share", TRUE)}
Tidying == {trash_step(how, index) : how \in {"trash_file", "untrash_file"}, index \in 1 .. 8}
PlanStep ==
  (UNION {OfKind(k) : k \in Kinds}) \cup {account_opening[1], account_closing[1]} \cup Tidying

\* Two sequences, one after the other.
LEMMA Joined ==
  ASSUME NEW S, NEW a \in Seq(S), NEW b \in Seq(S)
  PROVE  /\ a \o b \in Seq(S) /\ Len(a \o b) = Len(a) + Len(b)
         /\ Len(a) \in Nat /\ Len(b) \in Nat
         /\ \A i \in 1 .. Len(a) : (a \o b)[i] = a[i]
         /\ \A i \in 1 .. Len(b) : (a \o b)[Len(a) + i] = b[i]
<1>1. /\ a \o b \in Seq(S) /\ Len(a \o b) = Len(a) + Len(b)
      /\ \A i \in 1 .. Len(a) + Len(b) : (a \o b)[i] = IF i <= Len(a) THEN a[i] ELSE b[i - Len(a)]
      /\ Len(a) \in Nat /\ Len(b) \in Nat
  BY ConcatProperties, LenProperties
<1>2. ASSUME NEW i \in 1 .. Len(a) PROVE (a \o b)[i] = a[i]
  <2>1. i \in 1 .. Len(a) + Len(b) /\ i <= Len(a) BY <1>1
  <2> QED BY <1>1, <2>1
<1>3. ASSUME NEW i \in 1 .. Len(b) PROVE (a \o b)[Len(a) + i] = b[i]
  <2>1. PICK j : j = Len(a) + i OBVIOUS
  <2>2. j \in 1 .. Len(a) + Len(b) /\ ~(j <= Len(a)) /\ j - Len(a) = i BY <1>1, <2>1
  <2>3. (a \o b)[j] = b[i] BY <1>1, <2>2
  <2> QED BY <2>1, <2>3
<1> QED BY <1>1, <1>2, <1>3

LEMMA OfOne ==
  ASSUME NEW S, NEW x \in S
  PROVE  <<x>> \in Seq(S) /\ Len(<<x>>) = 1 /\ <<x>>[1] = x
OBVIOUS

LEMMA OfTwo ==
  ASSUME NEW S, NEW x \in S, NEW y \in S
  PROVE  <<x, y>> \in Seq(S) /\ Len(<<x, y>>) = 2 /\ <<x, y>>[1] = x /\ <<x, y>>[2] = y
OBVIOUS

LEMMA OfThree ==
  ASSUME NEW S, NEW x \in S, NEW y \in S, NEW z \in S
  PROVE  /\ <<x, y, z>> \in Seq(S) /\ Len(<<x, y, z>>) = 3
         /\ <<x, y, z>>[1] = x /\ <<x, y, z>>[2] = y /\ <<x, y, z>>[3] = z
OBVIOUS

LEMMA ElevenSteps ==
  ASSUME NEW k \in Kinds
  PROVE  LET s == per_type(k)
         IN  /\ s \in Seq(PlanStep) /\ Len(s) = 11
             /\ s[1] = Plain("create_file", File(k, FALSE), "file.create", FALSE)
             /\ s[2].tool = "edit" /\ s[2].file = File(k, FALSE) /\ s[2].index = 0
             /\ s[3] = Plain("create_comment", File(k, FALSE), "comment.create", FALSE)
             /\ s[4] = Plain("change_comment", File(k, FALSE), "comment.reply", FALSE)
             /\ s[5] = Plain("delete_comment", File(k, FALSE), "comment.delete", FALSE)
             /\ s[6] = Plain("export_comments", File(k, FALSE), "none", TRUE)
             /\ s[7] = Plain("apply_comment_actions", File(k, FALSE), "comment.reply", TRUE)
             /\ s[8] = Plain("copy_file", File(k, TRUE), "file.create", FALSE)
             /\ s[9] = Plain("share_file", File(k, FALSE), "file.share", TRUE)
             /\ s[10] = Plain("update_file_permission", File(k, FALSE), "file.share", TRUE)
             /\ s[11] = Plain("unshare_file", File(k, FALSE), "file.share", TRUE)
<1> DEFINE s1 == Plain("create_file", File(k, FALSE), "file.create", FALSE)
           s2 == Plain("edit", File(k, FALSE), "content.write", k = TYPES[Len(TYPES)])
           s3 == Plain("create_comment", File(k, FALSE), "comment.create", FALSE)
           s4 == Plain("change_comment", File(k, FALSE), "comment.reply", FALSE)
           s5 == Plain("delete_comment", File(k, FALSE), "comment.delete", FALSE)
           s6 == Plain("export_comments", File(k, FALSE), "none", TRUE)
           s7 == Plain("apply_comment_actions", File(k, FALSE), "comment.reply", TRUE)
           s8 == Plain("copy_file", File(k, TRUE), "file.create", FALSE)
           s9 == Plain("share_file", File(k, FALSE), "file.share", TRUE)
           s10 == Plain("update_file_permission", File(k, FALSE), "file.share", TRUE)
           s11 == Plain("unshare_file", File(k, FALSE), "file.share", TRUE)
<1>3. /\ s1 \in PlanStep /\ s2 \in PlanStep /\ s3 \in PlanStep /\ s4 \in PlanStep
      /\ s5 \in PlanStep /\ s6 \in PlanStep /\ s7 \in PlanStep /\ s8 \in PlanStep
      /\ s9 \in PlanStep /\ s10 \in PlanStep /\ s11 \in PlanStep
  <2>1. OfKind(k) \subseteq PlanStep BY DEF PlanStep
  <2> QED BY <2>1 DEF OfKind
<1>4. s2.tool = "edit" /\ s2.file = File(k, FALSE) /\ s2.index = 0 BY DEF Plain
<1>5. PICK a : a = <<s1, s2>> OBVIOUS
<1>6. PICK b : b = <<s3, s4, s5>> OBVIOUS
<1>7. PICK c : c = <<s6, s7>> OBVIOUS
<1>8. PICK d : d = <<s8>> OBVIOUS
<1>9. PICK e : e = <<s9, s10, s11>> OBVIOUS
<1>10. content_steps(k) = a BY <1>5 DEF content_steps
<1>11. comment_steps(k) = b BY <1>6 DEF comment_steps
<1>12. register_steps(k) = c BY <1>7 DEF register_steps
<1>13. file_steps(k) = d BY <1>8 DEF file_steps
<1>14. sharing_steps(k) = e BY <1>9 DEF sharing_steps
<1> HIDE DEF s1, s2, s3, s4, s5, s6, s7, s8, s9, s10, s11
<1>15. a \in Seq(PlanStep) /\ Len(a) = 2 /\ a[1] = s1 /\ a[2] = s2 BY <1>3, <1>5, OfTwo
<1>16. b \in Seq(PlanStep) /\ Len(b) = 3 /\ b[1] = s3 /\ b[2] = s4 /\ b[3] = s5 BY <1>3, <1>6, OfThree
<1>17. c \in Seq(PlanStep) /\ Len(c) = 2 /\ c[1] = s6 /\ c[2] = s7 BY <1>3, <1>7, OfTwo
<1>18. d \in Seq(PlanStep) /\ Len(d) = 1 /\ d[1] = s8 BY <1>3, <1>8, OfOne
<1>19. e \in Seq(PlanStep) /\ Len(e) = 3 /\ e[1] = s9 /\ e[2] = s10 /\ e[3] = s11 BY <1>3, <1>9, OfThree
<1>20. PICK ab : ab = a \o b OBVIOUS
<1>21. /\ ab \in Seq(PlanStep) /\ Len(ab) = 5
      /\ ab[1] = s1 /\ ab[2] = s2 /\ ab[3] = s3 /\ ab[4] = s4 /\ ab[5] = s5
  <2>4. a \in Seq(PlanStep) /\ b \in Seq(PlanStep) BY <1>15, <1>16
  <2>0. /\ a \o b \in Seq(PlanStep) /\ Len(a \o b) = Len(a) + Len(b)
        /\ \A i \in 1 .. Len(a) : (a \o b)[i] = a[i]
        /\ \A i \in 1 .. Len(b) : (a \o b)[Len(a) + i] = b[i]
    BY <2>4, Joined
  <2>1. /\ ab \in Seq(PlanStep) /\ Len(ab) = 5
        /\ \A i \in 1 .. 2 : ab[i] = a[i]
        /\ \A i \in 1 .. 3 : ab[2 + i] = b[i]
    BY <2>0, <1>15, <1>16, <1>20
  <2>2. ab[1] = a[1] /\ ab[2] = a[2] BY <2>1
  <2>3. ab[3] = b[1] /\ ab[4] = b[2] /\ ab[5] = b[3] BY <2>1
  <2> QED BY <1>15, <1>16, <2>1, <2>2, <2>3
<1>22. PICK abc : abc = ab \o c OBVIOUS
<1>23. /\ abc \in Seq(PlanStep) /\ Len(abc) = 7
      /\ abc[1] = s1 /\ abc[2] = s2 /\ abc[3] = s3 /\ abc[4] = s4 /\ abc[5] = s5
      /\ abc[6] = s6 /\ abc[7] = s7
  <2>4. ab \in Seq(PlanStep) /\ c \in Seq(PlanStep) BY <1>21, <1>17
  <2>0. /\ ab \o c \in Seq(PlanStep) /\ Len(ab \o c) = Len(ab) + Len(c)
        /\ \A i \in 1 .. Len(ab) : (ab \o c)[i] = ab[i]
        /\ \A i \in 1 .. Len(c) : (ab \o c)[Len(ab) + i] = c[i]
    BY <2>4, Joined
  <2>1. /\ abc \in Seq(PlanStep) /\ Len(abc) = 7
        /\ \A i \in 1 .. 5 : abc[i] = ab[i]
        /\ \A i \in 1 .. 2 : abc[5 + i] = c[i]
    BY <2>0, <1>21, <1>17, <1>22
  <2>2. abc[1] = ab[1] /\ abc[2] = ab[2] /\ abc[3] = ab[3] /\ abc[4] = ab[4] /\ abc[5] = ab[5] BY <2>1
  <2>3. abc[6] = c[1] /\ abc[7] = c[2] BY <2>1
  <2> QED BY <1>21, <1>17, <2>1, <2>2, <2>3
<1>24. PICK abcd : abcd = abc \o d OBVIOUS
<1>25. /\ abcd \in Seq(PlanStep) /\ Len(abcd) = 8
      /\ abcd[1] = s1 /\ abcd[2] = s2 /\ abcd[3] = s3 /\ abcd[4] = s4 /\ abcd[5] = s5
      /\ abcd[6] = s6 /\ abcd[7] = s7 /\ abcd[8] = s8
  <2>4. abc \in Seq(PlanStep) /\ d \in Seq(PlanStep) BY <1>23, <1>18
  <2>0. /\ abc \o d \in Seq(PlanStep) /\ Len(abc \o d) = Len(abc) + Len(d)
        /\ \A i \in 1 .. Len(abc) : (abc \o d)[i] = abc[i]
        /\ \A i \in 1 .. Len(d) : (abc \o d)[Len(abc) + i] = d[i]
    BY <2>4, Joined
  <2>1. /\ abcd \in Seq(PlanStep) /\ Len(abcd) = 8
        /\ \A i \in 1 .. 7 : abcd[i] = abc[i]
        /\ \A i \in 1 .. 1 : abcd[7 + i] = d[i]
    BY <2>0, <1>23, <1>18, <1>24
  <2>2. abcd[1] = abc[1] /\ abcd[2] = abc[2] /\ abcd[3] = abc[3] /\ abcd[4] = abc[4] /\ abcd[5] = abc[5] /\ abcd[6] = abc[6] /\ abcd[7] = abc[7] BY <2>1
  <2>3. abcd[8] = d[1] BY <2>1
  <2> QED BY <1>23, <1>18, <2>1, <2>2, <2>3
<1>26. PICK s : s = abcd \o e OBVIOUS
<1>27. /\ s \in Seq(PlanStep) /\ Len(s) = 11
      /\ s[1] = s1 /\ s[2] = s2 /\ s[3] = s3 /\ s[4] = s4 /\ s[5] = s5
      /\ s[6] = s6 /\ s[7] = s7 /\ s[8] = s8 /\ s[9] = s9 /\ s[10] = s10
      /\ s[11] = s11
  <2>4. abcd \in Seq(PlanStep) /\ e \in Seq(PlanStep) BY <1>25, <1>19
  <2>0. /\ abcd \o e \in Seq(PlanStep) /\ Len(abcd \o e) = Len(abcd) + Len(e)
        /\ \A i \in 1 .. Len(abcd) : (abcd \o e)[i] = abcd[i]
        /\ \A i \in 1 .. Len(e) : (abcd \o e)[Len(abcd) + i] = e[i]
    BY <2>4, Joined
  <2>1. /\ s \in Seq(PlanStep) /\ Len(s) = 11
        /\ \A i \in 1 .. 8 : s[i] = abcd[i]
        /\ \A i \in 1 .. 3 : s[8 + i] = e[i]
    BY <2>0, <1>25, <1>19, <1>26
  <2>2. s[1] = abcd[1] /\ s[2] = abcd[2] /\ s[3] = abcd[3] /\ s[4] = abcd[4] /\ s[5] = abcd[5] /\ s[6] = abcd[6] /\ s[7] = abcd[7] /\ s[8] = abcd[8] BY <2>1
  <2>3. s[9] = e[1] /\ s[10] = e[2] /\ s[11] = e[3] BY <2>1
  <2> QED BY <1>25, <1>19, <2>1, <2>2, <2>3
<1>28. per_type(k) = s BY <1>10, <1>11, <1>12, <1>13, <1>14, <1>20, <1>22, <1>24, <1>26 DEF per_type
<1> QED BY <1>4, <1>27, <1>28 DEF s1, s2, s3, s4, s5, s6, s7, s8, s9, s10, s11

\* The place in the plan of the m-th step for the p-th kind, and the last before the tidying.
StepAt(p, m) == 1 + 11 * (p - 1) + m
Told == 2 + 11 * N

LEMMA TrashSteps ==
  ASSUME NEW how, NEW index
  PROVE  LET s == trash_step(how, index)
         IN  s.tool = how /\ s.file = Folder /\ s.requires = "file.trash" /\ s.index = index
BY DEF trash_step, Plain

LEMMA EveryKind ==
  LET f == FlattenSeq([i \in DOMAIN TYPES |-> per_type(TYPES[i])])
  IN  /\ f \in Seq(PlanStep) /\ Len(f) = 11 * N
      /\ \A p \in 1 .. N : \A m \in 1 .. 11 : f[11 * (p - 1) + m] = per_type(TYPES[p])[m]
<1>1. N \in Nat /\ DOMAIN TYPES = 1 .. N /\ \A p \in 1 .. N : TYPES[p] \in Kinds BY KindsInOrder
<1>2. PICK s : s = [i \in 1 .. N |-> per_type(TYPES[i])] OBVIOUS
<1>3. \A p \in 1 .. N : s[p] = per_type(TYPES[p]) /\ s[p] \in Seq(PlanStep) /\ Len(s[p]) = 11
  BY <1>1, <1>2, ElevenSteps
<1>4. s \in Seq(Seq(PlanStep)) /\ Len(s) = N
  <2>1. s \in [1 .. N -> Seq(PlanStep)] BY <1>2, <1>3
  <2> QED BY <1>1, <2>1
<1>5. PICK f : f = FlattenSeq(s) OBVIOUS
<1>6. f \in Seq(PlanStep) /\ \E off : Offsets(s, off) /\ Laid(s, off, Len(s), f)
  BY <1>4, <1>5, FlattenPositions
<1>7. PICK off : Offsets(s, off) /\ Laid(s, off, N, f) BY <1>4, <1>6
<1>8. off[0] = 0 /\ off \in [0 .. N -> Nat] /\ \A p \in 1 .. N : off[p] = off[p - 1] + 11
  BY <1>3, <1>4, <1>7 DEF Offsets
<1> DEFINE G == {p \in 0 .. N : off[p] = 11 * p}
<1>9. 0 \in G BY <1>1, <1>8
<1>10. ASSUME NEW i \in 1 .. N, i - 1 \in G PROVE i \in G
  <2>1. i \in 0 .. N /\ i \in Nat BY <1>1
  <2>2. off[i - 1] = 11 * (i - 1) BY <1>10
  <2>3. off[i] = 11 * (i - 1) + 11 BY <1>8, <2>2
  <2> QED BY <2>1, <2>3
<1> HIDE DEF G
<1>11. 0 .. N \subseteq G BY <1>1, <1>9, <1>10, UpTo
<1>12. \A p \in 0 .. N : off[p] = 11 * p BY <1>11 DEF G
<1>13. Len(f) = 11 * N BY <1>1, <1>7, <1>12 DEF Laid
<1>14. ASSUME NEW p \in 1 .. N, NEW m \in 1 .. 11
       PROVE  f[11 * (p - 1) + m] = per_type(TYPES[p])[m]
  <2>1. p - 1 \in 0 .. N BY <1>1
  <2>2. m \in 1 .. Len(s[p]) BY <1>3
  <2>3. f[off[p - 1] + m] = s[p][m] BY <1>7, <2>2 DEF Laid
  <2>4. off[p - 1] = 11 * (p - 1) BY <1>12, <2>1
  <2> QED BY <1>3, <2>3, <2>4
<1> QED BY <1>1, <1>2, <1>5, <1>6, <1>13, <1>14

LEMMA TidyingSteps ==
  LET c == cleanup(FALSE)
  IN  /\ c \in Seq(PlanStep) /\ Len(c) = 10
      /\ c[1] = trash_step("trash_file", 1) /\ c[2] = trash_step("untrash_file", 1)
      /\ \A i \in 1 .. 8 : c[2 + i] = trash_step("trash_file", i)
<1>1. ASSUME NEW i \in 1 .. 8
      PROVE  trash_step("trash_file", i) \in PlanStep /\ trash_step("untrash_file", i) \in PlanStep
  <2>1. trash_step("trash_file", i) \in Tidying /\ trash_step("untrash_file", i) \in Tidying
    BY DEF Tidying
  <2> QED BY <2>1 DEF PlanStep
<1>2. PICK t, u : t = trash_step("trash_file", 1) /\ u = trash_step("untrash_file", 1) OBVIOUS
<1>3. t \in PlanStep /\ u \in PlanStep
  <2>1. 1 \in 1 .. 8 OBVIOUS
  <2> QED BY <1>1, <1>2, <2>1
<1>4. PICK a : a = <<t, u>> OBVIOUS
<1>5. a \in Seq(PlanStep) /\ Len(a) = 2 /\ a[1] = t /\ a[2] = u BY <1>3, <1>4, OfTwo
<1>6. PICK b : b = [i \in 1 .. 8 |-> trash_step("trash_file", i)] OBVIOUS
<1>7. b \in Seq(PlanStep) /\ Len(b) = 8 /\ \A i \in 1 .. 8 : b[i] = trash_step("trash_file", i)
  <2>1. b \in [1 .. 8 -> PlanStep] BY <1>1, <1>6
  <2> QED BY <1>6, <2>1
<1>8. PICK c : c = a \o b OBVIOUS
<1>9. cleanup(FALSE) = c BY <1>2, <1>4, <1>6, <1>8 DEF cleanup, _MAX_CLEANUP
<1>10. a \in Seq(PlanStep) /\ b \in Seq(PlanStep) BY <1>5, <1>7
<1>11. /\ a \o b \in Seq(PlanStep) /\ Len(a \o b) = Len(a) + Len(b)
       /\ \A i \in 1 .. Len(a) : (a \o b)[i] = a[i]
       /\ \A i \in 1 .. Len(b) : (a \o b)[Len(a) + i] = b[i]
  BY <1>10, Joined
<1>14. Len(a) = 2 /\ Len(b) = 8 BY <1>5, <1>7
<1>12. /\ c \in Seq(PlanStep) /\ Len(c) = 10
       /\ \A i \in 1 .. 2 : c[i] = a[i]
       /\ \A i \in 1 .. 8 : c[2 + i] = b[i]
  <2>1. c \in Seq(PlanStep) /\ Len(c) = 10 BY <1>8, <1>11, <1>14
  <2>2. \A i \in 1 .. 2 : c[i] = a[i] BY <1>8, <1>11, <1>14
  <2>3. \A i \in 1 .. Len(b) : c[Len(a) + i] = b[i] BY <1>8, <1>11
  <2>4. \A i \in 1 .. 8 : c[2 + i] = b[i] BY <1>14, <2>3
  <2> QED BY <2>1, <2>2, <2>4
<1>13. c[1] = t /\ c[2] = u BY <1>5, <1>12
<1> QED BY <1>2, <1>7, <1>9, <1>12, <1>13

\* The plan, whatever the kinds are.
LEMMA PlanSteps ==
  ASSUME NEW keep \in BOOLEAN
  PROVE  LET plan == Plan[keep]
         IN  /\ Len(plan) = IF keep THEN Told ELSE Told + 10
             /\ DOMAIN plan = 1 .. Len(plan)
             /\ plan[1] = account_opening[1]
             /\ \A p \in 1 .. N : \A m \in 1 .. 11 : plan[StepAt(p, m)] = per_type(TYPES[p])[m]
             /\ plan[Told] = account_closing[1]
             /\ ~keep => /\ plan[Told + 1] = trash_step("trash_file", 1)
                         /\ plan[Told + 2] = trash_step("untrash_file", 1)
                         /\ \A i \in 1 .. 8 : plan[Told + 2 + i] = trash_step("trash_file", i)
<1>1. N \in Nat BY KindsInOrder
<1>2. PICK a : a = account_opening OBVIOUS
<1>3. PICK f : f = FlattenSeq([i \in DOMAIN TYPES |-> per_type(TYPES[i])]) OBVIOUS
<1>4. PICK z : z = account_closing OBVIOUS
<1>5. PICK c : c = cleanup(keep) OBVIOUS
<1>6. Plan[keep] = ((a \o f) \o z) \o c BY <1>2, <1>3, <1>4, <1>5 DEF Plan, build_steps
<1>7. account_opening[1] \in PlanStep /\ account_closing[1] \in PlanStep BY DEF PlanStep
<1>8. a \in Seq(PlanStep) /\ Len(a) = 1 /\ a[1] = account_opening[1]
  <2>1. a = <<account_opening[1]>> BY <1>2 DEF account_opening
  <2> QED BY <1>7, <2>1, OfOne
<1>9. z \in Seq(PlanStep) /\ Len(z) = 1 /\ z[1] = account_closing[1]
  <2>1. z = <<account_closing[1]>> BY <1>4 DEF account_closing
  <2> QED BY <1>7, <2>1, OfOne
<1>10. /\ f \in Seq(PlanStep) /\ Len(f) = 11 * N
       /\ \A p \in 1 .. N : \A m \in 1 .. 11 : f[11 * (p - 1) + m] = per_type(TYPES[p])[m]
  BY <1>3, EveryKind
<1>11. /\ c \in Seq(PlanStep) /\ Len(c) = IF keep THEN 0 ELSE 10
       /\ ~keep => /\ c[1] = trash_step("trash_file", 1) /\ c[2] = trash_step("untrash_file", 1)
                   /\ \A i \in 1 .. 8 : c[2 + i] = trash_step("trash_file", i)
  <2>1. CASE keep
    <3>1. c = <<>> BY <1>5, <2>1 DEF cleanup
    <3> QED BY <2>1, <3>1
  <2>2. CASE ~keep
    <3>1. keep = FALSE BY <2>2
    <3>2. c = cleanup(FALSE) BY <1>5, <3>1
    <3> QED BY <2>2, <3>2, TidyingSteps
  <2> QED BY <2>1, <2>2
<1>12. PICK af : af = a \o f OBVIOUS
<1>13. /\ af \in Seq(PlanStep) /\ Len(af) = 1 + 11 * N /\ af[1] = account_opening[1]
       /\ \A i \in 1 .. 11 * N : af[1 + i] = f[i]
  <2>1. a \in Seq(PlanStep) /\ f \in Seq(PlanStep) BY <1>8, <1>10
  <2>2. /\ a \o f \in Seq(PlanStep) /\ Len(a \o f) = Len(a) + Len(f)
        /\ \A i \in 1 .. Len(a) : (a \o f)[i] = a[i]
        /\ \A i \in 1 .. Len(f) : (a \o f)[Len(a) + i] = f[i]
    BY <2>1, Joined
  <2>3. /\ af \in Seq(PlanStep) /\ Len(af) = 1 + 11 * N
        /\ \A i \in 1 .. 1 : af[i] = a[i] /\ \A j \in 1 .. 11 * N : af[1 + j] = f[j]
    BY <1>8, <1>10, <1>12, <2>2
  <2> QED BY <1>8, <2>3
<1>14. PICK afz : afz = af \o z OBVIOUS
<1>15. /\ afz \in Seq(PlanStep) /\ Len(afz) = 2 + 11 * N
       /\ \A i \in 1 .. 1 + 11 * N : afz[i] = af[i]
       /\ afz[2 + 11 * N] = account_closing[1]
  <2>1. af \in Seq(PlanStep) /\ z \in Seq(PlanStep) BY <1>9, <1>13
  <2>2. /\ af \o z \in Seq(PlanStep) /\ Len(af \o z) = Len(af) + Len(z)
        /\ \A i \in 1 .. Len(af) : (af \o z)[i] = af[i]
        /\ \A i \in 1 .. Len(z) : (af \o z)[Len(af) + i] = z[i]
    BY <2>1, Joined
  <2>3. afz \in Seq(PlanStep) /\ Len(afz) = 2 + 11 * N /\ \A i \in 1 .. 1 + 11 * N : afz[i] = af[i]
    BY <1>1, <1>9, <1>13, <1>14, <2>2
  <2>4. 1 \in 1 .. Len(z) /\ Len(af) + 1 = 2 + 11 * N BY <1>1, <1>9, <1>13
  <2>5. afz[Len(af) + 1] = z[1] BY <1>14, <2>2, <2>4
  <2> QED BY <1>9, <2>3, <2>4, <2>5
<1>16. PICK plan : plan = afz \o c OBVIOUS
<1>17. /\ plan \in Seq(PlanStep) /\ Len(plan) = IF keep THEN Told ELSE Told + 10
       /\ \A i \in 1 .. Told : plan[i] = afz[i]
       /\ ~keep => \A i \in 1 .. 10 : plan[Told + i] = c[i]
  <2>1. afz \in Seq(PlanStep) /\ c \in Seq(PlanStep) BY <1>11, <1>15
  <2>2. /\ afz \o c \in Seq(PlanStep) /\ Len(afz \o c) = Len(afz) + Len(c)
        /\ \A i \in 1 .. Len(afz) : (afz \o c)[i] = afz[i]
        /\ \A i \in 1 .. Len(c) : (afz \o c)[Len(afz) + i] = c[i]
    BY <2>1, Joined
  <2>3. Len(afz) = Told /\ Told \in Nat BY <1>1, <1>15 DEF Told
  <2>4. plan \in Seq(PlanStep) /\ \A i \in 1 .. Told : plan[i] = afz[i] BY <1>16, <2>2, <2>3
  <2>5. Len(c) = IF keep THEN 0 ELSE 10 BY <1>11
  <2>6. Len(plan) = Told + Len(c) /\ \A i \in 1 .. Len(c) : plan[Told + i] = c[i]
    BY <1>16, <2>2, <2>3
  <2> QED BY <2>3, <2>4, <2>5, <2>6
<1>18. Plan[keep] = plan BY <1>6, <1>12, <1>14, <1>16
<1>19. plan[1] = account_opening[1]
  <2>1. 1 \in 1 .. Told /\ 1 \in 1 .. 1 + 11 * N BY <1>1 DEF Told
  <2> QED BY <1>13, <1>15, <1>17, <2>1
<1>20. ASSUME NEW p \in 1 .. N, NEW m \in 1 .. 11
       PROVE  plan[StepAt(p, m)] = per_type(TYPES[p])[m]
  <2>1. PICK i : i = 11 * (p - 1) + m OBVIOUS
  <2>2. i \in 1 .. 11 * N /\ 1 + i \in 1 .. 1 + 11 * N /\ 1 + i \in 1 .. Told BY <1>1, <2>1 DEF Told
  <2>3. plan[1 + i] = f[i] BY <1>13, <1>15, <1>17, <2>2
  <2>4. StepAt(p, m) = 1 + i BY <2>1, <1>1 DEF StepAt
  <2> QED BY <1>10, <2>1, <2>3, <2>4
<1>21. plan[Told] = account_closing[1]
  <2>1. Told \in 1 .. Told /\ Told = 2 + 11 * N BY <1>1 DEF Told
  <2> QED BY <1>15, <1>17, <2>1
<1>22. ASSUME ~keep
       PROVE  /\ plan[Told + 1] = trash_step("trash_file", 1)
              /\ plan[Told + 2] = trash_step("untrash_file", 1)
              /\ \A i \in 1 .. 8 : plan[Told + 2 + i] = trash_step("trash_file", i)
  <2>1. \A i \in 1 .. 10 : plan[Told + i] = c[i] BY <1>17, <1>22
  <2>2. plan[Told + 1] = c[1] /\ plan[Told + 2] = c[2] BY <2>1
  <2>3. ASSUME NEW i \in 1 .. 8 PROVE plan[Told + 2 + i] = c[2 + i]
    <3>1. 2 + i \in 1 .. 10 /\ Told + (2 + i) = Told + 2 + i BY <1>1 DEF Told
    <3> QED BY <2>1, <3>1
  <2> QED BY <1>11, <1>22, <2>2, <2>3
<1>23. DOMAIN plan = 1 .. Len(plan) BY <1>17, LenProperties
<1> QED BY <1>17, <1>18, <1>19, <1>20, <1>21, <1>22, <1>23

-----------------------------------------------------------------------------
(* What a step does. *)

DemoTypes ==
  /\ way.keep \in BOOLEAN /\ at \in 0 .. Len(Plan[way.keep]) + 1
  /\ on_drive \in [files : [FilesMade -> {"absent", "there", "trashed"}],
                   shared : SUBSET Kinds, commented : SUBSET Kinds]
  /\ state \in [ids : SUBSET FilesMade, perms : SUBSET Kinds,
                comment_id : Kinds \cup {NoKind}, register : Kinds \cup {NoKind}]
  /\ IsFiniteSet(faults) /\ Cardinality(faults) \in 0 .. MaxFaults

Fit(step) == step.requires \in way.enabled \cup {"none"} /\ ready(step) /\ possible(step)
Fault(step, outcome) == [tool |-> step.tool, file |-> about(step), at |-> at, outcome |-> outcome]

\* A step that does not fit is passed over; one that fits is carried out and told, or
\* carried out and not told, or not carried out.
LEMMA StepTaken ==
  ASSUME _one, NEW step, step = Current
  PROVE  /\ at \in DOMAIN Plan[way.keep] /\ feedback.at = "not asked"
         /\ at' = at + 1 /\ way' = way /\ feedback' = feedback
         /\ \/ ~Fit(step) /\ on_drive' = on_drive /\ state' = state /\ faults' = faults
            \/ Fit(step) /\ on_drive' = carried_out(step) /\ state' = captures(step) /\ faults' = faults
            \/ /\ Fit(step) /\ state' = state /\ on_drive' \in {on_drive, carried_out(step)}
               /\ Cardinality(faults) < MaxFaults
               /\ \E outcome : faults' = faults \cup {Fault(step, outcome)}
BY DEF _one, Carried, Blame, Fit, Fault

LEMMA Effects ==
  ASSUME DemoTypes, NEW step
  PROVE  LET d == carried_out(step)
             s == captures(step)
             k == step.file.of
         IN  /\ d.shared = IF step.tool = "share_file" THEN on_drive.shared \cup {k}
                           ELSE IF step.tool = "unshare_file" THEN on_drive.shared \ {k}
                           ELSE on_drive.shared
             /\ d.commented = IF step.tool = "create_comment" THEN on_drive.commented \cup {k}
                              ELSE IF step.tool = "delete_comment" THEN on_drive.commented \ {k}
                              ELSE on_drive.commented
             /\ d.files = IF step.tool \in {"create_file", "copy_file"}
                            THEN [on_drive.files EXCEPT ![step.file] = "there"]
                          ELSE IF step.tool = "trash_file"
                            THEN [on_drive.files EXCEPT ![about(step)] = "trashed"]
                          ELSE IF step.tool = "untrash_file"
                            THEN [on_drive.files EXCEPT ![about(step)] = "there"]
                          ELSE on_drive.files
             /\ d = [files |-> d.files, shared |-> d.shared, commented |-> d.commented]
             /\ s.ids = IF step.tool \in {"create_file", "copy_file"} THEN state.ids \cup {step.file}
                        ELSE state.ids
             /\ s.perms = IF step.tool = "share_file" THEN state.perms \cup {k} ELSE state.perms
             /\ s.comment_id = IF step.tool = "create_comment" THEN k ELSE state.comment_id
             /\ s.register = IF step.tool = "export_comments" THEN k ELSE state.register
             /\ s = [ids |-> s.ids, perms |-> s.perms, comment_id |-> s.comment_id,
                     register |-> s.register]
<1>1. PICK k : k = step.file.of OBVIOUS
<1>2. PICK how : how = step.tool OBVIOUS
<1>3. PICK d \in [files : [FilesMade -> {"absent", "there", "trashed"}],
                  shared : SUBSET Kinds, commented : SUBSET Kinds] : d = on_drive
  BY DEF DemoTypes
<1>4. PICK s \in [ids : SUBSET FilesMade, perms : SUBSET Kinds,
                  comment_id : Kinds \cup {NoKind}, register : Kinds \cup {NoKind}] : s = state
  BY DEF DemoTypes
<1>5. carried_out(step) =
        CASE how \in {"create_file", "copy_file"} -> [d EXCEPT !.files[step.file] = "there"]
          [] how = "trash_file" -> [d EXCEPT !.files[about(step)] = "trashed"]
          [] how = "untrash_file" -> [d EXCEPT !.files[about(step)] = "there"]
          [] how = "share_file" -> [d EXCEPT !.shared = @ \cup {k}]
          [] how = "unshare_file" -> [d EXCEPT !.shared = @ \ {k}]
          [] how = "create_comment" -> [d EXCEPT !.commented = @ \cup {k}]
          [] how = "delete_comment" -> [d EXCEPT !.commented = @ \ {k}]
          [] OTHER -> d
  BY <1>1, <1>2, <1>3, Zenon DEF carried_out
<1>6. captures(step) =
        CASE how \in {"create_file", "copy_file"} -> [s EXCEPT !.ids = @ \cup {step.file}]
          [] how = "share_file" -> [s EXCEPT !.perms = @ \cup {k}]
          [] how = "create_comment" -> [s EXCEPT !.comment_id = k]
          [] how = "export_comments" -> [s EXCEPT !.register = k]
          [] OTHER -> s
  BY <1>1, <1>2, <1>4, Zenon DEF captures
<1>7. PICK d2 : d2 = carried_out(step) OBVIOUS
<1>8. PICK s2 : s2 = captures(step) OBVIOUS
<1>9. /\ d2.shared = IF how = "share_file" THEN d.shared \cup {k}
                     ELSE IF how = "unshare_file" THEN d.shared \ {k} ELSE d.shared
      /\ d2.commented = IF how = "create_comment" THEN d.commented \cup {k}
                        ELSE IF how = "delete_comment" THEN d.commented \ {k} ELSE d.commented
      /\ d2.files = IF how \in {"create_file", "copy_file"} THEN [d.files EXCEPT ![step.file] = "there"]
                    ELSE IF how = "trash_file" THEN [d.files EXCEPT ![about(step)] = "trashed"]
                    ELSE IF how = "untrash_file" THEN [d.files EXCEPT ![about(step)] = "there"]
                    ELSE d.files
      /\ d2 = [files |-> d2.files, shared |-> d2.shared, commented |-> d2.commented]
  <2>1. CASE how \in {"create_file", "copy_file"} BY <1>5, <1>7, <2>1
  <2>2. CASE how = "trash_file" BY <1>5, <1>7, <2>2
  <2>3. CASE how = "untrash_file" BY <1>5, <1>7, <2>3
  <2>4. CASE how = "share_file" BY <1>5, <1>7, <2>4
  <2>5. CASE how = "unshare_file" BY <1>5, <1>7, <2>5
  <2>6. CASE how = "create_comment" BY <1>5, <1>7, <2>6
  <2>7. CASE how = "delete_comment" BY <1>5, <1>7, <2>7
  <2>8. CASE how \notin {"create_file", "copy_file", "trash_file", "untrash_file", "share_file",
                          "unshare_file", "create_comment", "delete_comment"}
    <3>1. /\ how \notin {"create_file", "copy_file"} /\ how # "trash_file" /\ how # "untrash_file"
          /\ how # "share_file" /\ how # "unshare_file"
          /\ how # "create_comment" /\ how # "delete_comment"
      BY <2>8
    <3>2. d2 = d BY <1>5, <1>7, <3>1
    <3>3. d = [files |-> d.files, shared |-> d.shared, commented |-> d.commented] BY <1>3
    <3> QED BY <3>1, <3>2, <3>3
  <2> QED BY <2>1, <2>2, <2>3, <2>4, <2>5, <2>6, <2>7, <2>8
<1>10. /\ s2.ids = IF how \in {"create_file", "copy_file"} THEN s.ids \cup {step.file} ELSE s.ids
       /\ s2.perms = IF how = "share_file" THEN s.perms \cup {k} ELSE s.perms
       /\ s2.comment_id = IF how = "create_comment" THEN k ELSE s.comment_id
       /\ s2.register = IF how = "export_comments" THEN k ELSE s.register
       /\ s2 = [ids |-> s2.ids, perms |-> s2.perms, comment_id |-> s2.comment_id, register |-> s2.register]
  <2>1. CASE how \in {"create_file", "copy_file"} BY <1>6, <1>8, <2>1
  <2>2. CASE how = "share_file" BY <1>6, <1>8, <2>2
  <2>3. CASE how = "create_comment" BY <1>6, <1>8, <2>3
  <2>4. CASE how = "export_comments" BY <1>6, <1>8, <2>4
  <2>5. CASE how \notin {"create_file", "copy_file", "share_file", "create_comment", "export_comments"}
    BY <1>6, <1>8, <2>5
  <2> QED BY <2>1, <2>2, <2>3, <2>4, <2>5
<1> QED BY <1>1, <1>2, <1>3, <1>4, <1>7, <1>8, <1>9, <1>10, Zenon

LEMMA StepOfPlan ==
  ASSUME DemoTypes, at \in DOMAIN Plan[way.keep]
  PROVE  \/ at = 1 /\ Current = account_opening[1]
         \/ \E p \in 1 .. N : \E m \in 1 .. 11 : at = StepAt(p, m) /\ Current = per_type(TYPES[p])[m]
         \/ at = Told /\ Current = account_closing[1]
         \/ ~way.keep /\ at = Told + 1 /\ Current = trash_step("trash_file", 1)
         \/ ~way.keep /\ at = Told + 2 /\ Current = trash_step("untrash_file", 1)
         \/ ~way.keep /\ \E i \in 1 .. 8 : at = Told + 2 + i /\ Current = trash_step("trash_file", i)
<1>1. N \in Nat BY KindsInOrder
<1>2. PICK keep \in BOOLEAN : keep = way.keep BY DEF DemoTypes
<1>3. /\ Len(Plan[keep]) = IF keep THEN Told ELSE Told + 10
      /\ DOMAIN Plan[keep] = 1 .. Len(Plan[keep])
      /\ Plan[keep][1] = account_opening[1]
      /\ \A p \in 1 .. N : \A m \in 1 .. 11 : Plan[keep][StepAt(p, m)] = per_type(TYPES[p])[m]
      /\ Plan[keep][Told] = account_closing[1]
      /\ ~keep => /\ Plan[keep][Told + 1] = trash_step("trash_file", 1)
                  /\ Plan[keep][Told + 2] = trash_step("untrash_file", 1)
                  /\ \A i \in 1 .. 8 : Plan[keep][Told + 2 + i] = trash_step("trash_file", i)
  BY PlanSteps
<1>4. Current = Plan[keep][at] BY <1>2 DEF Current
<1>5. at \in 1 .. Len(Plan[keep]) BY <1>2, <1>3
<1>6. Told \in Nat /\ Told = 2 + 11 * N BY <1>1 DEF Told
<1>7. CASE at = 1 BY <1>3, <1>4, <1>7
<1>8. CASE at \in 2 .. Told - 1
  <2>1. PICK n : n = at - 2 OBVIOUS
  <2>6. PICK c : c = 11 * N OBVIOUS
  <2>7. c \in Nat /\ Told = 2 + c BY <1>1, <1>6, <2>6
  <2>8. at \in 2 .. 1 + c /\ at \in Nat BY <1>8, <2>7
  <2>9. n \in 0 .. c - 1 BY <2>1, <2>7, <2>8
  <2>2. n \in 0 .. 11 * N - 1 BY <2>6, <2>9
  <2>3. PICK p, m : p = n \div 11 + 1 /\ m = (n % 11) + 1 OBVIOUS
  <2>4. p \in 1 .. N /\ m \in 1 .. 11 /\ n = 11 * (p - 1) + (m - 1) BY <1>1, <2>2, <2>3
  <2>5. at = StepAt(p, m) BY <1>8, <2>1, <2>4 DEF StepAt
  <2> QED BY <1>3, <1>4, <2>4, <2>5
<1>9. CASE at = Told BY <1>3, <1>4, <1>9
<1>10. CASE at > Told
  <2>1. ~keep BY <1>3, <1>5, <1>6, <1>10
  <2>2. at \in Told + 1 .. Told + 10 BY <1>3, <1>5, <1>6, <1>10, <2>1
  <2>3. CASE at = Told + 1 BY <1>2, <1>3, <1>4, <2>1, <2>3
  <2>4. CASE at = Told + 2 BY <1>2, <1>3, <1>4, <2>1, <2>4
  <2>5. CASE at \in Told + 3 .. Told + 10
    <3>1. PICK i : i = at - (Told + 2) OBVIOUS
    <3>2. i \in 1 .. 8 /\ at = Told + 2 + i BY <1>6, <2>5, <3>1
    <3> QED BY <1>2, <1>3, <1>4, <2>1, <3>2
  <2> QED BY <1>6, <2>2, <2>3, <2>4, <2>5
<1> QED BY <1>5, <1>6, <1>7, <1>8, <1>9, <1>10

\* What the plan says of a step, by the step's tool.
LEMMA StepsByTool ==
  ASSUME DemoTypes, at \in DOMAIN Plan[way.keep], NEW step, step = Current
  PROVE  /\ step.tool \in {"create_file", "copy_file"} => step.file \in FilesMade /\ step.index = 0
         /\ step.tool = "create_comment" => step.file.of \in Kinds
         /\ step.tool \in {"export_comments", "apply_comment_actions", "share_file", "unshare_file"} =>
              \E p \in 1 .. N :
                /\ step.file = File(TYPES[p], FALSE) /\ step.index = 0
                /\ step.tool = "export_comments" => at = StepAt(p, 6)
                /\ step.tool = "apply_comment_actions" => at = StepAt(p, 7)
                /\ step.tool = "share_file" => at = StepAt(p, 9) /\ step.requires = "file.share"
                /\ step.tool = "unshare_file" => at = StepAt(p, 11)
         /\ step.tool \in {"trash_file", "untrash_file"} =>
              ~way.keep /\ step.index \in 1 .. 8 /\ step.requires = "file.trash"
         /\ step.tool = "trash_file" =>
              (at = Told + 1 /\ step.index = 1) \/ at = Told + 2 + step.index
         /\ step.tool = "untrash_file" => at = Told + 2
<1> DEFINE Says(s) ==
      /\ s.tool \in {"create_file", "copy_file"} => s.file \in FilesMade /\ s.index = 0
      /\ s.tool = "create_comment" => s.file.of \in Kinds
      /\ s.tool \in {"export_comments", "apply_comment_actions", "share_file", "unshare_file"} =>
           \E p \in 1 .. N :
             /\ s.file = File(TYPES[p], FALSE) /\ s.index = 0
             /\ s.tool = "export_comments" => at = StepAt(p, 6)
             /\ s.tool = "apply_comment_actions" => at = StepAt(p, 7)
             /\ s.tool = "share_file" => at = StepAt(p, 9) /\ s.requires = "file.share"
             /\ s.tool = "unshare_file" => at = StepAt(p, 11)
      /\ s.tool \in {"trash_file", "untrash_file"} =>
           ~way.keep /\ s.index \in 1 .. 8 /\ s.requires = "file.trash"
      /\ s.tool = "trash_file" => (at = Told + 1 /\ s.index = 1) \/ at = Told + 2 + s.index
      /\ s.tool = "untrash_file" => at = Told + 2
<1>0. SUFFICES Says(step) OBVIOUS
<1>1. CASE at = 1 /\ step = account_opening[1]
  <2>1. step.tool = "create_file" /\ step.file = Folder /\ step.index = 0
    BY <1>1 DEF account_opening, Plain
  <2>2. Folder \in FilesMade BY DEF FilesMade
  <2> QED BY <2>1, <2>2
<1>2. ASSUME NEW p \in 1 .. N, NEW m \in 1 .. 11, at = StepAt(p, m), step = per_type(TYPES[p])[m]
      PROVE  Says(step)
  <2>1. PICK k \in Kinds : k = TYPES[p] BY KindsInOrder
  <2>2. PICK s : s = per_type(k) OBVIOUS
  <2>3. /\ s[1] = Plain("create_file", File(k, FALSE), "file.create", FALSE)
        /\ s[2].tool = "edit" /\ s[2].file = File(k, FALSE) /\ s[2].index = 0
        /\ s[3] = Plain("create_comment", File(k, FALSE), "comment.create", FALSE)
        /\ s[4] = Plain("change_comment", File(k, FALSE), "comment.reply", FALSE)
        /\ s[5] = Plain("delete_comment", File(k, FALSE), "comment.delete", FALSE)
        /\ s[6] = Plain("export_comments", File(k, FALSE), "none", TRUE)
        /\ s[7] = Plain("apply_comment_actions", File(k, FALSE), "comment.reply", TRUE)
        /\ s[8] = Plain("copy_file", File(k, TRUE), "file.create", FALSE)
        /\ s[9] = Plain("share_file", File(k, FALSE), "file.share", TRUE)
        /\ s[10] = Plain("update_file_permission", File(k, FALSE), "file.share", TRUE)
        /\ s[11] = Plain("unshare_file", File(k, FALSE), "file.share", TRUE)
    BY <2>2, ElevenSteps
  <2>4. step = s[m] BY <1>2, <2>1, <2>2
  <2>5. File(k, FALSE) \in FilesMade /\ File(k, TRUE) \in FilesMade
    <3>1. ASSUME NEW c \in BOOLEAN PROVE File(k, c) \in FilesMade BY DEF FilesMade
    <3> QED BY <3>1
  <2>6. CASE m = 1
    <3>1. PICK e : e = Plain("create_file", File(k, FALSE), "file.create", FALSE) OBVIOUS
    <3>2. e.tool = "create_file" /\ e.file = File(k, FALSE) /\ e.index = 0 BY <3>1 DEF Plain
    <3>3. step = e BY <2>3, <2>4, <2>6, <3>1, Zenon
    <3> QED BY <2>5, <2>6, <3>2, <3>3
  <2>11. CASE m = 8
    <3>1. PICK e : e = Plain("copy_file", File(k, TRUE), "file.create", FALSE) OBVIOUS
    <3>2. e.tool = "copy_file" /\ e.file = File(k, TRUE) /\ e.index = 0 BY <3>1 DEF Plain
    <3>3. step = e BY <2>3, <2>4, <2>11, <3>1, Zenon
    <3> QED BY <2>5, <2>11, <3>2, <3>3
  <2>7. CASE m = 3 BY <2>3, <2>4, <2>7 DEF Plain, File
  <2>8. CASE m \in {2, 4, 5, 10}
    <3>1. step.tool \in {"edit", "change_comment", "delete_comment", "update_file_permission"}
      <4>1. CASE m = 2 BY <2>3, <2>4, <4>1
      <4>2. CASE m = 4 BY <2>3, <2>4, <4>2 DEF Plain
      <4>3. CASE m = 5 BY <2>3, <2>4, <4>3 DEF Plain
      <4>4. CASE m = 10 BY <2>3, <2>4, <4>4 DEF Plain
      <4> QED BY <2>8, <4>1, <4>2, <4>3, <4>4
    <3> QED BY <3>1
  <2>12. PICK f : f = File(k, FALSE) OBVIOUS
  <2>9. CASE m \in {6, 7, 9, 11}
    <3>1. /\ m = 6 => step.tool = "export_comments"
          /\ m = 7 => step.tool = "apply_comment_actions"
          /\ m = 9 => step.tool = "share_file" /\ step.requires = "file.share"
          /\ m = 11 => step.tool = "unshare_file"
          /\ step.file = f /\ step.index = 0
      <4>1. CASE m = 6
        <5>1. PICK e : e = Plain("export_comments", File(k, FALSE), "none", TRUE) OBVIOUS
        <5>2. e.tool = "export_comments" /\ e.file = f /\ e.index = 0 BY <2>12, <5>1 DEF Plain
        <5>3. step = e BY <2>3, <2>4, <4>1, <5>1, Zenon
        <5> QED BY <4>1, <5>2, <5>3
      <4>2. CASE m = 7
        <5>1. PICK e : e = Plain("apply_comment_actions", File(k, FALSE), "comment.reply", TRUE) OBVIOUS
        <5>2. e.tool = "apply_comment_actions" /\ e.file = f /\ e.index = 0 BY <2>12, <5>1 DEF Plain
        <5>3. step = e BY <2>3, <2>4, <4>2, <5>1, Zenon
        <5> QED BY <4>2, <5>2, <5>3
      <4>3. CASE m = 9
        <5>1. PICK e : e = Plain("share_file", File(k, FALSE), "file.share", TRUE) OBVIOUS
        <5>2. e.tool = "share_file" /\ e.file = f /\ e.index = 0 /\ e.requires = "file.share" BY <2>12, <5>1 DEF Plain
        <5>3. step = e BY <2>3, <2>4, <4>3, <5>1, Zenon
        <5> QED BY <4>3, <5>2, <5>3
      <4>4. CASE m = 11
        <5>1. PICK e : e = Plain("unshare_file", File(k, FALSE), "file.share", TRUE) OBVIOUS
        <5>2. e.tool = "unshare_file" /\ e.file = f /\ e.index = 0 BY <2>12, <5>1 DEF Plain
        <5>3. step = e BY <2>3, <2>4, <4>4, <5>1, Zenon
        <5> QED BY <4>4, <5>2, <5>3
      <4> QED BY <2>9, <4>1, <4>2, <4>3, <4>4
    <3>2. f = File(TYPES[p], FALSE) BY <2>1, <2>12, Zenon
    <3> HIDE DEF Says
    <3>3. /\ step.tool = "export_comments" => at = StepAt(p, 6)
          /\ step.tool = "apply_comment_actions" => at = StepAt(p, 7)
          /\ step.tool = "share_file" => at = StepAt(p, 9) /\ step.requires = "file.share"
          /\ step.tool = "unshare_file" => at = StepAt(p, 11)
          /\ step.tool \in {"export_comments", "apply_comment_actions", "share_file", "unshare_file"}
      BY <1>2, <2>9, <3>1
    <3>4. step.file = File(TYPES[p], FALSE) /\ step.index = 0 BY <3>1, <3>2, Zenon
    <3>5. step.tool \notin {"create_file", "copy_file", "create_comment", "trash_file", "untrash_file"}
      BY <3>3
    <3> QED BY <3>3, <3>4, <3>5, Zenon DEF Says
  <2>10. m \in {1, 8} \/ m = 3 \/ m \in {2, 4, 5, 10} \/ m \in {6, 7, 9, 11} OBVIOUS
  <2> HIDE DEF Says
  <2> QED BY <2>6, <2>7, <2>8, <2>9, <2>10, <2>11
<1>3. CASE at = Told /\ step = account_closing[1]
  <2>1. step.tool = "search_files" BY <1>3 DEF account_closing, Plain
  <2> QED BY <2>1
<1>4. CASE ~way.keep /\ at = Told + 1 /\ step = trash_step("trash_file", 1)
  <2>1. step.tool = "trash_file" /\ step.requires = "file.trash" /\ step.index = 1 BY <1>4, TrashSteps
  <2>2. step.index \in 1 .. 8 BY <2>1
  <2> QED BY <1>4, <2>1, <2>2
<1>5. CASE ~way.keep /\ at = Told + 2 /\ step = trash_step("untrash_file", 1)
  <2>1. step.tool = "untrash_file" /\ step.requires = "file.trash" /\ step.index = 1 BY <1>5, TrashSteps
  <2>2. step.index \in 1 .. 8 BY <2>1
  <2> QED BY <1>5, <2>1, <2>2
<1>6. CASE ~way.keep /\ \E i \in 1 .. 8 : at = Told + 2 + i /\ step = trash_step("trash_file", i)
  <2>1. PICK i \in 1 .. 8 : at = Told + 2 + i /\ step = trash_step("trash_file", i) BY <1>6
  <2>2. step.tool = "trash_file" /\ step.requires = "file.trash" /\ step.index = i BY <2>1, TrashSteps
  <2> QED BY <1>6, <2>1, <2>2
<1> HIDE DEF Says
<1> QED BY <1>1, <1>2, <1>3, <1>4, <1>5, <1>6, StepOfPlan

-----------------------------------------------------------------------------
(* What there is to tidy away. *)

\* Everything the plan makes, each once over, and the folder only as the last.
LEMMA AllFiles ==
  LET all == Originals \o Copies \o <<Folder>>
  IN  /\ all \in Seq(FilesMade) /\ Len(all) = 2 * N + 1 /\ Len(all) \in 1 .. 8
      /\ \A i \in 1 .. Len(all) : all[i] = Folder => i = Len(all)
      /\ \A f \in FilesMade : \E i \in 1 .. Len(all) : all[i] = f
<1>1. N \in Nat /\ 2 * N + 1 <= 8 /\ DOMAIN TYPES = 1 .. N /\ \A p \in 1 .. N : TYPES[p] \in Kinds
  BY KindsInOrder
<1>2. ASSUME NEW k \in Kinds, NEW c \in BOOLEAN PROVE File(k, c) \in FilesMade /\ File(k, c) # Folder
  <2>1. File(k, c) \in FilesMade BY DEF FilesMade
  <2>2. k # NoKind BY KindsInOrder
  <2>3. File(k, c).of = k /\ Folder.of = NoKind BY DEF File, Folder
  <2> QED BY <2>1, <2>2, <2>3
<1>3. PICK a : a = Originals OBVIOUS
<1>4. PICK b : b = Copies OBVIOUS
<1>5. ASSUME NEW p \in 1 .. N
      PROVE  /\ a[p] = File(TYPES[p], FALSE) /\ a[p] \in FilesMade /\ a[p] # Folder
             /\ b[p] = File(TYPES[p], TRUE) /\ b[p] \in FilesMade /\ b[p] # Folder
  <2>1. a[p] = File(TYPES[p], FALSE) BY <1>1, <1>3, Zenon DEF Originals
  <2>2. b[p] = File(TYPES[p], TRUE) BY <1>1, <1>4, Zenon DEF Copies
  <2>3. TYPES[p] \in Kinds BY <1>1
  <2> QED BY <1>2, <2>1, <2>2, <2>3, Zenon
<1>6. a \in Seq(FilesMade) /\ Len(a) = N
  <2>1. a = [i \in 1 .. N |-> a[i]]
    <3>1. a = [i \in 1 .. N |-> File(TYPES[i], FALSE)] BY <1>1, <1>3, Zenon DEF Originals
    <3> QED BY <3>1, Zenon
  <2>2. a \in [1 .. N -> FilesMade] BY <1>5, <2>1
  <2> QED BY <1>1, <2>2
<1>7. b \in Seq(FilesMade) /\ Len(b) = N
  <2>1. b = [i \in 1 .. N |-> b[i]]
    <3>1. b = [i \in 1 .. N |-> File(TYPES[i], TRUE)] BY <1>1, <1>4, Zenon DEF Copies
    <3> QED BY <3>1, Zenon
  <2>2. b \in [1 .. N -> FilesMade] BY <1>5, <2>1
  <2> QED BY <1>1, <2>2
<1>8. PICK ab : ab = a \o b OBVIOUS
<1>9. /\ ab \in Seq(FilesMade) /\ Len(ab) = 2 * N
      /\ \A i \in 1 .. N : ab[i] = a[i] /\ ab[N + i] = b[i]
  <2>1. /\ a \o b \in Seq(FilesMade) /\ Len(a \o b) = Len(a) + Len(b)
        /\ \A i \in 1 .. Len(a) : (a \o b)[i] = a[i]
        /\ \A i \in 1 .. Len(b) : (a \o b)[Len(a) + i] = b[i]
    BY <1>6, <1>7, Joined
  <2> QED BY <1>1, <1>6, <1>7, <1>8, <2>1
<1>10. PICK z : z = <<Folder>> OBVIOUS
<1>11. z \in Seq(FilesMade) /\ Len(z) = 1 /\ z[1] = Folder
  <2>1. Folder \in FilesMade BY DEF FilesMade
  <2> QED BY <1>10, <2>1, OfOne
<1>12. PICK all : all = ab \o z OBVIOUS
<1>13. /\ all \in Seq(FilesMade) /\ Len(all) = 2 * N + 1
       /\ \A i \in 1 .. 2 * N : all[i] = ab[i]
       /\ all[2 * N + 1] = Folder
  <2>1. /\ ab \o z \in Seq(FilesMade) /\ Len(ab \o z) = Len(ab) + Len(z)
        /\ \A i \in 1 .. Len(ab) : (ab \o z)[i] = ab[i]
        /\ \A i \in 1 .. Len(z) : (ab \o z)[Len(ab) + i] = z[i]
    <3>1. ab \in Seq(FilesMade) /\ z \in Seq(FilesMade) BY <1>9, <1>11
    <3> QED BY <3>1, Joined
  <2>2. 1 \in 1 .. Len(z) BY <1>11
  <2>3. all[Len(ab) + 1] = Folder BY <1>11, <1>12, <2>1, <2>2
  <2> QED BY <1>1, <1>9, <1>11, <1>12, <2>1, <2>3
<1>14. ASSUME NEW i \in 1 .. 2 * N PROVE all[i] # Folder
  <2>1. CASE i <= N
    <3>1. i \in 1 .. N BY <1>1, <2>1
    <3> QED BY <1>5, <1>9, <1>13, <3>1
  <2>2. CASE ~(i <= N)
    <3>1. PICK j : j = i - N OBVIOUS
    <3>2. j \in 1 .. N /\ i = N + j BY <1>1, <2>2, <3>1
    <3> QED BY <1>5, <1>9, <1>13, <3>2
  <2> QED BY <2>1, <2>2
<1>15. ASSUME NEW f \in FilesMade PROVE \E i \in 1 .. 2 * N + 1 : all[i] = f
  <2>1. CASE f = Folder
    <3>1. 2 * N + 1 \in 1 .. 2 * N + 1 BY <1>1
    <3> QED BY <1>13, <2>1, <3>1
  <2>2. CASE f # Folder
    <3>1. PICK k \in Kinds, c \in BOOLEAN : f = File(k, c) BY <2>2 DEF FilesMade
    <3>2. PICK p \in 1 .. N : TYPES[p] = k BY KindsInOrder
    <3>3. CASE c = FALSE
      <4>1. all[p] = f
        <5>1. f = a[p] BY <1>5, <3>1, <3>2, <3>3, Zenon
        <5>2. p \in 1 .. 2 * N BY <1>1
        <5> QED BY <1>9, <1>13, <5>1, <5>2
      <4>2. p \in 1 .. 2 * N + 1 BY <1>1
      <4> QED BY <4>1, <4>2
    <3>4. CASE c = TRUE
      <4>1. f = b[p] BY <1>5, <3>1, <3>2, <3>4, Zenon
      <4>2. N + p \in 1 .. 2 * N /\ N + p \in 1 .. 2 * N + 1 BY <1>1
      <4>3. all[N + p] = f BY <1>9, <1>13, <4>1, <4>2
      <4> QED BY <4>2, <4>3
    <3> QED BY <3>3, <3>4, Zenon
  <2> QED BY <2>1, <2>2
<1>16. Len(all) \in 1 .. 8 BY <1>1, <1>13
<1>17. \A i \in 1 .. Len(all) : all[i] = Folder => i = Len(all)
  <2>1. \A i \in 1 .. Len(all) : i # Len(all) => i \in 1 .. 2 * N BY <1>1, <1>13
  <2> QED BY <1>14, <2>1
<1>18. \A f \in FilesMade : \E i \in 1 .. Len(all) : all[i] = f BY <1>13, <1>15
<1> QED BY <1>3, <1>4, <1>8, <1>10, <1>12, <1>13, <1>16, <1>17, <1>18

\* All that is known, and nothing else, has a place among the eight, the folder the last.
LEMMA Targets ==
  ASSUME DemoTypes
  PROVE  LET t == targets(state)
         IN  /\ Len(t) \in 0 .. 8
             /\ \A j \in 1 .. Len(t) : t[j] \in state.ids /\ t[j] \in FilesMade
             /\ \A f \in state.ids : \E j \in 1 .. Len(t) : t[j] = f
             /\ \A j \in 1 .. Len(t) : t[j] = Folder => j = Len(t)
<1>1. PICK all : all = Originals \o Copies \o <<Folder>> OBVIOUS
<1>2. /\ all \in Seq(FilesMade) /\ Len(all) \in 1 .. 8
      /\ \A i \in 1 .. Len(all) : all[i] = Folder => i = Len(all)
      /\ \A f \in FilesMade : \E i \in 1 .. Len(all) : all[i] = f
  BY <1>1, AllFiles
<1>3. PICK known : known = state.ids OBVIOUS
<1>4. known \subseteq FilesMade BY <1>3 DEF DemoTypes
<1>5. PICK t : t = FlattenSeq(Hits(all, known)) OBVIOUS
<1>6. targets(state) = t BY <1>1, <1>3, <1>5, Zenon DEF targets, Known, Hits
<1>7. t \in Seq(FilesMade) /\ Len(t) <= Len(all) /\ \E place : PlacesOf(t, all, known, place)
  BY <1>2, <1>5, HitsInOrder
<1>8. PICK place : PlacesOf(t, all, known, place) BY <1>7
<1>9. Len(t) \in 0 .. 8
  <2>1. t \in Seq(FilesMade) BY <1>7
  <2>2. Len(t) \in Nat BY <2>1, LenProperties
  <2>3. Len(t) <= Len(all) BY <1>7
  <2>4. Len(all) \in 1 .. 8 BY <1>2
  <2>5. PICK n \in 1 .. 8 : n = Len(all) BY <2>4
  <2>6. PICK m \in Nat : m = Len(t) BY <2>2
  <2>7. m <= n BY <2>3, <2>5, <2>6
  <2>8. m \in 0 .. 8 BY <2>7
  <2> QED BY <2>6, <2>8
<1>10. \A j \in 1 .. Len(t) : t[j] \in known BY <1>8 DEF PlacesOf
<1>11. ASSUME NEW f \in known PROVE \E j \in 1 .. Len(t) : t[j] = f
  <2>1. PICK i \in 1 .. Len(all) : all[i] = f BY <1>2, <1>4
  <2>2. PICK j \in 1 .. Len(t) : place[j] = i BY <1>8, <2>1 DEF PlacesOf
  <2> QED BY <1>8, <2>1, <2>2 DEF PlacesOf
<1>12. ASSUME NEW j \in 1 .. Len(t), t[j] = Folder PROVE j = Len(t)
  <2>1. place[j] \in 1 .. Len(all) /\ all[place[j]] = Folder BY <1>8, <1>12 DEF PlacesOf
  <2>2. place[j] = Len(all) BY <1>2, <2>1
  <2>3. Len(t) \in 1 .. Len(t) BY <1>9
  <2>4. place[Len(t)] \in 1 .. Len(all) BY <1>8, <2>3 DEF PlacesOf
  <2>5. j < Len(t) => place[j] < place[Len(t)] BY <1>8, <2>3 DEF PlacesOf
  <2> QED BY <1>2, <1>9, <2>2, <2>4, <2>5
<1> QED BY <1>3, <1>4, <1>6, <1>9, <1>10, <1>11, <1>12

-----------------------------------------------------------------------------
(* The invariant. *)

\* What is done to others was asked for.
Consented ==
  /\ feedback = [at |-> feedback.at, said |-> feedback.said]
  /\ at = 0 => on_drive.shared = {}
  /\ on_drive.shared # {} => way.share_with
  /\ way.share_with => ~(way.auto /\ way.from_env)
  /\ feedback.at = "shown" => ~way.auto /\ RunOver
  /\ PostedWithConsent

\* The register that is about to be applied is the file's.
RegisterKept ==
  \A p \in 1 .. N : at = StepAt(p, 7) /\ File(TYPES[p], FALSE) \in state.ids =>
    state.register = TYPES[p] \/ Faulty({"export_comments"}, File(TYPES[p], FALSE))

\* A file that is shared is about to be taken back.
TakenBackSoon(k) ==
  \E p \in 1 .. N :
    /\ TYPES[p] = k /\ (at = StepAt(p, 10) \/ at = StepAt(p, 11))
    /\ k \in state.perms /\ File(k, FALSE) \in state.ids /\ "file.share" \in way.enabled
GrantsKept ==
  \A k \in on_drive.shared : Faulty({"share_file", "unshare_file"}, File(k, FALSE)) \/ TakenBackSoon(k)

\* What there is is known, unless the answer that told of it was lost.
AllAccounted ==
  \A f \in FilesMade :
    /\ on_drive.files[f] = "there" => f \in state.ids \/ Faulty({"create_file", "copy_file"}, f)
    /\ f \in state.ids => on_drive.files[f] # "absent"

\* The known files are trashed in their order.
Tidied ==
  ~way.keep /\ "file.trash" \in way.enabled =>
    \A j \in 1 .. Len(targets(state)) : Told + 2 + j < at =>
      \/ on_drive.files[targets(state)[j]] = "trashed"
      \/ Faulty({"trash_file"}, targets(state)[j])

DemoInv == DemoTypes /\ Consented /\ RegisterKept /\ GrantsKept /\ AllAccounted /\ Tidied

\* What a step of the plan leaves when it fits, and what it has done when it does not.
LEMMA Done ==
  ASSUME _one
  PROVE  /\ faults \subseteq faults'
         /\ \/ ~Fit(Current) /\ on_drive' = on_drive /\ state' = state
            \/ Fit(Current) /\ on_drive' = carried_out(Current) /\ state' = captures(Current)
            \/ /\ Fit(Current) /\ state' = state /\ on_drive' \in {on_drive, carried_out(Current)}
               /\ \E x \in faults' : x.tool = Current.tool /\ x.file = about(Current)
<1>1. PICK step : step = Current OBVIOUS
<1>2. \/ ~Fit(step) /\ on_drive' = on_drive /\ state' = state /\ faults' = faults
      \/ Fit(step) /\ on_drive' = carried_out(step) /\ state' = captures(step) /\ faults' = faults
      \/ /\ Fit(step) /\ state' = state /\ on_drive' \in {on_drive, carried_out(step)}
         /\ Cardinality(faults) < MaxFaults
         /\ \E outcome : faults' = faults \cup {Fault(step, outcome)}
  BY <1>1, StepTaken
<1>3. ASSUME NEW outcome
      PROVE  Fault(step, outcome).tool = step.tool /\ Fault(step, outcome).file = about(step)
  BY DEF Fault
<1> QED BY <1>1, <1>2, <1>3

\* A step of the program is one of the plan, the start, or leaves all but the question.
LEMMA Steps ==
  ASSUME [DemoNext]_demoVars
  PROVE  \/ _one
         \/ /\ at = 0 /\ at' = 1 /\ way'.keep \in BOOLEAN
            /\ way'.share_with => ~(way'.auto /\ way'.from_env)
            /\ UNCHANGED <<on_drive, state, faults, feedback>>
         \/ UNCHANGED <<way, at, on_drive, state, faults>>
<1>1. CASE DemoNext
  <2>1. ASSUME NEW auto \in BOOLEAN, NEW keep \in BOOLEAN, NEW from \in {"nowhere", "environment", "--share"},
               NEW enabled \in Postures, at = 0, main(auto, keep, from, enabled)
        PROVE  /\ at = 0 /\ at' = 1 /\ way'.keep \in BOOLEAN
               /\ way'.share_with => ~(way'.auto /\ way'.from_env)
               /\ UNCHANGED <<on_drive, state, faults, feedback>>
    <3>1. PICK e : e = (from = "environment") OBVIOUS
    <3>2. PICK s : s = shared_with(auto, e, from # "nowhere") OBVIOUS
    <3>3. /\ at' = 1 /\ UNCHANGED <<on_drive, state, faults, feedback>>
          /\ way' = [auto |-> auto, keep |-> keep, from_env |-> e, enabled |-> enabled, share_with |-> s]
      BY <2>1, <3>1, <3>2, Zenon DEF main
    <3>4. way'.keep = keep /\ way'.share_with = s /\ way'.auto = auto /\ way'.from_env = e BY <3>3
    <3>5. s => ~(auto /\ e) BY <3>2, Zenon DEF shared_with
    <3> QED BY <2>1, <3>3, <3>4, <3>5, Zenon
  <2> QED BY <1>1, <2>1 DEF DemoNext, Stop_, Ask_, PostIt, file_issue
<1>2. CASE UNCHANGED demoVars BY <1>2 DEF demoVars
<1> QED BY <1>1, <1>2

LEMMA DemoStarts == DemoInit => DemoInv
<1> SUFFICES ASSUME DemoInit PROVE DemoInv OBVIOUS
<1>1. /\ at = 0 /\ faults = {} /\ way.keep = FALSE /\ way.share_with = FALSE
      /\ feedback = [at |-> "not asked", said |-> "nothing"]
      /\ on_drive = [files |-> [f \in FilesMade |-> "absent"], shared |-> {}, commented |-> {}]
      /\ state = [ids |-> {}, perms |-> {}, comment_id |-> NoKind, register |-> NoKind]
  BY DEF DemoInit
<1>2. way.keep \in BOOLEAN /\ at \in 0 .. Len(Plan[way.keep]) + 1
  <2>1. PICK keep \in BOOLEAN : keep = way.keep BY <1>1, Zenon
  <2>2. Len(Plan[keep]) = IF keep THEN Told ELSE Told + 10 BY PlanSteps
  <2>3. Told \in Nat BY KindsInOrder DEF Told
  <2>4. 0 \in 0 .. Len(Plan[keep]) + 1 BY <2>2, <2>3
  <2> QED BY <1>1, <2>1, <2>4
<1>3. DemoTypes
  <2>1. IsFiniteSet(faults) /\ Cardinality(faults) = 0 BY <1>1, FS_EmptySet
  <2>2. 0 \in 0 .. MaxFaults BY DemoAssumption
  <2> QED BY <1>1, <1>2, <2>1, <2>2 DEF DemoTypes
<1>4. Consented BY <1>1 DEF Consented, PostedWithConsent
<1>5. RegisterKept BY <1>1 DEF RegisterKept
<1>6. GrantsKept BY <1>1 DEF GrantsKept
<1>7. AllAccounted BY <1>1 DEF AllAccounted
<1>8. Tidied
  <2>1. Told \in Nat BY KindsInOrder DEF Told
  <2>3. PICK n \in 0 .. 8 : n = Len(targets(state)) BY <1>3, Targets
  <2>4. at = 0 BY <1>1
  <2>5. \A j \in 1 .. n : ~(Told + 2 + j < at) BY <2>1, <2>4
  <2>2. \A j \in 1 .. Len(targets(state)) : ~(Told + 2 + j < at) BY <2>3, <2>5
  <2> QED BY <2>2 DEF Tidied
<1> QED BY <1>3, <1>4, <1>5, <1>6, <1>7, <1>8 DEF DemoInv

LEMMA TypesKept ==
  ASSUME DemoTypes, [DemoNext]_demoVars
  PROVE  DemoTypes'
<1>0. N \in Nat /\ Told \in Nat BY KindsInOrder DEF Told
<1>1. CASE _one
  <2>1. /\ at \in DOMAIN Plan[way.keep] /\ at' = at + 1 /\ way' = way
        /\ faults' = faults \/ /\ Cardinality(faults) < MaxFaults
                               /\ \E outcome : faults' = faults \cup {Fault(Current, outcome)}
    BY <1>1, StepTaken
  <2>2. way'.keep \in BOOLEAN /\ at' \in 0 .. Len(Plan[way'.keep]) + 1
    <3>1. PICK keep \in BOOLEAN : keep = way.keep BY DEF DemoTypes
    <3>2. PICK n : n = Len(Plan[keep]) OBVIOUS
    <3>3. n \in Nat /\ DOMAIN Plan[keep] = 1 .. n BY <1>0, <3>2, PlanSteps
    <3>4. at \in 1 .. n BY <2>1, <3>1, <3>3
    <3>5. at + 1 \in 0 .. n + 1 BY <3>3, <3>4
    <3>6. at' \in 0 .. n + 1 BY <2>1, <3>5
    <3> QED BY <2>1, <3>1, <3>2, <3>6
  <2>3. IsFiniteSet(faults') /\ Cardinality(faults') \in 0 .. MaxFaults
    <3>1. CASE faults' = faults BY <3>1 DEF DemoTypes
    <3>2. ASSUME NEW outcome, faults' = faults \cup {Fault(Current, outcome)},
                 Cardinality(faults) < MaxFaults
          PROVE  IsFiniteSet(faults') /\ Cardinality(faults') \in 0 .. MaxFaults
      <4>1. IsFiniteSet(faults) BY DEF DemoTypes
      <4>2. /\ IsFiniteSet(faults')
            /\ Cardinality(faults') = Cardinality(faults) \/ Cardinality(faults') = Cardinality(faults) + 1
        BY <3>2, <4>1, FS_AddElement
      <4>3. Cardinality(faults) \in 0 .. MaxFaults /\ MaxFaults \in Nat BY DemoAssumption DEF DemoTypes
      <4> QED BY <3>2, <4>2, <4>3
    <3> QED BY <2>1, <3>1, <3>2
  <2>4. PICK step : step = Current OBVIOUS
  <2>5. PICK f : f = about(step) OBVIOUS
  <2>6. step.tool \in {"trash_file", "untrash_file"} /\ Fit(step) => f \in FilesMade
    <3>1. SUFFICES ASSUME step.tool \in {"trash_file", "untrash_file"}, Fit(step) PROVE f \in FilesMade
      OBVIOUS
    <3>2. step.index \in 1 .. 8 BY <2>1, <2>4, <3>1, StepsByTool
    <3>3. PICK t : t = targets(state) OBVIOUS
    <3>4. step.index <= Len(t) BY <3>1, <3>3 DEF Fit, ready
    <3>5. Len(t) \in 0 .. 8 /\ \A j \in 1 .. Len(t) : t[j] \in FilesMade BY <3>3, Targets
    <3>6. step.index \in 1 .. Len(t) BY <3>2, <3>4, <3>5
    <3>7. f = t[step.index] BY <2>5, <3>2, <3>3 DEF about
    <3> QED BY <3>5, <3>6, <3>7
  <2>7. /\ step.tool \in {"create_file", "copy_file"} => step.file \in FilesMade
        /\ step.tool \in {"share_file", "create_comment", "export_comments"} => step.file.of \in Kinds
    <3>1. /\ step.tool \in {"create_file", "copy_file"} => step.file \in FilesMade
          /\ step.tool = "create_comment" => step.file.of \in Kinds
          /\ step.tool \in {"export_comments", "share_file"} =>
               \E p \in 1 .. N : step.file = File(TYPES[p], FALSE)
      BY <2>1, <2>4, StepsByTool
    <3>2. ASSUME NEW p \in 1 .. N PROVE File(TYPES[p], FALSE).of \in Kinds
      BY KindsInOrder DEF File
    <3> QED BY <3>1, <3>2
  <2>8. PICK d : d = carried_out(step) OBVIOUS
  <2>9. PICK s : s = captures(step) OBVIOUS
  <2>10. Fit(step) => /\ d \in [files : [FilesMade -> {"absent", "there", "trashed"}],
                                shared : SUBSET Kinds, commented : SUBSET Kinds]
                      /\ s \in [ids : SUBSET FilesMade, perms : SUBSET Kinds,
                                comment_id : Kinds \cup {NoKind}, register : Kinds \cup {NoKind}]
    <3>1. SUFFICES ASSUME Fit(step)
                   PROVE  /\ d \in [files : [FilesMade -> {"absent", "there", "trashed"}],
                                    shared : SUBSET Kinds, commented : SUBSET Kinds]
                          /\ s \in [ids : SUBSET FilesMade, perms : SUBSET Kinds,
                                    comment_id : Kinds \cup {NoKind}, register : Kinds \cup {NoKind}]
      OBVIOUS
    <3>2. PICK k : k = step.file.of OBVIOUS
    <3>3. /\ d.shared = IF step.tool = "share_file" THEN on_drive.shared \cup {k}
                        ELSE IF step.tool = "unshare_file" THEN on_drive.shared \ {k}
                        ELSE on_drive.shared
          /\ d.commented = IF step.tool = "create_comment" THEN on_drive.commented \cup {k}
                           ELSE IF step.tool = "delete_comment" THEN on_drive.commented \ {k}
                           ELSE on_drive.commented
          /\ d.files = IF step.tool \in {"create_file", "copy_file"}
                         THEN [on_drive.files EXCEPT ![step.file] = "there"]
                       ELSE IF step.tool = "trash_file" THEN [on_drive.files EXCEPT ![f] = "trashed"]
                       ELSE IF step.tool = "untrash_file" THEN [on_drive.files EXCEPT ![f] = "there"]
                       ELSE on_drive.files
          /\ d = [files |-> d.files, shared |-> d.shared, commented |-> d.commented]
          /\ s.ids = IF step.tool \in {"create_file", "copy_file"} THEN state.ids \cup {step.file}
                     ELSE state.ids
          /\ s.perms = IF step.tool = "share_file" THEN state.perms \cup {k} ELSE state.perms
          /\ s.comment_id = IF step.tool = "create_comment" THEN k ELSE state.comment_id
          /\ s.register = IF step.tool = "export_comments" THEN k ELSE state.register
          /\ s = [ids |-> s.ids, perms |-> s.perms, comment_id |-> s.comment_id, register |-> s.register]
      BY <2>5, <2>8, <2>9, <3>2, Effects, Zenon
    <3>4. /\ on_drive.files \in [FilesMade -> {"absent", "there", "trashed"}]
          /\ on_drive.shared \subseteq Kinds /\ on_drive.commented \subseteq Kinds
          /\ state.ids \subseteq FilesMade /\ state.perms \subseteq Kinds
          /\ state.comment_id \in Kinds \cup {NoKind} /\ state.register \in Kinds \cup {NoKind}
      BY DEF DemoTypes
    <3>5. d.files \in [FilesMade -> {"absent", "there", "trashed"}]
      BY <2>6, <2>7, <3>1, <3>3, <3>4
    <3>6. d.shared \subseteq Kinds /\ d.commented \subseteq Kinds BY <2>7, <3>2, <3>3, <3>4
    <3>7. s.ids \subseteq FilesMade /\ s.perms \subseteq Kinds BY <2>7, <3>2, <3>3, <3>4
    <3>8. s.comment_id \in Kinds \cup {NoKind} /\ s.register \in Kinds \cup {NoKind}
      BY <2>7, <3>2, <3>3, <3>4
    <3>9. PICK a, b, c : a = d.files /\ b = d.shared /\ c = d.commented OBVIOUS
    <3>10. d = [files |-> a, shared |-> b, commented |-> c] BY <3>3, <3>9, Zenon
    <3>11. PICK g, h, i, j : g = s.ids /\ h = s.perms /\ i = s.comment_id /\ j = s.register OBVIOUS
    <3>12. s = [ids |-> g, perms |-> h, comment_id |-> i, register |-> j] BY <3>3, <3>11, Zenon
    <3> QED BY <3>5, <3>6, <3>7, <3>8, <3>9, <3>10, <3>11, <3>12
  <2>11. on_drive' \in {on_drive, d} /\ state' \in {state, s} /\ (~Fit(step) => on_drive' = on_drive /\ state' = state)
    BY <1>1, <2>4, <2>8, <2>9, Done
  <2>12. /\ on_drive' \in [files : [FilesMade -> {"absent", "there", "trashed"}],
                           shared : SUBSET Kinds, commented : SUBSET Kinds]
         /\ state' \in [ids : SUBSET FilesMade, perms : SUBSET Kinds,
                        comment_id : Kinds \cup {NoKind}, register : Kinds \cup {NoKind}]
    BY <2>10, <2>11 DEF DemoTypes
  <2> QED BY <2>2, <2>3, <2>12 DEF DemoTypes
<1>2. CASE /\ at = 0 /\ at' = 1 /\ way'.keep \in BOOLEAN
           /\ UNCHANGED <<on_drive, state, faults, feedback>>
  <2>1. PICK keep \in BOOLEAN : keep = way'.keep BY <1>2
  <2>2. PICK n : n = Len(Plan[keep]) OBVIOUS
  <2>3. n \in Nat BY <1>0, <2>2, PlanSteps
  <2>4. 1 \in 0 .. n + 1 BY <2>3
  <2> QED BY <1>2, <2>1, <2>2, <2>4 DEF DemoTypes
<1>3. CASE UNCHANGED <<way, at, on_drive, state, faults>> BY <1>3 DEF DemoTypes
<1> QED BY <1>1, <1>2, <1>3, Steps

LEMMA ConsentKept ==
  ASSUME DemoTypes, Consented, [DemoNext]_demoVars
  PROVE  Consented'
<1>1. CASE _one
  <2>1. /\ at \in DOMAIN Plan[way.keep] /\ feedback.at = "not asked"
        /\ at' = at + 1 /\ way' = way /\ feedback' = feedback
    BY <1>1, StepTaken
  <2>2. at' # 0
    <3>1. PICK keep \in BOOLEAN : keep = way.keep BY DEF DemoTypes
    <3>2. PICK n : n = Len(Plan[keep]) OBVIOUS
    <3>3. N \in Nat /\ Told \in Nat BY KindsInOrder DEF Told
    <3>4. n \in Nat /\ DOMAIN Plan[keep] = 1 .. n BY <3>2, <3>3, PlanSteps
    <3>5. at \in 1 .. n BY <2>1, <3>1, <3>4
    <3>6. at + 1 # 0 BY <3>4, <3>5
    <3> QED BY <2>1, <3>6, Zenon
  <2>3. on_drive'.shared # {} => way.share_with
    <3>1. PICK step : step = Current OBVIOUS
    <3>5. PICK d : d = carried_out(step) OBVIOUS
    <3>6. PICK s : s = captures(step) OBVIOUS
    <3>7. on_drive' \in {on_drive, d} /\ state' \in {state, s} /\ (~Fit(step) => on_drive' = on_drive)
      BY <1>1, <3>1, <3>5, <3>6, Done
    <3>2. on_drive' = on_drive \/ (Fit(step) /\ on_drive' = carried_out(step))
      <4>1. on_drive' = on_drive \/ on_drive' = d BY <3>7
      <4>2. ~Fit(step) => on_drive' = on_drive BY <3>7
      <4> QED BY <3>5, <4>1, <4>2, Zenon
    <3>3. CASE on_drive' = on_drive BY <3>3 DEF Consented
    <3>4. CASE Fit(step) /\ on_drive' = carried_out(step)
      <4>1. CASE step.tool = "share_file" BY <3>4, <4>1 DEF Fit, ready
      <4>2. CASE step.tool # "share_file"
        <5>1. on_drive'.shared = IF step.tool = "unshare_file" THEN on_drive.shared \ {step.file.of}
                                 ELSE on_drive.shared
          BY <3>4, <4>2, Effects, Zenon
        <5> QED BY <5>1 DEF Consented
      <4> QED BY <4>1, <4>2
    <3> QED BY <3>2, <3>3, <3>4
  <2> QED BY <2>1, <2>2, <2>3 DEF Consented, PostedWithConsent
<1>2. CASE /\ at = 0 /\ at' = 1 /\ way'.keep \in BOOLEAN
           /\ way'.share_with => ~(way'.auto /\ way'.from_env)
           /\ UNCHANGED <<on_drive, state, faults, feedback>>
  <2>1. ~RunOver BY <1>2 DEF RunOver
  <2>2. on_drive'.shared = {} BY <1>2 DEF Consented
  <2>3. feedback.at \notin {"shown", "agreed", "posted", "url shown"}
    BY <2>1, Zenon DEF Consented, PostedWithConsent
  <2>4. at' # 0 BY <1>2
  <2>5. feedback' = [at |-> feedback'.at, said |-> feedback'.said] BY <1>2, Zenon DEF Consented
  <2>6. PICK a : a = feedback'.at OBVIOUS
  <2>7. a \notin {"shown", "agreed", "posted", "url shown"} BY <1>2, <2>3, <2>6
  <2>8. feedback'.at # "shown" /\ PostedWithConsent' BY <2>6, <2>7 DEF PostedWithConsent
  <2> QED BY <1>2, <2>2, <2>4, <2>5, <2>8, Zenon DEF Consented
<1>3. CASE UNCHANGED <<way, at, on_drive, state, faults>>
  <2> DEFINE ShapedAnswer == feedback' = [at |-> feedback'.at, said |-> feedback'.said]
  <2>0. PICK a, b : feedback = [at |-> a, said |-> b] BY DEF Consented
  <2>1. \/ feedback' = feedback
        \/ ShapedAnswer /\ feedback'.at \in {"stopped", "skipped", "not posted"}
        \/ ShapedAnswer /\ feedback'.at = "shown" /\ RunOver /\ ~way.auto
        \/ ShapedAnswer /\ feedback.at = "shown" /\ feedback'.at = "agreed" /\ feedback'.said = "yes"
        \/ /\ ShapedAnswer /\ feedback.at = "agreed" /\ feedback'.said = feedback.said
           /\ feedback'.at \in {"posted", "url shown"}
    <3>1. CASE _one BY <3>1, StepTaken
    <3>2. CASE Stop_
      <4>1. feedback' = [at |-> "stopped", said |-> b] BY <2>0, <3>2 DEF Stop_
      <4> QED BY <4>1
    <3>3. CASE UNCHANGED demoVars BY <3>3 DEF demoVars
    <3>4. ASSUME NEW said, RunOver, ~way.auto, Ask_(said)
          PROVE  feedback'.at \in {"shown", "skipped"} /\ ShapedAnswer
      BY <3>4 DEF Ask_
    <3>5. ASSUME NEW said, PostIt(said)
          PROVE  /\ (feedback'.at = "agreed" /\ feedback'.said = "yes") \/ feedback'.at = "not posted"
                 /\ ShapedAnswer
      BY <3>5 DEF PostIt, agreed
    <3>6. ASSUME NEW filed, file_issue(filed)
          PROVE  /\ feedback.at = "agreed" /\ feedback'.said = feedback.said
                 /\ feedback'.at \in {"posted", "url shown"} /\ ShapedAnswer
      <4>1. PICK x : x = IF filed THEN "posted" ELSE "url shown" OBVIOUS
      <4>2. x \in {"posted", "url shown"} BY <4>1
      <4>3. feedback.at = "agreed" /\ feedback' = [feedback EXCEPT !.at = x]
        BY <3>6, <4>1, Zenon DEF file_issue
      <4>4. feedback' = [at |-> x, said |-> b] BY <2>0, <4>3
      <4> QED BY <2>0, <4>2, <4>3, <4>4
    <3>7. ASSUME NEW auto, NEW keep, NEW from, NEW enabled, main(auto, keep, from, enabled)
          PROVE  feedback' = feedback
      BY <3>7 DEF main
    <3> QED BY <3>1, <3>2, <3>3, <3>4, <3>5, <3>6, <3>7 DEF DemoNext
  <2> QED BY <1>3, <2>1 DEF Consented, PostedWithConsent, RunOver
<1> QED BY <1>1, <1>2, <1>3, Steps

\* The steps of the plan that some place of it stands for.
LEMMA PlacesDiffer ==
  ASSUME NEW p \in 1 .. N, NEW q \in 1 .. N, NEW m \in 1 .. 11, NEW n \in 1 .. 11
  PROVE  /\ StepAt(p, m) \in 2 .. Told - 1 /\ Told \in Nat
         /\ StepAt(p, m) = StepAt(q, n) => p = q /\ m = n
         /\ m < 11 => StepAt(p, m) + 1 = StepAt(p, m + 1)
         /\ m > 1 /\ StepAt(p, m) = StepAt(q, n) + 1 => p = q /\ m = n + 1
<1>1. N \in Nat BY KindsInOrder
<1>2. \A a, b \in Nat, i, j \in 1 .. 11 : 11 * a + i = 11 * b + j => a = b /\ i = j OBVIOUS
<1>3. \A a, b \in Nat, i, j \in 1 .. 11 : i > 1 /\ 11 * a + i = 11 * b + j + 1 => a = b /\ i = j + 1 OBVIOUS
<1>4. PICK a \in Nat, b \in Nat : a = p - 1 /\ b = q - 1 /\ a <= N - 1 BY <1>1
<1>5. StepAt(p, m) = 1 + 11 * a + m /\ StepAt(q, n) = 1 + 11 * b + n /\ StepAt(p, m + 1) = 1 + 11 * a + (m + 1)
  BY <1>4 DEF StepAt
<1>6. StepAt(p, m) \in 2 .. Told - 1 /\ Told \in Nat BY <1>1, <1>4, <1>5 DEF Told
<1>7. StepAt(p, m) = StepAt(q, n) => p = q /\ m = n
  <2>1. StepAt(p, m) = StepAt(q, n) => a = b /\ m = n BY <1>2, <1>5
  <2> QED BY <1>4, <2>1
<1>8. m > 1 /\ StepAt(p, m) = StepAt(q, n) + 1 => p = q /\ m = n + 1
  <2>1. m > 1 /\ StepAt(p, m) = StepAt(q, n) + 1 => a = b /\ m = n + 1 BY <1>3, <1>5
  <2> QED BY <1>4, <2>1
<1> QED BY <1>5, <1>6, <1>7, <1>8

LEMMA FaultsStay ==
  ASSUME [DemoNext]_demoVars, NEW tools, NEW f, Faulty(tools, f)
  PROVE  Faulty(tools, f)'
<1>1. faults \subseteq faults' BY Done, Steps
<1> QED BY <1>1 DEF Faulty

LEMMA RegisterStays ==
  ASSUME DemoTypes, RegisterKept, [DemoNext]_demoVars
  PROVE  RegisterKept'
<1>1. ASSUME NEW p \in 1 .. N, _one, at' = StepAt(p, 7), File(TYPES[p], FALSE) \in state'.ids
      PROVE  state'.register = TYPES[p] \/ Faulty({"export_comments"}, File(TYPES[p], FALSE))'
  <2>1. at \in DOMAIN Plan[way.keep] /\ at' = at + 1 BY <1>1, StepTaken
  <2>2. PICK keep \in BOOLEAN : keep = way.keep BY DEF DemoTypes
  <2>3. at = StepAt(p, 6)
    <3>1. N \in Nat /\ p \in Nat BY KindsInOrder
    <3>2. DOMAIN Plan[keep] = 1 .. Len(Plan[keep]) BY PlanSteps
    <3>3. at \in Nat BY <2>1, <2>2, <3>2
    <3>4. at + 1 = 1 + 11 * (p - 1) + 7 BY <1>1, <2>1 DEF StepAt
    <3>5. at = 1 + 11 * (p - 1) + 6 BY <3>1, <3>3, <3>4
    <3> QED BY <3>5 DEF StepAt
  <2>4. PICK k \in Kinds : k = TYPES[p] BY KindsInOrder
  <2>5. PICK f : f = File(k, FALSE) OBVIOUS
  <2>6. PICK step : step = Plan[keep][StepAt(p, 6)] OBVIOUS
  <2>7. step = Current BY <2>2, <2>3, <2>6 DEF Current
  <2>8. step.tool = "export_comments" /\ step.file = f /\ step.file.of = k /\ step.requires = "none" /\ step.index = 0
    <3>1. PICK e : e = Plain("export_comments", File(k, FALSE), "none", TRUE) OBVIOUS
    <3>2. e.tool = "export_comments" /\ e.file = f /\ e.requires = "none" /\ e.index = 0
      BY <2>5, <3>1 DEF Plain
    <3>3. per_type(k)[6] = e BY <3>1, ElevenSteps, Zenon
    <3>4. \A q \in 1 .. N : \A m \in 1 .. 11 : Plan[keep][StepAt(q, m)] = per_type(TYPES[q])[m]
      BY PlanSteps
    <3>5. step = e BY <2>4, <2>6, <3>3, <3>4
    <3>6. f.of = k BY <2>5 DEF File
    <3> QED BY <3>2, <3>5, <3>6
  <2>9. PICK s : s = captures(step) OBVIOUS
  <2>10. s.register = k /\ s.ids = state.ids
    <3>1. /\ s.ids = IF step.tool \in {"create_file", "copy_file"} THEN state.ids \cup {step.file}
                     ELSE state.ids
          /\ s.register = IF step.tool = "export_comments" THEN step.file.of ELSE state.register
      BY <2>9, Effects, Zenon
    <3> QED BY <2>8, <3>1
  <2>11. PICK d : d = carried_out(step) OBVIOUS
  <2>12. \/ state' = s
         \/ state' = state /\ \E x \in faults' : x.tool = "export_comments" /\ x.file = f
         \/ state' = state /\ ~Fit(step)
    <3>1. about(step) = f BY <2>8 DEF about
    <3>2. \/ ~Fit(step) /\ on_drive' = on_drive /\ state' = state
          \/ Fit(step) /\ on_drive' = d /\ state' = s
          \/ /\ Fit(step) /\ state' = state /\ on_drive' \in {on_drive, d}
             /\ \E x \in faults' : x.tool = step.tool /\ x.file = about(step)
      BY <1>1, <2>7, <2>9, <2>11, Done
    <3> QED BY <2>8, <3>1, <3>2
  <2>13. File(k, FALSE) \in state.ids
    <3>1. state'.ids = state.ids BY <2>10, <2>12
    <3> QED BY <1>1, <2>4, <3>1, Zenon
  <2>14. Fit(step)
    <3>1. ready(step)
      <4>1. File(step.file.of, FALSE) \in state.ids BY <2>8, <2>13, Zenon
      <4> QED BY <2>8, <4>1 DEF ready
    <3>2. possible(step) BY <2>8 DEF possible
    <3> QED BY <2>8, <3>1, <3>2 DEF Fit
  <2>15. \/ state'.register = k
         \/ \E x \in faults' : x.tool = "export_comments" /\ x.file = f
    BY <2>10, <2>12, <2>14
  <2>16. CASE state'.register = k BY <2>4, <2>16
  <2>17. CASE \E x \in faults' : x.tool = "export_comments" /\ x.file = f
    <3>1. Faulty({"export_comments"}, f)' BY <2>17 DEF Faulty
    <3>2. f = File(TYPES[p], FALSE) BY <2>4, <2>5, Zenon
    <3> QED BY <3>1, <3>2, Zenon
  <2> QED BY <2>15, <2>16, <2>17
<1>2. ASSUME NEW p \in 1 .. N, at = 0, at' = 1 PROVE at' # StepAt(p, 7)
  <2>1. N \in Nat /\ p \in Nat BY KindsInOrder
  <2> QED BY <1>2, <2>1 DEF StepAt
<1>3. ASSUME UNCHANGED <<way, at, on_drive, state, faults>> PROVE RegisterKept'
  BY <1>3 DEF RegisterKept, Faulty
<1> QED BY <1>1, <1>2, <1>3, Steps DEF RegisterKept

\* What the plan knows it forgets nothing of.
LEMMA NothingForgotten ==
  ASSUME DemoTypes, NEW step
  PROVE  state.ids \subseteq captures(step).ids /\ state.perms \subseteq captures(step).perms
<1>1. PICK s : s = captures(step) OBVIOUS
<1>2. /\ s.ids = IF step.tool \in {"create_file", "copy_file"} THEN state.ids \cup {step.file} ELSE state.ids
      /\ s.perms = IF step.tool = "share_file" THEN state.perms \cup {step.file.of} ELSE state.perms
  BY <1>1, Effects, Zenon
<1>3. state.ids \subseteq s.ids /\ state.perms \subseteq s.perms BY <1>2
<1> QED BY <1>1, <1>3

LEMMA GrantsStay ==
  ASSUME DemoTypes, GrantsKept, [DemoNext]_demoVars
  PROVE  GrantsKept'
<1>1. ASSUME NEW k \in on_drive'.shared, _one
      PROVE  Faulty({"share_file", "unshare_file"}, File(k, FALSE))' \/ TakenBackSoon(k)'
  <2>1. at \in DOMAIN Plan[way.keep] /\ at' = at + 1 /\ way' = way BY <1>1, StepTaken
  <2>2. PICK keep \in BOOLEAN : keep = way.keep BY DEF DemoTypes
  <2>3. PICK step : step = Current OBVIOUS
  <2>4. PICK d : d = carried_out(step) OBVIOUS
  <2>5. PICK s : s = captures(step) OBVIOUS
  <2>6. PICK f : f = about(step) OBVIOUS
  <2>7. \/ ~Fit(step) /\ on_drive' = on_drive /\ state' = state
        \/ Fit(step) /\ on_drive' = d /\ state' = s
        \/ /\ Fit(step) /\ state' = state /\ on_drive' \in {on_drive, d}
           /\ \E x \in faults' : x.tool = step.tool /\ x.file = f
    BY <1>1, <2>3, <2>4, <2>5, <2>6, Done
  <2>8. d.shared = IF step.tool = "share_file" THEN on_drive.shared \cup {step.file.of}
                   ELSE IF step.tool = "unshare_file" THEN on_drive.shared \ {step.file.of}
                   ELSE on_drive.shared
    BY <2>4, Effects, Zenon
  <2>9. state.ids \subseteq state'.ids /\ state.perms \subseteq state'.perms
    BY <2>5, <2>7, NothingForgotten
  <2>10. PICK g : g = File(k, FALSE) OBVIOUS
  <2>11. CASE k \in on_drive.shared
    <3>1. Faulty({"share_file", "unshare_file"}, g) \/ TakenBackSoon(k) BY <2>10, <2>11, Zenon DEF GrantsKept
    <3>2. CASE Faulty({"share_file", "unshare_file"}, g)
      <4>1. Faulty({"share_file", "unshare_file"}, g)' BY <3>2, FaultsStay
      <4> QED BY <2>10, <4>1, Zenon
    <3>3. ASSUME NEW p \in 1 .. N, TYPES[p] = k, at = StepAt(p, 10), k \in state.perms, g \in state.ids,
                 "file.share" \in way.enabled
          PROVE  TakenBackSoon(k)'
      <4>1. at' = StepAt(p, 11) BY <2>1, <3>3, PlacesDiffer
      <4>2. k \in state'.perms /\ g \in state'.ids /\ "file.share" \in way'.enabled BY <2>1, <2>9, <3>3
      <4> QED BY <2>10, <3>3, <4>1, <4>2, Zenon DEF TakenBackSoon
    <3>4. ASSUME NEW p \in 1 .. N, TYPES[p] = k, at = StepAt(p, 11), k \in state.perms, g \in state.ids,
                 "file.share" \in way.enabled
          PROVE  Faulty({"share_file", "unshare_file"}, g)'
      <4>1. /\ step.tool = "unshare_file" /\ step.file = g /\ step.file.of = k
            /\ step.requires = "file.share" /\ step.index = 0
        <5>1. PICK e : e = Plain("unshare_file", File(k, FALSE), "file.share", TRUE) OBVIOUS
        <5>2. e.tool = "unshare_file" /\ e.file = g /\ e.requires = "file.share" /\ e.index = 0
          BY <2>10, <5>1 DEF Plain
        <5>3. k \in Kinds BY <3>4, KindsInOrder
        <5>4. per_type(k)[11] = e BY <5>1, <5>3, ElevenSteps, Zenon
        <5>5. \A q \in 1 .. N : \A m \in 1 .. 11 : Plan[keep][StepAt(q, m)] = per_type(TYPES[q])[m]
          BY PlanSteps
        <5>6. Plan[keep][StepAt(p, 11)] = e BY <3>4, <5>4, <5>5
        <5>7. step = e BY <2>2, <2>3, <3>4, <5>6 DEF Current
        <5>8. g.of = k BY <2>10 DEF File
        <5> QED BY <5>2, <5>7, <5>8
      <4>2. Fit(step)
        <5>1. ready(step)
          <6>1. File(step.file.of, FALSE) \in state.ids BY <2>10, <3>4, <4>1, Zenon
          <6> QED BY <4>1, <6>1 DEF ready
        <5>2. possible(step) BY <2>11, <3>4, <4>1 DEF possible
        <5> QED BY <3>4, <4>1, <5>1, <5>2 DEF Fit
      <4>3. k \notin d.shared BY <2>8, <4>1
      <4>4. f = g BY <2>6, <4>1 DEF about
      <4>5. \E x \in faults' : x.tool = "unshare_file" /\ x.file = g BY <1>1, <2>7, <4>1, <4>2, <4>3, <4>4
      <4> QED BY <4>5 DEF Faulty
    <3>5. CASE TakenBackSoon(k)
      <4>1. PICK p \in 1 .. N : /\ TYPES[p] = k /\ (at = StepAt(p, 10) \/ at = StepAt(p, 11))
                                /\ k \in state.perms /\ File(k, FALSE) \in state.ids
                                /\ "file.share" \in way.enabled
        BY <3>5, Zenon DEF TakenBackSoon
      <4>2. g \in state.ids BY <2>10, <4>1, Zenon
      <4>3. Faulty({"share_file", "unshare_file"}, g)' \/ TakenBackSoon(k)' BY <3>3, <3>4, <4>1, <4>2
      <4> QED BY <2>10, <4>3, Zenon
    <3> QED BY <2>10, <3>1, <3>2, <3>5, Zenon
  <2>12. CASE k \notin on_drive.shared
    <3>1. on_drive' # on_drive BY <1>1, <2>12
    <3>2. Fit(step) /\ on_drive' = d BY <2>7, <3>1
    <3>3. step.tool = "share_file" /\ step.file.of = k BY <1>1, <2>8, <2>12, <3>2
    <3>4. PICK p \in 1 .. N : step.file = File(TYPES[p], FALSE) /\ step.index = 0 /\ at = StepAt(p, 9) /\ step.requires = "file.share"
      BY <2>1, <2>3, <3>3, StepsByTool
    <3>5. TYPES[p] = k BY <3>3, <3>4 DEF File
    <3>6. step.file = g BY <2>10, <3>4, <3>5, Zenon
    <3>7. f = g BY <2>6, <3>4, <3>6 DEF about
    <3>8. CASE \E x \in faults' : x.tool = step.tool /\ x.file = f
      <4>1. Faulty({"share_file", "unshare_file"}, g)' BY <3>3, <3>7, <3>8 DEF Faulty
      <4> QED BY <2>10, <4>1, Zenon
    <3>9. CASE state' = s
      <4>1. s.perms = state.perms \cup {k}
        <5>1. s.perms = IF step.tool = "share_file" THEN state.perms \cup {step.file.of} ELSE state.perms
          BY <2>5, Effects, Zenon
        <5> QED BY <3>3, <5>1
      <4>2. File(k, FALSE) \in state.ids
        <5>1. File(step.file.of, FALSE) \in state.ids BY <3>2, <3>3 DEF Fit, ready
        <5> QED BY <3>3, <5>1, Zenon
      <4>3. g \in state'.ids /\ k \in state'.perms
        <5>1. g \in state.ids BY <2>10, <4>2, Zenon
        <5> QED BY <2>9, <3>9, <4>1, <5>1
      <4>4. "file.share" \in way'.enabled BY <2>1, <3>2, <3>4 DEF Fit
      <4>5. at' = StepAt(p, 10) BY <2>1, <3>4, PlacesDiffer
      <4> QED BY <2>10, <3>5, <4>3, <4>4, <4>5, Zenon DEF TakenBackSoon
    <3> QED BY <2>7, <3>1, <3>8, <3>9
  <2> QED BY <2>11, <2>12
<1>2. ASSUME at = 0, at' = 1, UNCHANGED <<on_drive, state, faults, feedback>> PROVE GrantsKept'
  <2>1. ~(\E p \in 1 .. N : at = StepAt(p, 10) \/ at = StepAt(p, 11))
    <3>1. ASSUME NEW p \in 1 .. N PROVE at # StepAt(p, 10) /\ at # StepAt(p, 11)
      <4>1. N \in Nat BY KindsInOrder
      <4> QED BY <1>2, <4>1 DEF StepAt
    <3> QED BY <3>1
  <2>2. \A k \in on_drive.shared : Faulty({"share_file", "unshare_file"}, File(k, FALSE))
    BY <2>1, Zenon DEF GrantsKept, TakenBackSoon
  <2> QED BY <1>2, <2>2, Zenon DEF GrantsKept, Faulty
<1>3. ASSUME UNCHANGED <<way, at, on_drive, state, faults>> PROVE GrantsKept'
  BY <1>3, Zenon DEF GrantsKept, Faulty, TakenBackSoon
<1> QED BY <1>1, <1>2, <1>3, Steps DEF GrantsKept

LEMMA AccountStays ==
  ASSUME DemoTypes, AllAccounted, [DemoNext]_demoVars
  PROVE  AllAccounted'
<1>1. ASSUME NEW f \in FilesMade, _one
      PROVE  /\ on_drive'.files[f] = "there" =>
                  f \in state'.ids \/ Faulty({"create_file", "copy_file"}, f)'
             /\ f \in state'.ids => on_drive'.files[f] # "absent"
  <2>1. at \in DOMAIN Plan[way.keep] BY <1>1, StepTaken
  <2>2. PICK step : step = Current OBVIOUS
  <2>3. PICK d : d = carried_out(step) OBVIOUS
  <2>4. PICK s : s = captures(step) OBVIOUS
  <2>5. PICK g : g = about(step) OBVIOUS
  <2>6. \/ ~Fit(step) /\ on_drive' = on_drive /\ state' = state
        \/ Fit(step) /\ on_drive' = d /\ state' = s
        \/ /\ Fit(step) /\ state' = state /\ on_drive' \in {on_drive, d}
           /\ \E x \in faults' : x.tool = step.tool /\ x.file = g
    BY <1>1, <2>2, <2>3, <2>4, <2>5, Done
  <2>7. d.files = IF step.tool \in {"create_file", "copy_file"}
                    THEN [on_drive.files EXCEPT ![step.file] = "there"]
                  ELSE IF step.tool = "trash_file" THEN [on_drive.files EXCEPT ![g] = "trashed"]
                  ELSE IF step.tool = "untrash_file" THEN [on_drive.files EXCEPT ![g] = "there"]
                  ELSE on_drive.files
    BY <2>3, <2>5, Effects, Zenon
  <2>8. s.ids = IF step.tool \in {"create_file", "copy_file"} THEN state.ids \cup {step.file} ELSE state.ids
    BY <2>4, Effects, Zenon
  <2>9. state.ids \subseteq state'.ids BY <2>6, <2>8
  <2>10. on_drive.files \in [FilesMade -> {"absent", "there", "trashed"}] BY DEF DemoTypes
  <2>11. step.tool \in {"create_file", "copy_file"} => step.file \in FilesMade /\ g = step.file
    BY <2>1, <2>2, <2>5, StepsByTool DEF about
  <2>12. step.tool \in {"trash_file", "untrash_file"} /\ Fit(step) => g \in state.ids /\ g \in FilesMade
    <3>1. SUFFICES ASSUME step.tool \in {"trash_file", "untrash_file"}, Fit(step)
                   PROVE  g \in state.ids /\ g \in FilesMade
      OBVIOUS
    <3>2. step.index \in 1 .. 8 BY <2>1, <2>2, <3>1, StepsByTool
    <3>3. PICK t : t = targets(state) OBVIOUS
    <3>4. step.index <= Len(t) BY <3>1, <3>3 DEF Fit, ready
    <3>5. Len(t) \in 0 .. 8 /\ \A j \in 1 .. Len(t) : t[j] \in state.ids /\ t[j] \in FilesMade
      BY <3>3, Targets
    <3>6. step.index \in 1 .. Len(t) BY <3>2, <3>4, <3>5
    <3>7. g = t[step.index] BY <2>5, <3>2, <3>3 DEF about
    <3> QED BY <3>5, <3>6, <3>7
  <2>13. on_drive.files[f] = "there" => f \in state'.ids \/ Faulty({"create_file", "copy_file"}, f)'
    <3>1. CASE f \in state.ids BY <2>9, <3>1
    <3>2. CASE Faulty({"create_file", "copy_file"}, f) BY <3>2, FaultsStay
    <3> QED BY <3>1, <3>2 DEF AllAccounted
  <2>14. CASE on_drive' = on_drive
    <3>1. f \in state'.ids => f \in state.ids \/ (step.tool \in {"create_file", "copy_file"} /\ state' = s /\ f = step.file)
      BY <2>6, <2>8
    <3>2. CASE f \in state.ids BY <2>13, <2>14, <3>2 DEF AllAccounted
    <3>3. CASE f \notin state'.ids BY <2>13, <2>14, <3>3
    <3>4. CASE f \notin state.ids /\ f \in state'.ids
      <4>1. on_drive' = d BY <2>6, <3>4
      <4>2. step.tool \in {"create_file", "copy_file"} /\ f = step.file BY <3>1, <3>4
      <4>3. d.files[f] = "there" BY <2>7, <2>10, <4>2
      <4> QED BY <3>4, <4>1, <4>3
    <3> QED BY <3>2, <3>3, <3>4
  <2>15. CASE on_drive' = d /\ Fit(step)
    <3>1. CASE step.tool \in {"create_file", "copy_file"} /\ f = step.file
      <4>1. d.files[f] = "there" BY <2>7, <2>10, <3>1
      <4>2. CASE state' = s BY <2>8, <2>15, <3>1, <4>1, <4>2
      <4>3. CASE \E x \in faults' : x.tool = step.tool /\ x.file = g
        <5>1. Faulty({"create_file", "copy_file"}, f)' BY <2>11, <3>1, <4>3 DEF Faulty
        <5> QED BY <2>15, <4>1, <5>1
      <4> QED BY <2>6, <2>15, <4>2, <4>3
    <3>2. CASE step.tool \in {"trash_file", "untrash_file"} /\ f = g
      <4>1. f \in state.ids BY <2>12, <2>15, <3>2
      <4>2. d.files[f] \in {"trashed", "there"} BY <2>7, <2>10, <3>2
      <4> QED BY <2>9, <2>15, <4>1, <4>2
    <3>3. CASE ~(step.tool \in {"create_file", "copy_file"} /\ f = step.file)
               /\ ~(step.tool \in {"trash_file", "untrash_file"} /\ f = g)
      <4>1. d.files[f] = on_drive.files[f]
        <5>1. CASE step.tool \in {"create_file", "copy_file"} BY <2>7, <2>10, <3>3, <5>1
        <5>2. CASE step.tool \in {"trash_file", "untrash_file"} BY <2>7, <2>10, <3>3, <5>2
        <5>3. CASE step.tool \notin {"create_file", "copy_file", "trash_file", "untrash_file"} BY <2>7, <5>3
        <5> QED BY <5>1, <5>2, <5>3
      <4>2. f \in state'.ids => f \in state.ids BY <2>6, <2>8, <3>3
      <4> QED BY <2>13, <2>15, <4>1, <4>2 DEF AllAccounted
    <3> QED BY <3>1, <3>2, <3>3
  <2> QED BY <2>6, <2>14, <2>15
<1>2. ASSUME UNCHANGED <<on_drive, state, faults>> PROVE AllAccounted'
  BY <1>2, Zenon DEF AllAccounted, Faulty
<1> QED BY <1>1, <1>2, Steps DEF AllAccounted

LEMMA TidyStays ==
  ASSUME DemoTypes, Tidied, [DemoNext]_demoVars
  PROVE  Tidied'
<1>0. Told \in Nat BY KindsInOrder DEF Told
<1>1. ASSUME _one, ~way'.keep, "file.trash" \in way'.enabled,
             NEW j \in 1 .. Len(targets(state')), Told + 2 + j < at'
      PROVE  \/ on_drive'.files[targets(state')[j]] = "trashed"
             \/ Faulty({"trash_file"}, targets(state)[j])'
  <2>1. at \in DOMAIN Plan[way.keep] /\ at' = at + 1 /\ way' = way BY <1>1, StepTaken
  <2>2. PICK step : step = Current OBVIOUS
  <2>3. at \in Nat
    <3>1. PICK keep \in BOOLEAN : keep = way.keep BY DEF DemoTypes
    <3>2. DOMAIN Plan[keep] = 1 .. Len(Plan[keep]) BY PlanSteps
    <3> QED BY <2>1, <3>1, <3>2
  <2>4. PICK t : t = targets(state) OBVIOUS
  <2>5. /\ Len(t) \in 0 .. 8 /\ \A m \in 1 .. Len(t) : t[m] \in FilesMade BY <2>4, Targets
  <2>6. PICK t2 : t2 = targets(state') OBVIOUS
  <2>7. j >= 1
    <3>1. j \in 1 .. Len(t2) BY <2>6
    <3> QED BY <3>1
  <2>8. at >= Told + 3 /\ j \in Int /\ Told + 2 + j <= at
    <3>1. j \in Int BY <2>7
    <3>2. Told + 2 + j < at + 1 BY <1>1, <2>1
    <3> QED BY <1>0, <2>3, <2>7, <3>1, <3>2
  <2>9. PICK i \in 1 .. 8 : at = Told + 2 + i /\ step = trash_step("trash_file", i)
    <3>1. at # 1 /\ at # Told /\ at # Told + 1 /\ at # Told + 2 BY <1>0, <2>3, <2>8
    <3>2. \A p \in 1 .. N : \A m \in 1 .. 11 : at # StepAt(p, m)
      <4>1. \A p \in 1 .. N : \A m \in 1 .. 11 : StepAt(p, m) \in 2 .. Told - 1 BY PlacesDiffer
      <4>2. \A n \in 2 .. Told - 1 : at # n BY <1>0, <2>3, <2>8
      <4> QED BY <4>1, <4>2
    <3> QED BY <2>1, <2>2, <3>1, <3>2, StepOfPlan
  <2>10. step.tool = "trash_file" /\ step.requires = "file.trash" /\ step.index = i BY <2>9, TrashSteps
  <2>11. captures(step) = state BY <2>10 DEF captures
  <2>12. PICK d : d = carried_out(step) OBVIOUS
  <2>13. PICK g : g = about(step) OBVIOUS
  <2>14. g = t[i] BY <2>4, <2>10, <2>13 DEF about
  <2>15. d.files = [on_drive.files EXCEPT ![g] = "trashed"]
    <3>1. d.files = IF step.tool \in {"create_file", "copy_file"}
                    THEN [on_drive.files EXCEPT ![step.file] = "there"]
                  ELSE IF step.tool = "trash_file" THEN [on_drive.files EXCEPT ![g] = "trashed"]
                  ELSE IF step.tool = "untrash_file" THEN [on_drive.files EXCEPT ![g] = "there"]
                  ELSE on_drive.files
      BY <2>12, <2>13, Effects, Zenon
    <3> QED BY <2>10, <3>1
  <2>16. \/ ~Fit(step) /\ on_drive' = on_drive /\ state' = state
         \/ Fit(step) /\ on_drive' = d /\ state' = state
         \/ /\ Fit(step) /\ state' = state /\ on_drive' \in {on_drive, d}
            /\ \E x \in faults' : x.tool = step.tool /\ x.file = g
    BY <1>1, <2>2, <2>11, <2>12, <2>13, Done
  <2>17. t2 = t BY <2>4, <2>6, <2>16
  <2>18. j \in 1 .. Len(t) BY <2>6, <2>17
  <2>19. on_drive.files \in [FilesMade -> {"absent", "there", "trashed"}] BY DEF DemoTypes
  <2>20. CASE j = i
    <3>1. Fit(step)
      <4>1. ready(step) BY <2>4, <2>5, <2>10, <2>18, <2>20 DEF ready
      <4>2. possible(step) BY <2>10 DEF possible
      <4> QED BY <1>1, <2>1, <2>10, <4>1, <4>2 DEF Fit
    <3>2. CASE on_drive' = d
      <4>1. d.files[g] = "trashed" BY <2>5, <2>14, <2>15, <2>18, <2>19, <2>20
      <4> QED BY <2>6, <2>14, <2>17, <2>20, <3>2, <4>1
    <3>3. CASE \E x \in faults' : x.tool = step.tool /\ x.file = g
      <4>1. targets(state')[j] = g BY <2>6, <2>14, <2>17, <2>20
      <4> QED BY <2>10, <3>3, <4>1 DEF Faulty
    <3> QED BY <2>16, <3>1, <3>2, <3>3
  <2>21. CASE j # i
    <3>1. Told + 2 + j < at BY <1>0, <2>3, <2>8, <2>9, <2>21
    <3>2. on_drive.files[t[j]] = "trashed" \/ Faulty({"trash_file"}, t[j])
      BY <1>1, <2>1, <2>4, <2>18, <3>1, Zenon DEF Tidied
    <3>3. on_drive.files[t[j]] = "trashed" => on_drive'.files[t[j]] = "trashed"
      <4>1. on_drive' \in {on_drive, d} BY <2>16
      <4>2. t[j] \in FilesMade BY <2>5, <2>18
      <4> QED BY <2>15, <2>19, <4>1, <4>2

    <3>5. targets(state')[j] = t[j] BY <2>6, <2>17
    <3>6. CASE on_drive.files[t[j]] = "trashed" BY <3>3, <3>5, <3>6
    <3>7. CASE Faulty({"trash_file"}, t[j])
      <4>1. PICK h : h = t[j] OBVIOUS
      <4>2. Faulty({"trash_file"}, h)' BY <3>7, <4>1, FaultsStay
      <4>3. \E x \in faults' : x.tool \in {"trash_file"} /\ x.file = h BY <4>2 DEF Faulty
      <4> QED BY <3>5, <4>1, <4>3 DEF Faulty
    <3> QED BY <3>2, <3>6, <3>7
  <2> QED BY <2>20, <2>21
<1>2. ASSUME at' = 1, UNCHANGED <<on_drive, state, faults, feedback>> PROVE Tidied'
  <2>1. PICK n \in 0 .. 8 : n = Len(targets(state)) BY Targets
  <2>2. \A j \in 1 .. n : ~(Told + 2 + j < 1) BY <1>0
  <2>3. \A j \in 1 .. n : ~(Told + 2 + j < at') BY <1>2, <2>2
  <2>4. n = Len(targets(state')) BY <1>2, <2>1
  <2> QED BY <2>3, <2>4 DEF Tidied
<1>3. ASSUME UNCHANGED <<way, at, on_drive, state, faults>> PROVE Tidied'
  BY <1>3, Zenon DEF Tidied, Faulty
<1>4. CASE _one BY <1>1, <1>4, Zenon DEF Tidied
<1> QED BY <1>2, <1>3, <1>4, Steps

LEMMA DemoInvKept == DemoInv /\ [DemoNext]_demoVars => DemoInv'
BY TypesKept, ConsentKept, RegisterStays, GrantsStay, AccountStays, TidyStays, Zenon DEF DemoInv

LEMMA DemoInvAlways == DemoSpec => []DemoInv
<1>1. DemoInit => DemoInv BY DemoStarts
<1>2. DemoInv /\ [DemoNext]_demoVars => DemoInv' BY DemoInvKept
<1> QED BY <1>1, <1>2, PTL DEF DemoSpec

\* When the plan is through.
LEMMA AtTheEnd ==
  ASSUME DemoTypes, RunOver
  PROVE  /\ at = IF way.keep THEN Told + 1 ELSE Told + 11
         /\ Told \in Nat /\ Told = 2 + 11 * N /\ N \in Nat
<1>1. N \in Nat /\ Told \in Nat /\ Told = 2 + 11 * N BY KindsInOrder DEF Told
<1>2. PICK keep \in BOOLEAN : keep = way.keep BY DEF DemoTypes
<1>3. PICK n : n = Len(Plan[keep]) OBVIOUS
<1>4. n = IF keep THEN Told ELSE Told + 10 BY <1>3, PlanSteps
<1>5. DOMAIN Plan[keep] = 1 .. n BY <1>3, PlanSteps
<1>6. at \in 0 .. n + 1 BY <1>2, <1>3 DEF DemoTypes
<1>7. at > 0 /\ at \notin 1 .. n BY <1>2, <1>5 DEF RunOver
<1>8. at = n + 1 BY <1>1, <1>4, <1>6, <1>7
<1>9. at = IF keep THEN Told + 1 ELSE Told + 11 BY <1>1, <1>4, <1>8
<1> QED BY <1>1, <1>2, <1>9

\* What has been captured was made, and the bounds are kept (demo/_plan.py, demo/_run.py).
THEOREM DemoTypesHold == DemoSpec => []DemoTypeOK
<1>1. DemoInv => DemoTypeOK
  <2> SUFFICES ASSUME DemoTypes, AllAccounted PROVE DemoTypeOK BY DEF DemoInv
  <2>1. at \in 0 .. Len(Plan[FALSE]) + 1
    <3>1. PICK keep \in BOOLEAN : keep = way.keep BY DEF DemoTypes
    <3>2. PICK n, m : n = Len(Plan[keep]) /\ m = Len(Plan[FALSE]) OBVIOUS
    <3>3. Told \in Nat BY KindsInOrder DEF Told
    <3>4. n = IF keep THEN Told ELSE Told + 10 BY <3>2, PlanSteps
    <3>5. m = Told + 10
      <4>1. PICK no \in BOOLEAN : no = FALSE BY Zenon
      <4>2. Len(Plan[no]) = IF no THEN Told ELSE Told + 10 BY PlanSteps
      <4> QED BY <3>2, <4>1, <4>2, Zenon
    <3>6. at \in 0 .. n + 1 BY <3>1, <3>2 DEF DemoTypes
    <3>7. at \in 0 .. m + 1 BY <3>3, <3>4, <3>5, <3>6
    <3> QED BY <3>2, <3>7
  <2>2. Cardinality(faults) <= MaxFaults
    <3>1. PICK c : c = Cardinality(faults) OBVIOUS
    <3>2. c \in 0 .. MaxFaults /\ MaxFaults \in Nat BY <3>1, DemoAssumption DEF DemoTypes
    <3>3. c <= MaxFaults BY <3>2
    <3> QED BY <3>1, <3>3
  <2>3. \A f \in state.ids : on_drive.files[f] # "absent" BY DEF DemoTypes, AllAccounted
  <2>4. on_drive.shared \cup on_drive.commented \subseteq Kinds BY DEF DemoTypes
  <2> QED BY <2>1, <2>2, <2>3, <2>4 DEF DemoTypeOK
<1> QED BY <1>1, DemoInvAlways, PTL

LEMMA LeavesNothing == DemoInv => NothingIsLeftBehind
<1> SUFFICES ASSUME DemoTypes, AllAccounted, Tidied, RunOver, ~way.keep, "file.trash" \in way.enabled,
                    NEW f \in FilesMade, on_drive.files[f] = "there"
             PROVE  Faulty({"create_file", "copy_file", "trash_file"}, f)
  BY Zenon DEF DemoInv, NothingIsLeftBehind
<1>1. at = Told + 11 /\ Told \in Nat BY AtTheEnd
<1>2. f \in state.ids \/ Faulty({"create_file", "copy_file"}, f) BY DEF AllAccounted
<1>3. CASE f \in state.ids
  <2>1. PICK t : t = targets(state) OBVIOUS
  <2>2. Len(t) \in 0 .. 8 /\ \E j \in 1 .. Len(t) : t[j] = f BY <1>3, <2>1, Targets
  <2>3. PICK n \in 0 .. 8 : n = Len(t) BY <2>2
  <2>4. PICK j \in 1 .. n : t[j] = f BY <2>2, <2>3
  <2>5. Told + 2 + j < at BY <1>1
  <2>6. on_drive.files[t[j]] = "trashed" \/ Faulty({"trash_file"}, t[j])
    BY <2>1, <2>3, <2>5, Zenon DEF Tidied
  <2> QED BY <2>4, <2>6 DEF Faulty
<1>4. CASE Faulty({"create_file", "copy_file"}, f) BY <1>4 DEF Faulty
<1> QED BY <1>2, <1>3, <1>4

LEMMA GivesBackGrants == DemoInv => GrantsAreTakenBack
<1> SUFFICES ASSUME DemoTypes, GrantsKept, RunOver, NEW k \in on_drive.shared
             PROVE  Faulty({"share_file", "unshare_file"}, File(k, FALSE))
  BY Zenon DEF DemoInv, GrantsAreTakenBack
<1>1. ~TakenBackSoon(k)
  <2>1. at >= Told + 1 /\ Told \in Nat /\ at \in Nat BY AtTheEnd
  <2>2. ASSUME NEW p \in 1 .. N, NEW m \in 1 .. 11 PROVE at # StepAt(p, m)
    <3>1. StepAt(p, m) \in 2 .. Told - 1 BY PlacesDiffer
    <3>2. \A n \in 2 .. Told - 1 : at # n BY <2>1
    <3> QED BY <3>1, <3>2
  <2>3. 10 \in 1 .. 11 /\ 11 \in 1 .. 11 OBVIOUS
  <2>4. \A p \in 1 .. N : at # StepAt(p, 10) /\ at # StepAt(p, 11) BY <2>2, <2>3
  <2> QED BY <2>4, Zenon DEF TakenBackSoon
<1> QED BY <1>1, Zenon DEF GrantsKept

\* The children go before the folder, step by step.
LEMMA FolderGoesLast ==
  ASSUME DemoInv, [DemoNext]_demoVars,
         on_drive'.files[Folder] = "trashed", on_drive.files[Folder] = "there", state.ids # {Folder},
         NEW f \in state.ids \ {Folder}
  PROVE  on_drive.files[f] = "trashed" \/ Faulty({"trash_file"}, f)
<1>0. DemoTypes /\ Tidied BY DEF DemoInv
<1>1. on_drive' # on_drive OBVIOUS
<1>2. _one BY <1>1, Steps
<1>3. at \in DOMAIN Plan[way.keep] BY <1>2, StepTaken
<1>4. PICK step : step = Current OBVIOUS
<1>5. PICK d : d = carried_out(step) OBVIOUS
<1>6. Fit(step) /\ on_drive' = d
  <2>1. PICK s : s = captures(step) OBVIOUS
  <2>2. \/ ~Fit(step) /\ on_drive' = on_drive /\ state' = state
        \/ Fit(step) /\ on_drive' = d /\ state' = s
        \/ Fit(step) /\ state' = state /\ on_drive' \in {on_drive, d}
    BY <1>2, <1>4, <1>5, <2>1, Done
  <2> QED BY <1>1, <2>2
<1>7. PICK g : g = about(step) OBVIOUS
<1>8. d.files = IF step.tool \in {"create_file", "copy_file"}
                THEN [on_drive.files EXCEPT ![step.file] = "there"]
              ELSE IF step.tool = "trash_file" THEN [on_drive.files EXCEPT ![g] = "trashed"]
              ELSE IF step.tool = "untrash_file" THEN [on_drive.files EXCEPT ![g] = "there"]
              ELSE on_drive.files
  BY <1>0, <1>5, <1>7, Effects, Zenon
<1>9. step.tool = "trash_file" /\ g = Folder
  <2>1. on_drive.files \in [FilesMade -> {"absent", "there", "trashed"}] BY <1>0 DEF DemoTypes
  <2>2. Folder \in FilesMade BY DEF FilesMade
  <2>3. d.files[Folder] = "trashed" /\ on_drive.files[Folder] = "there" BY <1>6
  <2> QED BY <1>8, <2>1, <2>2, <2>3
<1>10. PICK t : t = targets(state) OBVIOUS
<1>11. /\ Len(t) \in 0 .. 8 /\ \A h \in state.ids : \E j \in 1 .. Len(t) : t[j] = h
       /\ \A j \in 1 .. Len(t) : t[j] = Folder => j = Len(t)
  BY <1>0, <1>10, Targets
<1>12. PICK n \in 0 .. 8 : n = Len(t) BY <1>11
<1>13. /\ ~way.keep /\ step.index \in 1 .. 8 /\ step.requires = "file.trash"
       /\ (at = Told + 1 /\ step.index = 1) \/ at = Told + 2 + step.index
  BY <1>0, <1>3, <1>4, <1>9, StepsByTool
<1>14. step.index <= n BY <1>6, <1>9, <1>10, <1>12 DEF Fit, ready
<1>15. PICK i \in 1 .. n : i = step.index BY <1>13, <1>14
<1>16. t[i] = Folder BY <1>7, <1>9, <1>10, <1>13, <1>15 DEF about
<1>17. i = n BY <1>11, <1>12, <1>16
<1>18. PICK j \in 1 .. n : t[j] = f BY <1>11, <1>12
<1>19. j # n BY <1>16, <1>17, <1>18
<1>20. j < i BY <1>17, <1>19
<1>21. at = Told + 2 + i BY <1>13, <1>15, <1>20
<1>22. Told \in Nat BY KindsInOrder DEF Told
<1>23. Told + 2 + j < at BY <1>20, <1>21, <1>22
<1>24. "file.trash" \in way.enabled BY <1>6, <1>13 DEF Fit
<1>25. on_drive.files[t[j]] = "trashed" \/ Faulty({"trash_file"}, t[j])
  BY <1>0, <1>10, <1>12, <1>13, <1>23, <1>24, Zenon DEF Tidied
<1> QED BY <1>18, <1>25

\* Whatever fails, is declined or loses its answer, a run that is over has trashed or tried
\* to trash all that it knows of, has taken back or tried to take back all that it granted,
\* and never trashed the folder before it had tried what is in it
\* (demo/_plan.py:424-457, 497-535; demo/_run.py).
THEOREM TheDriveIsLeftAsItWas == DemoSpec => TakesBackWhatItMade
<1>1. DemoInv => NothingIsLeftBehind /\ GrantsAreTakenBack BY LeavesNothing, GivesBackGrants
<1>2. DemoInv /\ [DemoNext]_demoVars =>
        [on_drive'.files[Folder] = "trashed" /\ on_drive.files[Folder] = "there" /\ state.ids # {Folder} =>
           \A f \in state.ids \ {Folder} : on_drive.files[f] = "trashed" \/ Faulty({"trash_file"}, f)]_demoVars
  BY FolderGoesLast
<1> QED BY <1>1, <1>2, DemoInvAlways, PTL DEF DemoSpec, TakesBackWhatItMade, ChildrenGoFirst

\* The register that is applied to a file is the file's own.
LEMMA AppliesItsOwn ==
  ASSUME DemoInv, at > 0, [DemoNext]_demoVars, at' = at + 1,
         Current.tool = "apply_comment_actions", ready(Current)
  PROVE  state.register = Current.file.of \/ Faulty({"export_comments"}, Current.file)
<1>0. DemoTypes /\ RegisterKept BY DEF DemoInv
<1>1. _one
  <2>1. at \in Nat
    <3>1. PICK keep \in BOOLEAN : keep = way.keep BY <1>0 DEF DemoTypes
    <3>2. PICK n : n = Len(Plan[keep]) OBVIOUS
    <3>3. Told \in Nat BY KindsInOrder DEF Told
    <3>4. n \in Nat BY <3>2, <3>3, PlanSteps
    <3>5. at \in 0 .. n + 1 BY <1>0, <3>1, <3>2 DEF DemoTypes
    <3> QED BY <3>4, <3>5
  <2>2. at # 0 /\ at' # at BY <2>1
  <2> QED BY <2>2, Steps
<1>2. at \in DOMAIN Plan[way.keep] BY <1>1, StepTaken
<1>3. PICK step : step = Current OBVIOUS
<1>4. PICK p \in 1 .. N : step.file = File(TYPES[p], FALSE) /\ at = StepAt(p, 7)
  BY <1>0, <1>2, <1>3, StepsByTool
<1>5. step.file.of = TYPES[p] BY <1>4 DEF File
<1>6. File(step.file.of, FALSE) \in state.ids BY <1>3 DEF ready
<1>7. File(TYPES[p], FALSE) \in state.ids BY <1>5, <1>6, Zenon
<1>8. state.register = TYPES[p] \/ Faulty({"export_comments"}, File(TYPES[p], FALSE))
  BY <1>0, <1>4, <1>7, Zenon DEF RegisterKept
<1> QED BY <1>3, <1>4, <1>5, <1>8, Zenon

\* Nobody is given access because of the environment of an unattended run, nothing is posted
\* without a yes to what was shown, and a register is applied to the file it is of
\* (demo/_plan.py:338-368, demo/_cli.py:57-83, 131-169).
THEOREM ItActsAsAsked == DemoSpec => ActsAsAsked
<1>1. DemoInv => NobodyIsSharedWithUnasked /\ PostedWithConsent
  BY DEF DemoInv, Consented, NobodyIsSharedWithUnasked
<1>2. DemoInv /\ [DemoNext]_demoVars =>
        [at' = at + 1 /\ at > 0 /\ Current.tool = "apply_comment_actions" /\ ready(Current) =>
           \/ state.register = Current.file.of
           \/ Faulty({"export_comments"}, Current.file)]_demoVars
  BY AppliesItsOwn, Zenon
<1> QED BY <1>1, <1>2, DemoInvAlways, PTL DEF DemoSpec, ActsAsAsked, RegisterIsItsOwn

-----------------------------------------------------------------------------
(* The components side by side. *)

\* In a behaviour of the whole library every component behaves as its own specification
\* says, whichever of them moves: what is proved of a component alone holds beside the others.
\* What a Workspace hands out shares its Backend and nothing else (workspace.py:26-78).
THEOREM EveryPartIsItself ==
  WSpec => /\ CallSpec /\ BookSpec /\ DocSpec /\ PassageSpec /\ ExportSpec
           /\ ThreadSpec /\ FilesSpec /\ SharingSpec /\ LabelsSpec /\ DemoSpec
<1>1. WInit => /\ CallInit /\ BookInit /\ DocInit /\ PassageInit /\ ExportInit
               /\ ThreadInit /\ FilesInit /\ SharingInit /\ LabelsInit /\ DemoInit
  BY DEF WInit
<1>2. [WNext]_wvars =>
        /\ [CallNext]_callVars /\ [BookNext]_bookVars /\ [DocNext]_docVars
        /\ [PassageNext]_passageVars /\ [ExportNext]_exportVars /\ [ThreadNext]_threadVars
        /\ [FilesNext]_fileVars /\ [SharingNext]_sharingVars /\ [LabelsNext]_labelVars
        /\ [DemoNext]_demoVars
  BY DEF WNext, wvars
<1> QED
  BY <1>1, <1>2, PTL DEF WSpec, CallSpec, BookSpec, DocSpec, PassageSpec, ExportSpec, ThreadSpec,
                         FilesSpec, SharingSpec, LabelsSpec, DemoSpec

\* No step of any component takes a variable of the library out of its type: calls, tabs and
\* maps, writes to a Doc, passages, registers, threads, files, grants, labels and the demonstration
\* (workspace.py:26-78).
THEOREM WorkspaceTypes == WSpec => []WorkspaceTypeOK
<1>1. /\ CallTypeOK /\ BookTypeOK /\ DocTypeOK /\ PassageTypeOK /\ ExportTypeOK
      /\ ThreadTypeOK /\ FilesTypeOK /\ SharingTypeOK /\ LabelsTypeOK /\ DemoTypeOK
      => WorkspaceTypeOK
  BY DEF WorkspaceTypeOK
<1> QED
  BY <1>1, EveryPartIsItself, CallTypes, BookTypesKept, DocTypes, PassageTypes, ExportTypes,
     NothingIsLeftOfTheDeleted, FilesTypes, SharingTypes, IdsAreNoNames, DemoTypesHold, PTL
=============================================================================
