---------------------------- MODULE GoogleCalls ----------------------------
(***************************************************************************)
(* One Backend method on its way to Google and back: ApiBackend            *)
(* (backend.py) sends one request, or one per page of a listing, through   *)
(* _errors.call, which repeats some failures and translates the rest; the  *)
(* tool that made the call turns the outcome into what the client reads    *)
(* (mcp/_tools/_base.py).                                                  *)
(*                                                                         *)
(* Time is counted in half seconds, the unit of the first pause.  Google   *)
(* may carry a write out and lose the answer, and a listing may grow while *)
(* it is read.                                                             *)
(***************************************************************************)
EXTENDS Integers, FiniteSets

CONSTANTS
  MaxPages,   \* the pages a listing grows to at most
  Hints       \* the Retry-After headers Google sends, in seconds; any integer, NoHint for none

ASSUME CallAssumption == MaxPages \in Nat \ {0} /\ Hints \subseteq Int

VARIABLES
  call,    \* the call: its method, the page and the attempt it is at, what it has slept
  pages,   \* the pages the listing has
  done,    \* how often Google has carried the call out
  result   \* how the call ended: its outcome, the pages it returned, what the client reads

callVars == <<call, pages, done, result>>

-----------------------------------------------------------------------------
(* The methods, by what they ask of Google. *)

AccountReads == {"get_about_user", "get_file_metadata", "get_drive"}
UpstreamRefusals == {"accept_suggestion", "create_cell_anchored_comment"}
ThreadReads == {"list_comments", "get_comment"}
ThreadWrites == {"create_comment", "create_reply", "update_comment", "update_reply",
                 "delete_comment", "delete_reply"}
ByteReads == {"export_file", "download_file"}
GrantReads == {"list_permissions", "list_access_proposals"}
FileWrites == {"create_file", "copy_file", "update_file_metadata", "trash_file"}
GrantWrites == {"create_permission", "update_permission", "delete_permission"}
ProposalWrites == {"resolve_access_proposal"}
StructureWrites == {"sheets_add_tab", "sheets_delete_tab", "docs_add_tab", "docs_delete_tab",
                    "docs_delete_range"}
LabelReads == {"list_file_labels", "get_label_definition"}
BodyReads == {"search_files", "get_document", "get_spreadsheet", "get_sheet_notes",
              "get_values", "get_presentation"}
BodyWrites == {"docs_batch_update", "sheets_values_update", "sheets_values_append",
               "sheets_values_clear", "sheets_batch_update", "slides_batch_update"}

Writes == ThreadWrites \cup FileWrites \cup GrantWrites \cup ProposalWrites
          \cup StructureWrites \cup BodyWrites
Reads == AccountReads \cup ThreadReads \cup ByteReads \cup GrantReads \cup LabelReads
         \cup BodyReads
Methods == Reads \cup Writes \cup UpstreamRefusals

\* Mutant: every listing stops after its first page.
first_page_only == {}
\* Read page by page until there is no next one.
Paged == {"list_comments", "list_permissions", "list_access_proposals", "list_file_labels"}

\* Mutant: writes too are repeated after an answer that leaves open what happened.
everything_idempotent(m) == TRUE
\* What ApiBackend passes as idempotent.
idempotent(m) == m \notin Writes

-----------------------------------------------------------------------------
(* What Google answers, and what becomes of it. *)

\* An answer by its status: 401, 404, the three things a 403 means, 429, the four
\* 5xx that pass, any other failure, and no answer at all (not an HttpError).
Answer == {"ok", "401", "404", "403", "403 disabled", "403 too long", "429", "5xx",
           "other", "cut"}
\* The answers after which a write may have been carried out all the same.
Uncertain == {"5xx", "cut"}

MaxAttempts == 4
\* Half a second, doubled with every attempt that is followed by another.
backoff == <<1, 2, 4>>

NoHint == -1
\* Mutant: a negative hint is slept.
retry_after_raw(hint) == hint
\* A negative hint counts as none.
retry_after(hint) == IF hint >= 0 THEN hint ELSE NoHint

\* The pause before the next attempt, in half seconds: the hint of a 429 up to a
\* minute, else doubling from half a second.
pause(attempt, r, hint) ==
  IF r = "429" /\ retry_after(hint) # NoHint
    THEN 2 * (IF retry_after(hint) <= 60 THEN retry_after(hint) ELSE 60)
    ELSE backoff[attempt]

\* A 429 was not carried out; a 5xx may have been, so only a read is repeated.
retryable(m, r) == r = "429" \/ (r = "5xx" /\ idempotent(m))

translate_http_error(r) ==
  CASE r = "401" -> "AuthError"
    [] r = "404" -> "NotFoundError"
    [] r = "403" -> "AccessError"
    [] r = "403 disabled" -> "ServiceDisabledError"
    [] r = "403 too long" -> "InvalidInputError"
    [] r = "429" -> "RateLimitError"
    [] r = "cut" -> "OSError"
    [] OTHER -> "ApiError"

\* The ladder of _errors: the outcomes it has a sentence for, and the rest, which
\* it raises again and the SDK strips of their message.
Explains == {"ReadOnlyError", "NotFoundError", "AccessError", "AuthError", "ConflictError",
             "UnsupportedOperation", "ApiError", "ValueError"}
wrapped(outcome) ==
  IF outcome = "ok" THEN "result"
  ELSE IF outcome \in Explains THEN "explained" ELSE "suppressed"

-----------------------------------------------------------------------------
NoResult == [outcome |-> "none", of |-> "none", pages |-> 0, since |-> 0, reads |-> "nothing"]
NoCall == [at |-> "idle", method |-> "none", page |-> 0, attempt |-> 0, slept |-> 0,
           first |-> 0]

CallInit ==
  /\ call = NoCall /\ pages = 1
  /\ done = 0 /\ result = NoResult

\* A tool calls a method.  Two of them Google does not offer.
Ask(m) ==
  /\ call.at = "idle"
  /\ done' = 0
  /\ IF m \in UpstreamRefusals
       THEN /\ result' = [NoResult EXCEPT !.outcome = "UnsupportedOperation", !.of = m,
                                          !.reads = wrapped("UnsupportedOperation")]
            /\ UNCHANGED call
       ELSE /\ call' = [at |-> "asked", method |-> m, page |-> 1, attempt |-> 1,
                        slept |-> 0, first |-> pages]
            /\ result' = NoResult
  /\ UNCHANGED pages

\* Google has more to list than when the call began.
Grow ==
  /\ pages < MaxPages /\ pages' = pages + 1
  /\ UNCHANGED <<call, done, result>>

Continue(at, page, attempt, slept) ==
  call' = [at |-> at, method |-> call.method, page |-> page, attempt |-> attempt,
           slept |-> slept, first |-> call.first]

End(outcome) ==
  /\ call' = NoCall
  /\ result' = [outcome |-> outcome, of |-> call.method, pages |-> call.page,
                since |-> call.first, reads |-> wrapped(outcome)]

\* Mutant: the token of the next page is not taken over.
the_page_again(page) == page
\* The next request of a listing carries the token of the next page.
next_page(page) == page + 1

\* The request is carried out and answered; a listing goes on while there is a
\* next page, each page with attempts of its own.
Served ==
  /\ call.at = "asked"
  /\ done' = IF call.method \in Writes THEN done + 1 ELSE done
  /\ IF call.method \in Paged /\ call.page < pages
       THEN /\ Continue("asked", next_page(call.page), 1, 0)
            /\ UNCHANGED result
       ELSE End("ok")
  /\ UNCHANGED pages

Failed(r, hint) ==
  /\ call.at = "asked"
  /\ done' \in {done} \cup (IF r \in Uncertain /\ call.method \in Writes THEN {done + 1} ELSE {})
  /\ IF retryable(call.method, r) /\ call.attempt < MaxAttempts
       THEN /\ Continue("asleep", call.page, call.attempt,
                       call.slept + pause(call.attempt, r, hint))
            /\ UNCHANGED result
       ELSE End(translate_http_error(r))
  /\ UNCHANGED pages

Wake ==
  /\ call.at = "asleep"
  /\ Continue("asked", call.page, call.attempt + 1, call.slept)
  /\ UNCHANGED <<pages, done, result>>

Answered == Served \/ \E r \in Answer \ {"ok"}, hint \in Hints : Failed(r, hint)

CallNext == (\E m \in Methods : Ask(m)) \/ Grow \/ Answered \/ Wake

CallSpec == CallInit /\ [][CallNext]_callVars

\* Requests time out after a minute, and sleeping ends.
CallFairness == WF_callVars(Answered) /\ WF_callVars(Wake)
=============================================================================
