# A TLA+ verification of csa-google-workspace

`csa-google-workspace` is a Python library and an MCP server through which a
language model, acting as a person, reads and changes that person's Google Docs,
Sheets and Slides: comments above all, but also content, files and sharing. This
directory models the parts of it where steps of several actors, failures and
restarts meet, checks the models with TLC and proves the central invariants with
TLAPS. Line numbers are those of `src/src/csa_google_workspace/`.

Contents: 1 the system, 2 the modules, 3 how the modules correspond to the code,
4 the runs and their bounds, 5 fairness, 6 the proofs, 7 divergences met while
modelling, 8 what is not modelled, 9 the plan.

## 1. The system

| Part | Source | State it keeps | Operations | Must be right about |
|---|---|---|---|---|
| Register application | `_apply.py`, `mcp/_tools/comments.py` | a spreadsheet on disk with completed markers; a run's listing, rows and results | `apply_comment_actions`: read rows, list comments, reply / resolve / reopen / delete per row, write markers back | nothing said twice, nothing deleted that was not named, reports and markers that tell the truth, over crashes, lost answers and re-runs |
| Credential cache and sessions | `auth.py`, `mcp/_auth_flow.py`, `mcp/_tools/auth.py`, `mcp/_login.py`, `mcp/_config.py` | token files shared by all processes; a Workspace per worker thread; a loopback listener; a verification thread | tool calls that load and refresh a token, `authenticate`, `auth_status`, `login` | a read-only posture never holds a credential that can write; a failed consent costs nothing; the newest consent stands; status answers are true and come |
| Policy and configuration | `policy.py`, `mcp/_config.py`, `allowlist.py`, `workspace.py` | the policy, built once from the environment | start (or refuse to), gate each Backend call, filter listings | nothing changes that the operator's text does not grant; nothing outside the lists changes or is named |
| Retry and errors; Backend | `_errors.py`, `backend.py`, `_services.py`, `mcp/_tools/_base.py` | the attempt and the page a call is at | repeat 429s and idempotent 5xx, translate the rest; one request per method, one per page of a listing | a write that may have been done is not repeated, the outcome tells what happened, a listing is whole |
| Docs | `documents/doc.py`, `_content.py`, `base.py`, `mcp/_tools/content_write.py` | none: it reads a document and writes by index in the next request | insert, append, delete range, replace; tabs, which nest | text lands in the tab and at the place the caller said |
| Passages | `_context.py` | none | the passage a quote stands in, and the headings it is under | a repeated quote is not given the other occurrence's passage; absent means absent |
| Sheets and cell mapping | `documents/sheet.py`, `_cellmap.py` | the cached map of comments to cells | map, look up, write and forget the map; add and delete tabs by name | a cell said to be free of comments is free; the tab deleted is the tab named |
| Comments | `comments.py`, `mcp/_tools/comments.py` | a tool's copy of a thread | list, get, create, reply, resolve, reopen, edit, delete | what a tool answers is what it did |
| Register export | `_export.py`, `mcp/_tools/comments.py` | rows under construction; a file or a spreadsheet it creates | list, read tabs and cells, choose a path, write | each row shows its own cell; nothing is written over; the register can be handed back |
| Files and inventory | `files.py`, `_inventory.py`, `mcp/_tools/files.py` | a walk through pages or ids | search, recent, inventory, create, copy, move, trash | a filtered page is not the end; no id is lost; a namesake is not the subject |
| Sharing | `permissions.py`, `access_proposals.py` | ids seen earlier | share, change a role, revoke, answer a request for access | access changes for whom, and to what, the caller said |
| Labels | `labels.py` | none: a listing from one API and names from another | `labels` | a labelled file is never reported as unlabelled |
| Demonstration | `demo/` | ids captured by earlier steps | a scripted tour with cleanup, then a feedback issue | a failed step leaves nothing behind; nobody is involved who was not asked |
| MCP server, command line, resources | `mcp/` (the rest) | registered tools | argument checks, schemas, text | declarations in front of the library |

How they interact. A tool handler runs on a worker thread of the MCP server. It
asks `WorkspaceProvider` for that thread's Workspace, which loads the token file,
refreshes it if need be and writes it back. The Workspace wraps `ApiBackend` in
`PolicyBackend`; every Backend method a document, comment or file collection
calls goes through the gate and then through `_errors.call` to Google. The
processes (servers of several MCP clients, `login` in a terminal) share the token
files and the register files and nothing else: no lock guards either. The
documents are shared with the people who edit them, so most operations of the
library are races with people: it reads in one request and writes, by the index,
name or id it read, in the next.

What is hard, and hard to test: a register run judged by a listing taken at its
start while people act; a write whose answer is lost; a process that dies between
the change and the marker; two writers of one token file, one of which read it
before the other's consent; a verification thread that outlives its timeout; a
position, name or id that has changed hands between two requests; a page that the
policy empties; an answer from a copy. `PROJECT.json` ("hazards") lists each with
its line and the property that covers it.

## 2. The modules

| Module | What it is |
|---|---|
| `ApplyRegister` | the register tool, the document it acts on, the register file, the people around it |
| `RegisterPromise` | the abstract specification: at most one live copy of each reply, none on a deleted thread |
| `ApplyRegisterProperties` | invariants, action properties, the refinement mapping, convergence |
| `ApplyRegisterProofs` | proofs of type correctness, of at-most-once posting, of the refinement of the promise, of what markers and reports say, and of what each step of a run may do |
| `MCApplyRegister` | menus of register rows for TLC |
| `Credentials` | token files, refresh, consent, status, login |
| `CredentialsProperties`, `MCCredentials` | their properties and instances |
| `CredentialsProofs` | proofs of postures, tokens, status answers, and of what alone can undo a consent |
| `PolicyGate` | the environment, the policy made from it, the gates, what each method changes |
| `PolicyGateProperties`, `MCPolicyGate` | their properties and instances |
| `GoogleCalls` | one Backend method over an unreliable Google: repetition, pauses, paging, translation |
| `PolicyGateProofs` | proofs about `PolicyGate`: all five invariants of the policy |
| `Workbook` | a spreadsheet: tabs by name, comments by cell, the cached map |
| `DocTabs` | a document: nested tabs, text written by index |
| `Passage` | which passage of a document a comment is shown with |
| `RegisterExport` | the export of a register: rows, caveats, columns, the path and the file |
| `ThreadTools` | the comment tools of one file, each with its copy of a thread |
| `DriveFiles` | searches, inventories, and the life of a file |
| `Sharing` | grants and requests for access |
| `FileLabels` | labels, and the names a second API gives them |
| `DocumentsProofs` | proofs about `Workbook` and `DocTabs`: look-ups, tabs by name, what a reading covers, where text lands |
| `CommentsProofs` | proofs about `ThreadTools`, `RegisterExport` and `Passage`: answers, what a deletion leaves, overwriting, what a register says, which passage a quote gets |
| `FilesProofs` | proofs about `Sharing`, `FileLabels` and `DriveFiles`: access, labels, searches, inventories |
| `Demonstration` | the plan, the runner, the cleanup, the feedback |
| `WorkspaceProofs` | proofs about `GoogleCalls` (outcomes tell what was done, listings are whole, pauses bounded), about `Demonstration` (the cleanup, the grants, what is shared, posted and applied), and about the components side by side (`MCWorkspace`) |
| `SequenceFacts` | lemmas about induction on numbers, flattened sequences, sets listed as sequences and counting, for the other proof modules |
| `...Properties` | the properties of the module of that name |
| `MCWorkspace` | the ten modules from `GoogleCalls` on, on small instances |

The mutants named in `PROJECT.json` are operators beside the definition they
replace (`mine_already_said_never`, `write_anyway`, `victim_by_position`, ...):
each is a plausible bug, and each makes the property it is listed with fail.

A property a run checks is often the conjunction of a few that belong together
(`AnswersAreTrue == []DoneIsNotDenied /\ AnswersShowTheChange /\ ReadOnlyWritesNothing`):
the conjuncts are defined, each with its comment, above it.

## 3. Model and code

**ApplyRegister.** `ReadRegister` is the start of the tool (read the rows, refuse an
invalid register), `ListComments` the listing, then `RowStep` is one pass of the
loop of `apply_rows`, split into the branches of the loop body in their order:
malformed rows, rows that name no listed thread (with the tombstone look-up),
deletions, the reply, and the closing. A row that both answers and closes takes
two steps (`pc = "row"`, then `"resolve"`), because the answer to the first call
may be an error after the call took effect (`Answers`, `Landed`). `write_back` is
the save after the last row: a `.csv` is rewritten whole, an `.xlsx` is reopened
and gets its markers cell by cell. `Crash` may come at any step. `Human` actions
are the other people: replying, resolving, deleting, editing a cell, sorting the
sheet. Replies carry who posted them, since the duplicate check looks at the
author. Texts are model values; a reply's text is compared, never rendered.

**Credentials.** A token is the grant it came from, its scopes and whether it is
fresh. A file is a token, empty (truncated by a write that has not finished),
absent, or garbled. The actors are worker threads, `authenticate` calls,
`auth_status` verifications and `login` commands; an actor's `at` is the place in
the code between two accesses to a shared thing (the file, Google, the listener).
`OpenToken` truncates, `WriteToken` fills: two writers can interleave. `Hear` is a
request that reaches the loopback listener, the redirect or anything else: the server's
own listener takes the redirect alone (`wanted`), the library's, which `login` uses, the
first request whatever it carries, and the exchange of a stray one fails. `kept` is
history: the newest consent written to a file and who was then between reading and
writing it (`Refreshing`); no action reads it.

**PolicyGate.** An environment is a record; a list is the set of its lines, each a
URL (reduced to its id), a `*`, a note or an unusable line. `Starts` says which
environments the server starts from, `policy_from_env` what it makes of them,
`effective` what a workspace enforces (a read-only one replaces the policy).
`guarded` is the gate. `Effects` gives, for each Backend method, the sets of
aspects of a file that a call may change; a raw batch of a Doc, a Sheet or a presentation
(`RawBatches`) may change content, structure (tabs, sheets, ranges) and the title, whatever
its gate is called. Methods without a gate are represented by
one (`Ungated`) whose effect would be disastrous.

**GoogleCalls.** `Ask` is the call of a Backend method, `Served` and `Failed` are
Google's answers, `Wake` the end of a pause. A 5xx or a cut connection may hide a
write that was carried out, so `Failed` chooses whether `done` grows; `idempotent` is what
`ApiBackend` passes for the method and decides what `_errors.call` repeats. A listing
goes through its pages (`next_page`), each with attempts of its own, while it grows. Time
is counted in half seconds, the first pause. `wrapped` is the ladder of `_base.py` that
decides whether the client reads an explanation.

**Workbook.** `pins` are the comments where Sheets has them; Google's comment listing
does not say the cell, so `_cell_map` exports the file (`Export`), lists the comments
(`Match`, a later request) and joins the two by author, text and second (`Keys`, with
collisions). `comments_by_cell` is `ListComments`, `Locate`, `Narrow`. What the export
says is at the mercy of an unreadable relationship graph or a missing part
(`parse_xlsx_comments(readable, named)`). Every write of the Sheet forgets the map before
it sends (`forgets_the_map`), also if the request then fails. `AddTab` and `DeleteTab`
look a name up in one step and `SendAdd` and `SendDelete` act in another, by name and by
id. The columns of cells are left out: rows are enough to move.

**DocTabs.** `doc_tabs` is the response as a flat sequence with parents; `walk` and
`doc_tab_end_indices` read it depth-first as `_content.py` does. `append_text` is
`ReadEnds` and then `SendInsert` with the index and tab read; a replacement is
`SendDeleteRange` and `SendReplacement`, the two tool calls a caller composes. A text is a
sequence of pieces one index wide. What Google takes a request without a tab id to mean
(the first tab) is in `addressed`, an external definition. A deletion takes a tab with all
that is nested in it (`Nested`) and leaves the others in their order (`Without`).

**Passage.** A document is a sequence of elements with rows of words, a newline being a
word, so that a quote can cross elements; `build` follows `_context.build` branch by
branch over them, `StartsIn` and `count` being `str.find` and `str.count`. It is a pure
algorithm with one request in front of it: TLC goes through every document of up to
three elements of the menu, and every quote. Which word ends a line is the constant
`Newline`; every paragraph ends in it, so that a quote that stands inside one cannot stand
across its border as well. "Once" is meant as `str.count` means it: places that overlap
(`aa` in `aaa`) are one. The note that `cap` puts after a cut passage is the one word
`TRUNCATED`, beyond the limit.

**RegisterExport.** A call lists the comments (with the tabs the export of the workbook
said), reads the tab names, then the cells of each, makes the rows, and delivers: to the
caller, to a file whose name is looked at (`ChooseName`) and written (`WriteRegister`) in
two steps, or to a new spreadsheet (`UploadSheet`, `FillSheet`). A workbook asked for where
openpyxl is not installed is refused once its name is chosen. Two calls run at once,
the clock ticks by seconds, other programs create files, somebody deletes a tab.

**ThreadTools.** A call is `CallTool`, `Fetch`, `Change`, and for edits and deletions
`ReadBack`; replies, resolutions and reopenings are answered from the copy
(`held_after`). `create_comment`, `get_comment`, `strip` and their neighbours are what
`FakeBackend` does, the package's own account of Drive.

**DriveFiles.** `search` starts a walk, `_page` is one request of it filtered by the
policy: the next files of the listing as a set (`Nexts`), of which those that are kept are
answered in order (`InOrder`); `ends_at` is its end. A page may be empty before the last one,
of Google's or by the filter. `inventory` gets the ids one by one (`GetNext`, with the three
failures that are recorded and the rest that are raised), then their comments
(`ReadNext`), then builds the table. `create`, `copy`, `update` and `trash` are one
request each; `_wrap` decides what is said of parents. Somebody else touches and renames
files during a walk; a file so touched is no longer `steady`.

**Sharing.** A caller picks a grant or a request (`PickGrant`, `PickRequest`) and acts on
the id it saw. That a read-only workspace changes nothing is said by the method
(`permissions.py:103`) or, for the same operations on `files`, which do not ask
(`files.py:435-467`), by the policy of that workspace; `allowed` stands for both.

**FileLabels.** One listing of ids, then one request per definition, which may find the
API off, the scope missing, the definition hidden or gone (`Causes`); `reason_of` is what the
code makes of each, the same of a hidden definition as of a missing scope. A definition may
have an empty title (`Unnamed`).

**Demonstration.** `Plan` is the list `build` returns, with the capability each step
needs, what it captures and whether it is optional; `_one` runs a step, which is
declined, skipped for want of a capability or of a captured id, fails, or is carried out
(and may fail all the same, the answer lost: `Blame`). Steps that only read, or change
only a file's text, are one step of the plan each and change nothing here. `Ask_` and
`PostIt` are the feedback at the end.

## 4. The runs

| Run | cfg | Checks | Shows |
|---|---|---|---|
| `register_csv` | `MCApplyRegister_csv` | TypeOK NoDoublePost MarkerSound ReportIsTrue KeepsPromise ActsByItsRow | every two-row register from a menu with one row of each kind (refused ones and rows of another document included), dry, real and forced runs |
| `register_xlsx` | `MCApplyRegister_xlsx` | KeepsPromise Converges | cell-by-cell saving, and that re-running completes the register |
| `register_curbed` | `MCApplyRegister_curbed` | NoFalseAlarm | no marker is ever saved and one capability is withheld; three rows |
| `register_xlsx_sorted` | `MCApplyRegister_xlsx_sorted` | MarkerSound (violated) | finding: markers are saved by row position |
| `cred_postures` | `MCCredentials_postures` | TypeOK ReadOnlyHoldsNoWrite NoTokenIsLost ConsentIsLostOnlyToARace | a read-only server beside a read-write login, any token in any file, with expiries, revocations, failed writes and crashes |
| `cred_status` | `MCCredentials_status` | StatusIsTrue WaitsEndAsTheyShould | status is true and comes, waits end |
| `cred_tilde` | `MCCredentials_tilde` | AuthorizedReachesTheSharedFile (violated) | finding: the default path is not expanded |
| `cred_lost_consent` | `MCCredentials_lost_consent` | ConsentStands (violated) | finding: a refresh overwrites a newer consent |
| `policy` | `MCPolicyGate` | TypeOK WithinTheText RoleCeiling OnlyListedFilesChange NamesWithinReach | every capability alone, every profile, both set, the shapes of the lists |
| `policy_read_only` | `MCPolicyGate_read_only` | ReadListBoundsNames (violated) | finding: a read-only server drops its read list |
| `policy_batch` | `MCPolicyGate_batch` | ContentDeleteIsItsOwn (violated) | finding: a raw batch deletes structure under `content.write` |
| `workspace` | `MCWorkspace` | the nineteen properties below | the rest of the library, a component at a time |

The properties of `workspace`, and what each shows:

| Property | Module | Shows |
|---|---|---|
| WorkspaceTypeOK | all ten | types, and that every pause is one `time.sleep` accepts |
| TellsWhatWasDone | GoogleCalls | a write is carried out at most once and the outcome tells whether it was |
| ListingWhole | GoogleCalls | a listing that succeeds has what there was when it began |
| ComesToAnEnd | GoogleCalls, Workbook | every request and every operation of a Sheet ends |
| LookupIsSound | Workbook | comments said to be at a cell are there; a cell said to be clear is |
| TabsByName | Workbook | no twin is added, and the tab deleted bore the name asked for |
| ReadsEveryTab | DocTabs | a reading covers every tab once, in the order a reader expects |
| LandsWhereSaid | DocTabs | appended and replaced text lands in its tab, at its place |
| PassageIsItsOwn | Passage | a passage is given if and only if the quote is there once (in one element, or else across some), is outside tables at no other place of the document, is marked, also when cut, and under its headings |
| RegisterIsSound | RegisterExport | rows, caveats and columns of one register agree with the spreadsheet |
| OverwritesOnlyInARace | RegisterExport | no file that was there is written over, two exports in one second apart |
| AnswersAreTrue | ThreadTools | a tool's answer is what it did; a read-only workspace does nothing |
| SearchIsSound | DriveFiles | a short answer is complete though the policy empties pages; recency is newest first |
| InventoryIsSound | DriveFiles | in an inventory that is answered each of the first `limit` ids is a row or a reason; matches by name are flagged |
| NoNewOwner | Sharing | nobody becomes an owner through the library |
| AccessAsSaid | Sharing | access changes for whom and to what the caller said |
| LabelsAreTrue | FileLabels | no label of an answered listing is lost; a name is its own definition's; a reason is the refusal of that moment, a hidden definition told as a missing scope |
| TakesBackWhatItMade | Demonstration | the cleanup leaves nothing, the folder last; grants are taken back |
| ActsAsAsked | Demonstration | sharing and posting only on request; each register goes back to its own file |

Bounds, and why they are enough. *Register*: two threads and two rows (three where
counting matters) give every ordered pair of row kinds, including pairs on one
thread, and one pre-existing reply by somebody else gives the authorship check
something to reject. `MaxFaults = 2` lets a save fail after an answer was lost or a
re-run crash after a crash; `MaxEdits = 1` is one act of a person at any point
(each act is of a different kind, and the listing is taken afresh by every run).
One text is enough for the double-post question, which is about equal texts; the
invariant is proved for any number. *Credentials*: one or two consents, one expiry
and one revocation are the events each race is between; calls are bounded by
`MaxCalls`, so a behaviour may stop there, which is why deadlock is not checked
(`CHECK_DEADLOCK FALSE`; everybody being idle with the bounds used up is a proper
end). `Process` puts the tool thread, the `authenticate` call and the status call in
one process, so that a crash takes them together. *Policy*: two files and one made
later; an environment for each capability, profile and pair of list shapes. The proofs
cover all other sizes.

*Workspace*. In a behaviour of `MCWorkspace` one component moves (`part`), the others
stay as they begin: the components share Google and no state of this program, and what
Google and other people may do to each is already in its module, so letting them take
turns would multiply the states and show nothing new. Where components do meet, one module
holds both ends (the policy's filter in a search, the cell map in an export, the
comment operations in `ApplyRegister`). *Calls*: three pages, and hints that are absent,
negative, zero and an hour. *Workbook*: three ids, so a second tab can be made or two
comments of one key beside one of another; titles that differ in case; two rows; one act of
other people at any point between the requests. *Document*: three tab ids give a child, a
grandchild and two siblings; texts of two pieces; one act of others. *Passage*: three
elements from ten, seven quotes that are repeated, overlapping, blank, crossing or absent, tables above
the limit of length. *Export*: two calls with different permissions over two tabs and two
threads, one of which the export cannot place, in two seconds; one call has openpyxl, the
other asks for a workbook without it. *Threads*: two calls of any
tool on a thread that is there and one that is not yet; one act of a person. *Files*:
three files and one more to be made, pages of two, one of the files off the read list and
one a PDF, two people of one name. *Sharing*: two callers, one of them read-only, two ids at
the start and two more. *Labels*: two labels, two choices, definitions with and without a
title, two changes. *Demonstration*: the three
document types as in the code, one failing or declined step at any place, two sets of
capabilities. `CHECK_DEADLOCK FALSE`: every component may rest with its bound used up.

No symmetry is used: threads, files and actors play different roles in the instances.

## 5. Fairness

`ApplyRegister!FairSpec`: weak fairness of the run's steps (`apply_rows` is one
sequential loop) and strong fairness of starting a real run, which is the advice the
tool gives ("re-run to finish what is left"). Faults and edits are bounded, so they
stop. `Credentials!FairSpec`: weak fairness of local steps of a thread (reading and
writing the file), of the end of the wait (`timeout`, `mcp/_tools/auth.py:256`), and
of the timeout of the verification (line 78). Nothing is assumed to make Google, a
browser or a client answer there.

`GoogleCalls!CallFairness`: weak fairness of `Answered` (httplib2 gives up on a request
after a minute, and giving up is one of the answers) and of `Wake` (a sleep ends);
*which* answer comes is left open, so Google may fail for ever. `Workbook!BookFairness`:
weak fairness of a step of the operation under way, which is sequential code whose requests
end by the former. The other modules state safety only: what they promise is about what
an answer says, not that it comes.

## 6. The proofs

Every theorem holds for every value of the constants that satisfies the assumptions
named in the modules: `RegisterAssumption`, `CredentialsAssumption`,
`OldTokensAssumption`, `PolicyAssumption`, `EnvironmentAssumption`, `CallAssumption`,
`WorkbookAssumption`, `DocAssumption`, `ThreadAssumption`, `FilesAssumption`,
`LabelsAssumption`, `SharingAssumption`, `ExportAssumption`, `PassageAssumption`,
`DemoAssumption`. They say that sets of actors are disjoint, that
bounds are natural numbers and that inputs have their shape. What a theorem needs beyond
them is a hypothesis of the theorem, named below. Each proof has the same outline: an
inductive invariant, one lemma per action or group of actions that shows it kept, and a
temporal step at the end. Below, what the invariant adds to the property and why it is
needed.

*The register* (`ApplyRegisterProofs`).

* `TypeCorrect`: `Spec => []TypeOK`, one lemma per group of row steps.
* `PostsOnce`: if no register asks twice for the same words on the same thread
  (`AsksOnce`), `Spec => []NoDoublePost`. NoDoublePost is not inductive: a run posts when
  its *listing* shows no such reply, so one has to know that the listing is not missing
  one. The strengthening `PostInv` says that ids are given out once, that a deleted thread
  has no live reply, and (`ListingCovers`) that between the listing and the last row every
  live reply of the runs is in the listing or was posted by an earlier row of this run.
  Markers play no part in the argument: a marker lost by a crash or a failed save cannot
  cause a second post.
* `PromiseKept`: under the same hypothesis `Spec => KeepsPromise`, the refinement of
  `RegisterPromise`. The initial states map to its initial state; `NextKeepsPromise` maps
  each step, from the invariant above: a post that lands is `Say` (`SaidOnce`), a deleted
  reply is `Unsay` or nothing (`UnsaidOnce`), a deleted thread is `Bury` (`BuriedOnce`), and
  every other step, crash, re-run and lost answer a stutter (`UnseenStep`).
* `MarkersAreSound`, `ReportsAreTrue`, `EveryStepActsByItsRow`: MarkerSound, ReportIsTrue and
  ActsByItsRow, as long as no `.xlsx` is sorted under a run (`MarkersKeepTheirRow`); the run
  `register_xlsx_sorted` shows that without this MarkerSound is false. `MarkInv` is needed
  because a marker is set by what the run believes: it says that what was listed is still
  there in some form (`SeenIsThere`), that a thread believed deleted is (`DeadIsDead`), that
  the rows in memory are still those on disk (`SameRows`), that between reply and resolve the
  words are on the thread (`Halfway`), and that the markers in memory are as sound as those on
  disk. All of it survives because the document only grows (`Grows`): nothing said or deleted
  is undone without a trace.
* `NoAlarmWithoutFault`: NoFalseAlarm, with no hypothesis. `AlarmInv` adds that a thread is
  absent from a listing only because it was deleted.

*The credential cache* (`CredentialsProofs`).

* `TypesKept`, `ReadOnlyStaysReadOnly`, `TokensAreKept`, `StatusToldTruly`,
  `OnlyTheRedirectIsTaken`: TypeOK, ReadOnlyHoldsNoWrite, NoTokenIsLost, StatusIsTrue and the
  safety part of WaitsEndAsTheyShould (of `authenticate`; a `login` takes the first request
  that comes), for any number of threads, consents, processes and old files. `CredInv` says
  that what an actor holds has passed the check of its posture, and still has when it calls
  Google or writes the file (`Fit`): files may hold anything, hands may not.
* `ConsentsStand`: ConsentIsLostOnlyToARace, for a configured path without `~`
  (`HasTilde = FALSE`, and `cred_tilde` shows the other case) and files that began with tokens
  of earlier consents. Any number of tokens may expire or be revoked, writes fail and processes
  die. `RaceInv` adds that as long as a file's newest consent met no race, everybody who is
  between reading that file and writing it holds a token of that consent: whoever begins later
  reads it. `cred_lost_consent` shows the race.

*Policy* (`PolicyGateProofs`) *and calls* (`WorkspaceProofs`).

* `TypeCorrect`, `ExplicitListIsComplete`, `ProfileIsACeiling`, `ListBoundsChanges`,
  `ListsBoundNames`: the five invariants of the `policy` run. The inductive invariant is
  `Faithful` (a running server enforces what its environment said when it started) together
  with the property. The heart is `EachEffectIsGranted`, the table of gates checked row by
  row against what the capability notes say, and `OnlyChangesHaveEffects`, that no method
  gated as a read changes anything. Raw batches are the exception that both properties name:
  what they may do, deletions of structure included, is granted by `content.write`, and the
  run `policy_batch` shows that the notes deny it. For every other method the notes hold.
* `CallersKnow`, `WholeListings`, `BoundedSleep`: `TellsWhatWasDone`, `ListingWhole` and
  `SleepsBounded` for every number of pages and every integer a Retry-After header may hold.
  `CallInv` says that while a call runs nothing has been carried out: what is repeated was
  refused (`RepeatedIsUndone`: after an uncertain answer only a read is), so the one request
  that ends the call is the only one that can have changed anything. It also counts the
  sleep by attempts (`PauseBounded`, two minutes of half seconds each) and keeps the page
  within the listing. `CallTypes` is its CallTypeOK: `CallBounded` adds that neither a call
  nor a result is beyond the pages there are.

*Documents* (`DocumentsProofs`, with `SequenceFacts`).

* `LookupsAreSound`, `TabsAreByName` (and `BookTypesKept`): LookupIsSound and TabsByName for
  any tabs, rows and comments. `BookInv` follows a look-up through its requests: the export on
  its way (`RootsFit`), the map (`MapFits`), the comments still to be placed (`TodoFits`) and
  those found (`FoundFits`) are of the file as it is, for as long as nobody else has changed
  it; a write of the Sheet itself has forgotten the map before it changes anything. A tab to
  delete is one that bore the name when it was looked up (`MeansTheNamed`).
* `EveryTabIsRead`: ReadsEveryTab for any number of tabs, nested to any depth, added and deleted
  in any order. Invariant is only that the tabs are a forest (`TabsNest` with the part of `DocInv`
  about ids): each is nested in an earlier one that is still there, for a deletion takes all that is
  nested in a tab (`TheRestNests`). The rest is about `walk`, a recursive function over the
  ids. `UnderExists` makes such a function tab by tab from the last id down; `FromTheLeaves` and
  `FromTheRoots` are the two inductions along the nesting, from the greatest or the least id that
  would fail; `Stands` says where in the reading of a tab each of its children stands and what
  follows it. From these: no tab is read twice (`NoneTwice`), every tab is (`AllAreRead`), what
  follows a tab is its branch (`NestedFollow`), which is what `Nested` says is deleted with it
  (`NestedIsBranch`), and siblings keep their order (`SiblingsInOrder`).
* `TextLandsWhereSaid`: LandsWhereSaid. It needs of a reading that it has the tabs of the document
  and no others. `DocInv` adds that tab ids are not given twice, that an append knows the end
  of its tab while nobody has come in between (`AppendFits`), and that between the two halves of a
  replacement the document is the earlier one with the span cut out of the named tab
  (`ReplaceFits`). `FilledCut` is the arithmetic: what is put where a span was cut stands between
  the ends.
* `DocTypes`: DocTypeOK, which besides the types says that an append about to be sent goes to
  the end of a tab that is there, unless somebody else has changed the document since the
  reading (from `AppendFits` of `DocInv`). `DocBounded` says that a write with a piece to put
  finds room for it, which what other people type meanwhile leaves, so that no text is more than
  one piece beyond the bound, and that a span begins before it ends.

*Comments and exports* (`CommentsProofs`, with `SequenceFacts`).

* `AnswersAreTrueAlways`, `NothingIsLeftOfTheDeleted`: AnswersAreTrue and ThreadTypeOK (of what
  is deleted neither text nor author is left) for any calls, threads and people. `ThreadInv` relates each call's copy to the thread (`CallKnows`): a
  call that has written something knows a thread that is there, and one that is told "not
  found" after writing is told so because somebody else deleted the thread.
* `OverwritesAreRaces`: OverwritesOnlyInARace for `ExportSpec`, without an assumption.
  `ChoiceInv` keeps what was seen at the look: the name was free then, or carries the second.
* `RegistersAreSound`, `ExportTypes`: RegisterIsSound and ExportTypeOK for any threads, tabs and
  deletions of tabs. The rows of a register are one flattened sequence, so the argument goes by
  place: every row is the row of one listed thread or of one of its replies (`FlattenPositions`),
  no two rows share an id (`OnePlace`), and therefore the places that fall short are as many as
  the rows that do (`HitsInOrder`). The invariant keeps with each call's rows the tabs they were
  made from, because a tab may go before they are delivered.
* `PassagesAreTheirOwn`: PassageIsItsOwn for any document, quote and limit of length.
  `PassageInv` says only that the answer is what `build` makes of the document; the rest is about
  `build`, and rests on four groups of lemmas. `CountTells` and `OccurrencesTell`: what the
  left-to-right count says of the places where a quote stands, none, one, or several.
  `DocIsLaid` and `Stretches`: an element's text is a stretch of the document's, and the text of
  consecutive elements is theirs in a row. `TouchedHold` and `NotBefore`: the elements the first
  occurrence touches hold the quote between them, and no passage of a paragraph or heading,
  extended or not, has the quote before the place it is marked at; this needs that such an
  element has one newline, at its end, so that a quote within it cannot begin in the element
  before. For the same reason a quote placed within a paragraph is nowhere else in the document
  (`NeverGuessed`); a quote that crosses the rows or cells of a table may be, and the property
  says so.
  `PathGoverns`: the path built backwards from an element is the set of headings no later one
  outranks. `MarkStands` puts them together.
* `PassageTypes`: PassageTypeOK, that no passage is longer than the limit with its marks, but
  for the note of a cut one (`CapBounds`), by `BuildTyped` branch by branch.

*Files, sharing, labels* (`FilesProofs`).

* `OwnersAreByHand`, `AccessIsAsSaid` (and `SharingTypes`): `NoNewOwner` and `AccessAsSaid`.
  `SharingInv` adds what a caller knows (`Knows`): an id it picked belongs to the person it
  picked it for, if it belongs to anybody, for no id is given twice. `StillKnown` says that
  this survives every change made by the other callers and by hand, which is why acting on an
  id seen earlier is safe.
* `LabelsAreToldTruly` (and `IdsAreNoNames`): LabelsAreTrue, from `LabelsInv`, the types of what
  is on the file and of what has been told of it. A reason is that of a refusal that held, which
  for "sign in again" may be a definition hidden from a user who has the scope.
* `SearchesAreSound`, `InventoriesAreSound` (and `FilesTypes`): SearchIsSound and
  InventoryIsSound for any files, pages, limits and lists of ids, as far as an inventory is
  answered and its ids are within the limit. `FilesInv` says that a search has found
  every steady match it has come past (`ComesYet`), in falling order and none below its cursor
  (`Falling`, `NoneBelow`), and that an inventory has accounted for the ids it has come past,
  with one entry each (`AccountedTo`).

*The demonstration* (`WorkspaceProofs`, with `SequenceFacts`).

* `TheDriveIsLeftAsItWas`, `ItActsAsAsked` (and `DemoTypesHold`): TakesBackWhatItMade and
  ActsAsAsked for any document types in any order, as many as the plan has places to trash
  files in. The plan is the sequence the code builds, flattened from its parts. `PlanSteps` says
  what stands at each of its places, `StepOfPlan` where a step of a given tool and file stands,
  and everything else follows from the places: a file is shared before it is unshared, exported
  before it is applied, made before it is trashed, and the folder comes last among the trashings
  (`FolderGoesLast`). `DemoInv` says of each moment of a run what the steps it has passed have
  left: a file that is there was made and either is known or the answer was lost (`AllAccounted`), a
  file whose place in the cleanup has been passed is gone or faulty (`Tidied`), a grant that
  stands has its taking back ahead (`GrantsKept`), and the register held is that of the file
  whose steps are running (`RegisterKept`). `Targets` shows that the trashing steps reach all
  known files: there are at most as many as places, which is what the assumption on `TYPES` says.

*The components side by side* (`WorkspaceProofs`).

* `EveryPartIsItself`: a behaviour of `MCWorkspace`'s `WSpec` is a behaviour of each of the ten
  components' specifications, since a step of one leaves the variables of the others. What is
  proved of a component alone therefore holds in the composition, which is what the run checks.
* `WorkspaceTypes`: WorkspaceTypeOK, from this and the type theorem of each component.

*Induction.* The library's induction theorems cannot be used by the provers at hand. Where a
recursive function over the naturals has to be followed, `SequenceFacts` does it with sets
instead: `UpTo` says that a set which has 0 and with each number the next has all of them up to
any bound, from the least number missing (`HasLeast`). From it follow that the accumulating
function behind `FlattenSeq` exists (`PrefixesExist`) and where each element of a flattened
sequence stands (`FlattenPositions`).

*Only model-checked.* Liveness (`Converges`, `WaitsEndAsTheyShould`, `ComesToAnEnd`), which is out of
the prover's reach. Every invariant and every action property that a passing run checks is
proved.

## 7. Divergences met while modelling

Checked as violated properties (findings in `PROJECT.json`):

1. Sorting an `.xlsx` during a run puts a marker on a row that was not applied
   (`_apply.py:225`).
2. With the default token path, `authenticate` writes below a directory literally
   named `~` (`mcp/_tools/auth.py:266`).
3. A refresh started from an old token overwrites a newer forced consent
   (`auth.py:558`).
4. A read-only workspace replaces the policy by one whose lists permit every file
   (`workspace.py:103`), against `policy.py:500-501`; the startup lines still announce
   the configured list.
5. A raw `batch_update` deletes tabs, sheets and ranges under `content.write` alone
   (`documents/doc.py:199-201`, `documents/sheet.py:337-340`), against `policy.py:166-167`
   and 470-472; the tools of the server send none.

Noted, where the code does what a text denies, so that no property could hold. *Register,
credentials, policy*:

6. A write whose answer was lost has changed the document, and its row reports
   "Nothing on this row was changed" (`_apply.py:516-517`).
7. Words typed by the user in the editor during a run are posted again: the duplicate
   check reads the listing of the start (`mcp/_tools/comments.py:471-474` promises more).
8. A marker of an earlier decision wins over the thread's own state, which the comment
   calls the authority (`_apply.py:463-478`).
9. A re-run reports a deleted reply's row as failed where its thread has gone too
   (`mcp/_tools/comments.py:527-529`).
10. A worker thread keeps its Workspace after `authenticate(force=True)` and still acts
    as the old account (`mcp/_tools/auth.py:312-314`, `mcp/_config.py:443`).
11. `login` ends in an error, not in a browser, when the cached grant can no longer be
    refreshed (`mcp/_login.py:130`, `auth.py:523`).
12. A network that is down is reported as `credential_rejected`
    (`mcp/_tools/auth.py:55-58`).
13. An abandoned verification may still rewrite the token file
    (`mcp/_tools/auth.py:52-53`). Two writers of one file may interleave (`auth.py:365-377`, no
    lock), so that `authenticate` answers "authorized" with another's token, or none, in the
    file: with `HasTilde = FALSE` and two `authenticate` calls TLC violates
    AuthorizedReachesTheSharedFile.
14. A file on the modify list that is absent from the read list is reached by changes,
    and their answers carry its name (`policy.py:500-501`, 591-604).
15. A line `*` in a list with an unusable line starts the server with every file
    (`allowlist.py:321-325`), against the help (`mcp/cli.py:61-75`).

*Calls*:

16. The ladder of `_errors` (`mcp/_tools/_base.py`) has no sentence for RateLimitError,
    ServiceDisabledError, InvalidInputError, DetachedError and errors of the transport, so the
    SDK strips them (`wrapped`), and a write whose 5xx may hide that it was done reads as
    rejected by Google.

*Sheets and Docs*:

17. `delete_tab` says that the only tab is refused "and so does this"
    (`documents/sheet.py:165-173`); there is no such check, Sheets alone refuses. `add_tab`
    looks for a twin and creates in two requests: a twin made in between stands.
18. `comments_by_cell` after a failed export answers an empty list with `unplaced: 0` and
    `tab_ambiguous: false`; a tab renamed between the export and `resolve_tab` does the
    same; and of two comments of one author, text and second, one of whose sheet is missing
    from the export, both are put on the other's cell. `LookupIsSound` leaves these out by
    name (`blind`, `others`, `NoTwins`).
19. `add_tab`, `delete_tab` and the tools that edit or delete a comment answer with an error
    when the listing after the change fails, although it was made.
20. The docstrings of `insert`, `delete_range` and `delete_tab` of a Doc send the reader to
    `tabs` for ids, which only `document_tabs` has.
21. `_grid_to_a1` renders a whole row or column as "5" or "A".

*Passages and exports*:

22. A quote that is once in a table and again across its cells or across paragraphs is given
    the passage of the first as if it were unique, against `_context.py:38-44`; of paragraphs
    alone it is not, since each ends in a newline; `str.count` misses overlapping repetitions; with
    `paragraphs > 0` the mark may be set at an earlier occurrence in the extension; a cut may
    take the marked words away.
23. "NOTHING IS EVER OVERWRITTEN" (`_export.py`, `resolve_export_path`) is false for two
    exports of one document in one second, and for a file made between the look and the write.
24. A row whose tab was deleted between the listing and the reading names that tab and shows
    the cell of the only tab left.
25. The docstring of `export_comments` says that there is no tab column; `COLUMNS` has one.

*Comments, files, sharing, labels*:

26. `reopen_comment` "changes nothing" on an open thread; a visible reply with the action
    is posted.
27. `inventory`: a file whose comments could not be read is counted as having 0, where a
    comment promises a blank (`files.py:310`); ids beyond `limit` are neither rows nor
    reported; a rate limit, an expired login or a switched-off API loses the table, where
    "one bad id must not lose the other 499" (`files.py:291-294`).
28. An actor with an address other than the subject's still matches by display name
    (`_inventory.py:_matches`), and is flagged.
29. `update_file` says to read `parents` from a search hit; the search does not ask for
    them.
30. `FileCollection.share`, `set_role`, `unshare`, `update` and `trash` do not look at
    `_read_only`, as `Document`'s do; the policy of a read-only workspace stops them.
31. `labels` "never raises for a missing name", yet a 429, 5xx or 401 of the second API
    loses the listing; "sign in again" (`labels.py:215-218`) is also said of a definition that
    this user may not read though the scope is there, where it does not help; a definition with an
    empty title gives no name and no reason.

*Demonstration*:

32. Quitting with `q` or an interrupt skips the cleanup, which "runs even when steps
    failed"; the end of the input at a prompt is not caught; a child that could not be
    trashed does not keep its folder; a creation whose answer was lost is unknown to the
    cleanup; `.csv` registers stay on the disk; after an export that failed, the register
    captured from the document type before it is the one that is applied
    (`demo/_plan.py:354`), which `RegisterIsItsOwn` exempts.

## 8. Not modelled

Conversions between Google's JSON, text, CSV and XLSX (the text of tables and slides, the
values of cells, the format of a workbook, suggestions, restrictions): pure functions on
strings, well covered by the repository's tests. Schemas, resources, prompts, logging
and formatting of the MCP layer. A presentation's writes, one request each. The
configuration file of the desktop client. The preview of an allowlist, one read per line.
The OAuth library and Google are external: an exchange succeeds or fails, a call is refused,
done, or done with its answer lost; that httplib2 does not itself send a request twice is
assumed. File permissions. Two register runs at the same time: nothing in the code
coordinates them, and both post. Components whose status is `not_modelled` in `PROJECT.json`
say why.

## 9. The plan

Done: every component modelled and checked as the table of section 2 says; the register's
promise, markers and reports, the credential cache, the policy, the calls, the documents,
the comments, the exports, the passages, the files and the demonstration proved. Left, in
order of importance:

1. Two register runs at once, and a register that is exported, edited and applied in one
   behaviour.
2. `GoogleCalls` as the implementation of the one-shot call that the other modules use.
