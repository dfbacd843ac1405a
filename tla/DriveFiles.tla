----------------------------- MODULE DriveFiles -----------------------------
(***************************************************************************)
(* The account axis (files.py): searching page by page, sweeping a list of *)
(* ids into an inventory (_inventory.py), and creating, copying, moving    *)
(* and trashing files, while other people use the same Drive.              *)
(*                                                                         *)
(* One number stands for all the times a file carries: when it was last    *)
(* touched, at first the file's own number.  A comment is told by its      *)
(* author alone.                                                           *)
(***************************************************************************)
EXTENDS Integers, Sequences, FiniteSets, SequencesExt, FiniteSetsExt

CONSTANTS
  Files, Unmade,       \* the ids there may be, and those not there at first
  Folders, Uploads,    \* the folders, and the files the library cannot open
  Listed,              \* the read list of the policy
  People, Me,          \* who there is, the account the library acts for among them
  Mail, NameOf, NoMail,   \* their addresses, or NoMail, and their names
  Subjects, NoSubject, \* whom an inventory may be about: an address or a name
  IdLists,             \* the lists of ids handed to an inventory
  Limits, PageSize,    \* limits of callers, and MAX_PAGE_SIZE
  MaxTouch,            \* bound: touches of files
  MaxMoves             \* bound: operations through the library

ASSUME FilesAssumption ==
  /\ Me \in People /\ Files \subseteq Nat /\ Unmade \cup Folders \cup Uploads \cup Listed \subseteq Files
  /\ IsFiniteSet(Files) /\ Files # {} /\ IsFiniteSet(People) /\ IdLists \subseteq Seq(Files)
  /\ Unmade \cap (Folders \cup Uploads) = {} /\ PageSize \in Nat \ {0} /\ Limits \subseteq Nat
  /\ MaxTouch \in Nat /\ MaxMoves \in Nat

VARIABLES
  drive_files, \* the files, as Drive holds them
  touches,     \* the last touch
  moves,       \* the operations begun
  sweep        \* the operation under way or just answered; sweep.steady is the files that
               \* nobody has touched since it began

fileVars == <<drive_files, touches, moves, sweep>>

Latest == Max(Files) + MaxTouch
NotAsked == {-1}      \* the answer says nothing of the parents
AtRest == [at |-> "rest", op |-> "none", asked |-> "none", mentions |-> FALSE, limit |-> 0, order |-> "asc", cursor |-> 0,
           found |-> <<>>, steady |-> {}, ids |-> <<>>, next |-> 1, unreachable |-> <<>>,
           subject |-> NoSubject, comments |-> <<>>, rows |-> <<>>, caveats |-> {}, parents |-> NotAsked,
           id |-> CHOOSE f \in Files : TRUE]

FilesInit ==
  /\ drive_files = [f \in Files |->
       [there |-> f \notin Unmade, trashed |-> FALSE, touched |-> f, parents |-> {},
        editor |-> Me, commented |-> {}]]
  /\ touches = Max(Files) /\ moves = 0 /\ sweep = AtRest

Continues(fields) == sweep' = [f \in DOMAIN sweep |-> IF f \in DOMAIN fields THEN fields[f] ELSE sweep[f]]
Raises == sweep' = [AtRest EXCEPT !.at = "raised"]
Free == sweep.at \in {"rest", "answered", "raised"} /\ moves < MaxMoves
Starts(fields) ==
  /\ moves' = moves + 1
  /\ sweep' = [f \in DOMAIN AtRest |-> IF f \in DOMAIN fields THEN fields[f]
                                      ELSE IF f = "steady" THEN Files ELSE AtRest[f]]

-----------------------------------------------------------------------------
(* Searching. *)

Aliases == {"recency", "lastModified", "lastModifiedByMe"}
ORDER_KEYS == {"recency", "modifiedTime"}
Orders == {[key |-> k, dir |-> d] : k \in Aliases \cup ORDER_KEYS \cup {"modified"}, d \in {"bare", "asc", "desc"}}

\* The alias of a name wins over the key of that name.
_order(order) ==
  IF order.key \in Aliases /\ order.dir = "bare" THEN "desc"
  ELSE IF order.key \notin ORDER_KEYS THEN "refused"
  ELSE IF order.dir = "desc" THEN "desc" ELSE "asc"

\* Trashed files are left out of a query that does not mention them.
_compose(f, mentions) == drive_files[f].there /\ (drive_files[f].trashed => mentions)

Past(f) == IF sweep.order = "desc" THEN drive_files[f].touched < sweep.cursor
           ELSE drive_files[f].touched > sweep.cursor
Before(f, g) == IF sweep.order = "desc" THEN drive_files[f].touched > drive_files[g].touched
                ELSE drive_files[f].touched < drive_files[g].touched

search(mentions, limit, order) ==
  IF limit < 1 \/ _order(order) = "refused" THEN Starts([at |-> "raised", op |-> "search"])
  ELSE Starts([at |-> "page", op |-> "search", mentions |-> mentions, limit |-> limit, asked |-> order, order |-> _order(order),
               cursor |-> IF _order(order) = "desc" THEN Latest + 1 ELSE -1])

\* The files that match and come yet, the next of them that make a page of Drive, and
\* the order in which Drive gives what it gives.
Left == {f \in Files : _compose(f, sweep.mentions) /\ Past(f)}
Nexts == {page \in SUBSET Left : \A f \in page, g \in Left \ page : Before(f, g)}
InOrder(S) ==
  {s \in [1 .. Cardinality(S) -> S] : \A i, j \in DOMAIN s : i < j => Before(s[i], s[j])}

\* Mutant: a page that the policy emptied ends the walk.
stops_at_an_empty_page(more, kept) == ~more \/ kept = <<>>
\* The pages are walked until there is no token, whatever the policy left of them.
ends_at(more, kept) == ~more

\* A page has as many files as asked for or fewer, none too, and what the policy names
\* is kept.  After an empty page the next one starts where that one did.
_page(page, kept) ==
  LET found == sweep.found \o kept
      more == page # Left
  IN /\ sweep.at = "page"
     /\ Cardinality(page) <= PageSize /\ Cardinality(page) <= sweep.limit - Len(sweep.found)
     /\ IF ends_at(more, kept) \/ Len(found) >= sweep.limit
          THEN Continues([at |-> IF sweep.op = "search" THEN "answered" ELSE "read", found |-> found])
          ELSE \/ page = {} /\ UNCHANGED sweep
               \/ \E last \in page :
                    /\ \A f \in page \ {last} : Before(f, last)
                    /\ Continues([found |-> found, cursor |-> drive_files[last].touched])
     /\ UNCHANGED <<drive_files, touches, moves>>

-----------------------------------------------------------------------------
(* The inventory. *)

inventory(ids, limit, subject) ==
  Starts([at |-> "get", op |-> "inventory", ids |-> SubSeq(ids, 1, IF limit < Len(ids) THEN limit ELSE Len(ids)), limit |-> limit, subject |-> subject])
inventory_of_query(limit, subject) ==
  Starts([at |-> "page", op |-> "inventory of query", limit |-> limit, subject |-> subject,
          order |-> "asc", cursor |-> -1])

\* What could not be reached is told, with the reason.
reported(id, reason) == <<[id |-> id, reason |-> reason]>>

GetNext(outcome) ==
  LET id == sweep.ids[sweep.next] reason == IF outcome = "404" THEN "not_found" ELSE IF outcome = "403" THEN "no_access" ELSE "failed"
  IN /\ sweep.at = "get" /\ sweep.next <= Len(sweep.ids)
     /\ outcome = "ok" => drive_files[id].there /\ id \in Listed
     /\ outcome = "404" => ~drive_files[id].there /\ id \in Listed
     /\ IF outcome = "other" THEN Raises
        ELSE Continues(IF outcome = "ok"
                         THEN [next |-> sweep.next + 1, found |-> Append(sweep.found, id)]
                         ELSE [next |-> sweep.next + 1,
                               unreachable |-> sweep.unreachable \o reported(id, reason)])
     /\ UNCHANGED <<drive_files, touches, moves>>

GotAll ==
  /\ sweep.at = "get" /\ sweep.next > Len(sweep.ids)
  /\ Continues([at |-> "read", next |-> 1])
  /\ UNCHANGED <<drive_files, touches, moves>>

\* The comments of one file after the other, skipping what the library cannot open.
ReadNext(outcome) ==
  LET f == sweep.found[sweep.next]
  IN /\ sweep.at = "read" /\ sweep.subject # NoSubject /\ sweep.next <= Len(sweep.found)
     /\ outcome = "ok" => drive_files[f].there
     /\ f \in Folders \cup Uploads => outcome = "404"
     /\ IF outcome = "other" THEN Raises
        ELSE Continues([next |-> sweep.next + 1,
                        comments |-> IF outcome # "ok" THEN sweep.comments
                                     ELSE [x \in DOMAIN sweep.comments \cup {f} |->
                                             IF x = f THEN drive_files[f].commented ELSE sweep.comments[x]]])
     /\ UNCHANGED <<drive_files, touches, moves>>

by_name_alone(p, subject) == IF NameOf[p] = subject THEN "display_name" ELSE "none"
\* How a person matches: by address if Drive gives it, else by name.
_matches(p, subject) == IF Mail[p] # NoMail /\ Mail[p] = subject THEN "email" ELSE by_name_alone(p, subject)

authored(f) == IF f \in DOMAIN sweep.comments
                 THEN {p \in sweep.comments[f] : _matches(p, sweep.subject) # "none"} ELSE {}
inventory_row(f) ==
  [id |-> f, edited |-> sweep.subject # NoSubject /\ _matches(drive_files[f].editor, sweep.subject) # "none",
   editor |-> drive_files[f].editor, authors |-> authored(f)]

of_editors(rows) == Cardinality({i \in DOMAIN rows : rows[i].edited /\ _matches(rows[i].editor, sweep.subject) = "display_name"})
name_only_matches(rows) ==
  of_editors(rows) +
  Cardinality({by \in (DOMAIN rows) \X People :
                 by[2] \in rows[by[1]].authors /\ _matches(by[2], sweep.subject) = "display_name"})

_caveats(rows) ==
  {c \in {"unreachable", "last editor", "by name", "snapshot"} :
     /\ c = "unreachable" => sweep.unreachable # <<>>
     /\ c = "last editor" => sweep.subject # NoSubject
     /\ c = "by name" => sweep.subject # NoSubject /\ name_only_matches(rows) > 0}

build_inventory ==
  /\ sweep.at = "read" /\ (sweep.subject = NoSubject \/ sweep.next > Len(sweep.found))
  /\ LET rows == [i \in DOMAIN sweep.found |-> inventory_row(sweep.found[i])] IN
       Continues([at |-> "answered", rows |-> rows, caveats |-> _caveats(rows)])
  /\ UNCHANGED <<drive_files, touches, moves>>

-----------------------------------------------------------------------------
(* The life of a file. *)

\* What an answer knows of the parents: only some requests ask for them.
AsksForParents == {"create", "copy", "update"}
_wrap(op, parents) == IF op \in AsksForParents THEN parents ELSE NotAsked

Tells(op, f) ==
  Starts([at |-> "answered", op |-> op, id |-> f, parents |-> _wrap(op, drive_files'[f].parents)])

Touched(f, file) ==
  /\ touches < Latest /\ touches' = touches + 1
  /\ drive_files' = [drive_files EXCEPT ![f] = [file EXCEPT !.touched = touches + 1]]

Fresh(parent) ==
  [there |-> TRUE, trashed |-> FALSE, touched |-> 0, parents |-> parent, editor |-> Me, commented |-> {}]

create(f, parent) ==
  /\ f \in Unmade /\ ~drive_files[f].there
  /\ Touched(f, Fresh(parent)) /\ Tells("create", f)

\* A copy is a new file, without the comments.
copy(source, f, parent) ==
  /\ f \in Unmade /\ ~drive_files[f].there /\ drive_files[source].there /\ source \in Listed \ Folders
  /\ Touched(f, Fresh(parent)) /\ Tells("copy", f)

\* Adding a parent alone leaves the file in both places.
update(f, add, remove) ==
  /\ drive_files[f].there
  /\ IF add \cup remove = {} THEN Starts([at |-> "raised", op |-> "update"]) /\ UNCHANGED <<drive_files, touches>>
     ELSE Touched(f, [drive_files[f] EXCEPT !.parents = (@ \ remove) \cup add]) /\ Tells("update", f)

\* What is in a folder stays where it is.
trash(f, untrash) ==
  /\ drive_files[f].there
  /\ drive_files' = [drive_files EXCEPT ![f].trashed = ~untrash]
  /\ Tells("trash", f) /\ UNCHANGED touches

get(f) ==
  /\ drive_files[f].there /\ f \in Listed
  /\ Tells("get", f) /\ UNCHANGED <<drive_files, touches>>

\* Another person edits or comments on a file, moves it to the trash, or takes it away.
Meanwhile(f, p) ==
  /\ drive_files[f].there
  /\ \/ Touched(f, [drive_files[f] EXCEPT !.editor = p])
     \/ Touched(f, [drive_files[f] EXCEPT !.commented = @ \cup {p}])
     \/ /\ touches < Latest /\ touches' = touches + 1
        /\ drive_files' = [drive_files EXCEPT ![f].trashed = TRUE]
     \/ /\ touches < Latest /\ touches' = touches + 1
        /\ drive_files' = [drive_files EXCEPT ![f].there = FALSE]
  /\ Continues([steady |-> sweep.steady \ {f}]) /\ UNCHANGED moves

Begins ==
  \/ \E mentions \in BOOLEAN, limit \in Limits, order \in Orders :
       search(mentions, limit, order) /\ UNCHANGED <<drive_files, touches>>
  \/ \E limit \in Limits \ {0}, subject \in Subjects \cup {NoSubject} :
       /\ \/ \E ids \in IdLists : inventory(ids, limit, subject)
          \/ inventory_of_query(limit, subject)
       /\ UNCHANGED <<drive_files, touches>>
  \/ \E f \in Files, parent \in {{}} \cup {{g} : g \in Folders} :
       create(f, parent) \/ \E source \in Files : copy(source, f, parent)
  \/ \E f \in Files, add, remove \in {{}} \cup {{g} : g \in Folders} : update(f, add, remove)
  \/ \E f \in Files : get(f) \/ \E untrash \in BOOLEAN : trash(f, untrash)

FilesNext ==
  \/ Free /\ Begins
  \/ \E page \in Nexts : \E kept \in InOrder(page \cap Listed) : _page(page, kept)
  \/ \E outcome \in {"ok", "404", "403", "5xx", "other"} : GetNext(outcome) \/ ReadNext(outcome)
  \/ GotAll \/ build_inventory
  \/ \E f \in Files, p \in People : Meanwhile(f, p)

FilesSpec == FilesInit /\ [][FilesNext]_fileVars
=============================================================================
