------------------------ MODULE DriveFilesProperties ------------------------
(***************************************************************************)
(* What the callers of the account axis rely on.                           *)
(***************************************************************************)
EXTENDS DriveFiles

\* The types of the variables; what an answer says of a file's parents is what the
\* request asked for, never an empty list in its place.
FilesTypeOK ==
  /\ touches \in 0 .. Latest /\ moves \in 0 .. MaxMoves
  /\ sweep.parents = NotAsked \/ (sweep.op \in AsksForParents /\ sweep.parents \subseteq Folders)
  /\ \A f \in Files : drive_files[f].touched \in 0 .. Latest /\ drive_files[f].commented \subseteq People
  /\ sweep.found \in Seq(Files)

\* A search that returns fewer files than its limit has returned every file that
\* matches and that the read list names, if nobody touched it during the walk, though
\* the policy may have emptied a page (files.py:517-530, policy.py:604-624).
SearchIsComplete ==
  sweep.at = "answered" /\ sweep.op = "search" =>
    /\ Len(sweep.found) <= sweep.limit
    /\ Len(sweep.found) < sweep.limit =>
         \A f \in sweep.steady \cap Listed : _compose(f, sweep.mentions) => Contains(sweep.found, f)

\* In an inventory that is answered, each of the first `limit` ids it was handed is a row
\* or is reported with a reason, and there are no more of either.  Ids beyond the limit are
\* neither (files.py:279), and an answer of Google's that is not about one file, such as an
\* expired login or a rate limit, ends the call without a table (files.py:280-294,
\* _inventory.py:92-118).
EveryIdIsAccountedFor ==
  sweep.at = "answered" /\ sweep.op = "inventory" =>
    /\ Len(sweep.rows) + Len(sweep.unreachable) = Len(sweep.ids)
    /\ \A i \in DOMAIN sweep.ids :
         \/ \E j \in DOMAIN sweep.rows : sweep.rows[j].id = sweep.ids[i]
         \/ \E j \in DOMAIN sweep.unreachable : sweep.unreachable[j].id = sweep.ids[i]
    /\ sweep.unreachable # <<>> => "unreachable" \in sweep.caveats

\* A table that counts as the subject's own what somebody else of that name did says
\* that it matched by name (_inventory.py:135-156, 225-257).
NamesakesAreFlagged ==
  sweep.at = "answered" =>
    \A i \in DOMAIN sweep.rows :
      LET by == sweep.rows[i].authors \cup IF sweep.rows[i].edited THEN {sweep.rows[i].editor} ELSE {}
      IN (\E p \in by : Mail[p] # sweep.subject) => "by name" \in sweep.caveats

\* `recency` lists the file touched last first, in `search` as in `recent`
\* (files.py:45-50, 476-516).
RecencyIsNewestFirst ==
  sweep.at = "answered" /\ sweep.op = "search" /\ sweep.asked = [key |-> "recency", dir |-> "bare"] =>
    \A i, j \in DOMAIN sweep.found :
      i < j /\ {sweep.found[i], sweep.found[j]} \subseteq sweep.steady =>
        drive_files[sweep.found[i]].touched > drive_files[sweep.found[j]].touched

\* A search gives the files it was asked for: all of them up to the limit, and in the
\* order asked for (files.py:224-242, 476-530).
SearchIsSound == SearchIsComplete /\ RecencyIsNewestFirst

\* An inventory that is answered neither loses an id it looked up nor counts a namesake
\* without saying so (files.py:243-315, _inventory.py:135-257).
InventoryIsSound == EveryIdIsAccountedFor /\ NamesakesAreFlagged
=============================================================================
