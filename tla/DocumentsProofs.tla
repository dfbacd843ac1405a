------------------------- MODULE DocumentsProofs -------------------------
(***************************************************************************)
(* The two documents that are written by position, of any size and with     *)
(* people who change them between any two requests.  In a spreadsheet, what *)
(* a lookup of cells answers is so, and tabs are made and deleted under the *)
(* names that were meant; in a Doc, text lands in the tab and at the place  *)
(* that were said.                                                          *)
(***************************************************************************)
EXTENDS WorkbookProperties, DocTabsProperties, SequenceFacts, FiniteSetTheorems,
        SequenceTheorems, WellFoundedInduction, TLAPS

-----------------------------------------------------------------------------
(* The spreadsheet. *)

Tab == [id : Nat, title : Titles]
Pin == [id : Nat, key : Keys, tab : Nat, row : 1 .. MaxRow]
Place == [row : 1 .. MaxRow, tab : Titles \cup {NoTitle}]
Root == [key : Keys, row : 1 .. MaxRow, tab : Titles \cup {NoTitle}, id : Nat]
FoundPlace == [id : Nat, tab : Titles \cup {NoTitle}]
Job == [at : {"idle", "list", "place", "match", "narrow", "send add", "send delete"},
        row : 0 .. MaxRow, title : Titles \cup {NoTitle}, todo : SUBSET Nat,
        found : SUBSET FoundPlace, roots : SUBSET Root, id : Nat, place : Nat,
        named : SUBSET Nat, blind : BOOLEAN]
Interference == [all : Nat, exported : BOOLEAN, looked : BOOLEAN, partial : BOOLEAN]

\* The file: every comment is on a tab that is there, and has an id of its own.
BookShape ==
  /\ tabs \in Seq(Tab) /\ tabs # <<>>
  /\ ids \in Nat /\ ids <= MaxIds
  /\ pins \subseteq Pin /\ IsFiniteSet(pins)
  /\ \A p \in pins : p.id <= ids /\ p.tab \in TabIds
  /\ \A p, q \in pins : p.id = q.id => p = q

\* The operation under way: until it has answered there is no answer, and what it has
\* found it has found by the map.
JobShape ==
  /\ job \in Job /\ others \in Interference
  /\ job.at # "idle" => answer = NoAnswer
  /\ job.at # "narrow" => job.found = {}
  /\ IsFiniteSet(job.found) /\ IsFiniteSet(job.todo) /\ IsFiniteSet(job.roots)
  /\ cell_map # NoMap => \A c \in DOMAIN cell_map : cell_map[c] \in Place

\* Between the look and the request: the name is still free unless somebody came in
\* between, and the id to delete is one that bore the name.
MeansTheNamed ==
  /\ job.at = "send add" => job.title \in Titles /\ (~others.looked => ~clash(job.title))
  /\ job.at = "send delete" => job.id \in job.named

\* The export on its way to the map, while nobody else has changed the file.
RootsFit ==
  job.at = "match" /\ ~others.exported =>
    \E readable \in SUBSET TabIds : \E named \in SUBSET readable :
      /\ job.roots = parse_xlsx_comments(readable, named)
      /\ ~others.partial => readable = TabIds

Fits(p, place) == place.row = p.row /\ place.tab \in {tabs[TitleOf(p.tab)].title, NoTitle}

\* The map, until the Sheet writes or somebody else does: a partial export may take one
\* of two comments of a key for the other, a whole one may leave them both out.
MapFits ==
  cell_map # NoMap /\ ~others.exported =>
    /\ (others.partial => NoTwins) =>
         \A p \in pins : p.id \in DOMAIN cell_map => Fits(p, cell_map[p.id])
    /\ ~others.partial /\ NoTwins => \A p \in pins : p.id \in DOMAIN cell_map

\* A comment that is there is still to be placed, unless one was given up.
TodoFits ==
  job.at \in {"place", "match"} /\ ~others.looked /\ ~job.blind =>
    \A p \in pins : p.id \in job.todo

\* What was found before the tab narrows it.
FoundFits ==
  job.at = "narrow" /\ ~others.exported =>
    /\ (job.blind \/ others.partial => NoTwins) =>
         \A p \in pins, f \in job.found :
           f.id = p.id => p.row = job.row /\ f.tab \in {tabs[TitleOf(p.tab)].title, NoTitle}
    /\ ~others.looked /\ ~job.blind /\ ~others.partial /\ NoTwins =>
         \A p \in pins : p.row = job.row => \E f \in job.found : f.id = p.id

BookInv ==
  /\ BookShape /\ JobShape /\ MeansTheNamed
  /\ RootsFit /\ MapFits /\ TodoFits /\ FoundFits /\ LookupIsSound

-----------------------------------------------------------------------------
(* The file. *)

LEMMA RemovedTab ==
  ASSUME NEW s \in Seq(Tab), NEW i \in DOMAIN s, Len(s) > 1, NEW u, u = RemoveAt(s, i)
  PROVE  /\ u \in Seq(Tab) /\ u # <<>>
         /\ \A j \in DOMAIN s \ {i} : \E k \in DOMAIN u : u[k] = s[j]
<1>1. PICK n \in Nat : n = Len(s) /\ DOMAIN s = 1 .. n /\ i \in 1 .. n OBVIOUS
<1>2. PICK a : a = SubSeq(s, 1, i - 1) OBVIOUS
<1>3. PICK b : b = SubSeq(s, i + 1, n) OBVIOUS
<1>4. a \in Seq(Tab) /\ Len(a) = i - 1 /\ \A k \in 1 .. i - 1 : a[k] = s[k]
  BY <1>1, <1>2
<1>5. b \in Seq(Tab) /\ Len(b) = n - i /\ \A k \in 1 .. n - i : b[k] = s[i + k]
  BY <1>1, <1>3
<1>6. u = a \o b BY <1>1, <1>2, <1>3 DEF RemoveAt
<1>7. /\ u \in Seq(Tab) /\ Len(u) = n - 1 /\ DOMAIN u = 1 .. n - 1
      /\ \A k \in 1 .. n - 1 : u[k] = IF k <= i - 1 THEN a[k] ELSE b[k - (i - 1)]

  <2>1. /\ a \o b \in Seq(Tab) /\ Len(a \o b) = Len(a) + Len(b)
        /\ \A k \in 1 .. Len(a) + Len(b) : (a \o b)[k] = IF k <= Len(a) THEN a[k] ELSE b[k - Len(a)]
    BY <1>4, <1>5, ConcatProperties
  <2>2. Len(a) + Len(b) = n - 1 BY <1>1, <1>4, <1>5
  <2>3. DOMAIN u = 1 .. Len(u) BY <1>6, <2>1
  <2> QED BY <1>4, <1>6, <2>1, <2>2, <2>3
<1>8. ASSUME NEW j \in DOMAIN s \ {i} PROVE \E k \in DOMAIN u : u[k] = s[j]
  <2>1. CASE j < i BY <1>1, <1>4, <1>7, <2>1
  <2>2. CASE j > i
    <3>1. j - 1 \in 1 .. n - 1 /\ ~(j - 1 <= i - 1) /\ (j - 1) - (i - 1) = j - i /\ j - i \in 1 .. n - i
          /\ i + (j - i) = j
      BY <1>1, <2>2
    <3>2. u[j - 1] = b[j - i] /\ b[j - i] = s[j] BY <1>5, <1>7, <3>1
    <3> QED BY <1>7, <3>1, <3>2
  <2> QED BY <1>1, <2>1, <2>2
<1> QED BY <1>1, <1>7, <1>8

\* A tab of a comment has a title.
LEMMA TitledTab ==
  ASSUME BookShape, NEW x \in TabIds
  PROVE  TitleOf(x) \in DOMAIN tabs /\ tabs[TitleOf(x)].id = x /\ tabs[TitleOf(x)].title \in Titles
<1>1. \E i \in DOMAIN tabs : tabs[i].id = x BY DEF TabIds
<1>2. TitleOf(x) \in DOMAIN tabs /\ tabs[TitleOf(x)].id = x BY <1>1 DEF TitleOf
<1>3. \A i \in DOMAIN tabs : tabs[i] \in Tab BY DEF BookShape
<1> QED BY <1>2, <1>3 DEF Tab

\* The first of some tabs.
LEMMA FirstOf ==
  ASSUME BookShape, NEW hits \in SUBSET (DOMAIN tabs), hits # {},
         NEW first, first = CHOOSE i \in hits : \A j \in hits : i <= j
  PROVE  first \in hits
<1>1. DOMAIN tabs \subseteq Nat BY DEF BookShape
<1>2. PICK R : R = {ss \in Nat \X Nat : ss[1] < ss[2]} OBVIOUS
<1>3. IsWellFoundedOn(R, Nat) BY <1>2, NatLessThanWellFounded DEF OpToRel
<1>4. PICK i \in hits : \A j \in hits : <<j, i>> \notin R BY <1>1, <1>3, WFMin
<1>5. \A a, b \in Nat : a < b => <<a, b>> \in R BY <1>2
<1>6. ASSUME NEW j \in hits PROVE i <= j
  <2>1. i \in Nat /\ j \in Nat BY <1>1
  <2>2. ~(j < i) BY <1>4, <1>5, <2>1
  <2> QED BY <2>1, <2>2
<1> QED BY <1>6

LEMMA TabsRemain ==
  ASSUME BookShape, NEW i \in DOMAIN tabs, Len(tabs) > 1, tabs' = RemoveAt(tabs, i),
         pins' = {p \in pins : p.tab # tabs[i].id}, ids' = ids
  PROVE  BookShape' /\ TabIds \ TabIds' \subseteq {tabs[i].id}
<1>1. /\ tabs' \in Seq(Tab) /\ tabs' # <<>>
      /\ \A j \in DOMAIN tabs \ {i} : \E k \in DOMAIN tabs' : tabs'[k] = tabs[j]
  BY RemovedTab DEF BookShape
<1>2. \A x \in TabIds : x # tabs[i].id => x \in TabIds' BY <1>1 DEF TabIds
<1>3. pins' \subseteq pins /\ IsFiniteSet(pins') BY FS_Subset DEF BookShape
<1> QED BY <1>1, <1>2, <1>3 DEF BookShape

LEMMA TabComes ==
  ASSUME BookShape, ids < MaxIds, NEW title \in Titles,
         NEW new, new = [id |-> ids + 1, title |-> title],
         tabs' = Append(tabs, new) \/ tabs' = <<new>> \o tabs,
         pins' = pins, ids' = ids + 1
  PROVE  BookShape'
<1>1. new \in Tab BY DEF Tab, BookShape
<1>2. tabs \in Seq(Tab) BY DEF BookShape
<1>3. tabs' \in Seq(Tab) /\ tabs' # <<>> /\ \A i \in DOMAIN tabs : \E j \in DOMAIN tabs' : tabs'[j] = tabs[i]
  <2>1. CASE tabs' = Append(tabs, new)
    <3>1. tabs' \in Seq(Tab) /\ Len(tabs') = Len(tabs) + 1 /\ \A i \in 1 .. Len(tabs) : tabs'[i] = tabs[i]
      BY <1>1, <1>2, <2>1
    <3> QED BY <1>2, <3>1
  <2>2. CASE tabs' = <<new>> \o tabs
    <3>1. <<new>> \in Seq(Tab) /\ Len(<<new>>) = 1 BY <1>1
    <3>2. PICK one : one = <<new>> OBVIOUS
    <3>3. /\ tabs' \in Seq(Tab) /\ Len(tabs') = Len(tabs) + 1
          /\ \A i \in 1 .. Len(tabs) : tabs'[i + 1] = tabs[i]
      BY <1>2, <2>2, <3>1, <3>2
    <3>4. DOMAIN tabs = 1 .. Len(tabs) /\ DOMAIN tabs' = 1 .. Len(tabs') BY <1>2, <3>3
    <3>5. \A i \in DOMAIN tabs : i + 1 \in DOMAIN tabs' /\ tabs'[i + 1] = tabs[i]
      BY <1>2, <3>3, <3>4
    <3>6. tabs' # <<>> BY <1>2, <3>3
    <3> QED BY <3>3, <3>5, <3>6
  <2> QED BY <2>1, <2>2
<1>4. TabIds \subseteq TabIds' BY <1>3 DEF TabIds
<1>5. ids' \in Nat /\ ids' <= MaxIds BY WorkbookAssumption DEF BookShape
<1> QED BY <1>3, <1>4, <1>5 DEF BookShape, Pin

LEMMA TabRenamed ==
  ASSUME BookShape, NEW i \in DOMAIN tabs, NEW title \in Titles,
         tabs' = [tabs EXCEPT ![i].title = title], pins' = pins, ids' = ids
  PROVE  BookShape'
<1>1. tabs \in Seq(Tab) /\ tabs[i] \in Tab BY DEF BookShape
<1>2. PICK new : new = [tabs[i] EXCEPT !.title = title] OBVIOUS
<1>3. new \in Tab /\ new.id = tabs[i].id BY <1>1, <1>2 DEF Tab
<1>4. tabs' = [tabs EXCEPT ![i] = new] BY <1>1, <1>2
<1>5. /\ tabs' \in Seq(Tab) /\ DOMAIN tabs' = DOMAIN tabs
      /\ \A j \in DOMAIN tabs : tabs'[j].id = tabs[j].id
  BY <1>1, <1>3, <1>4
<1>6. TabIds' = TabIds BY <1>5 DEF TabIds
<1>7. tabs' # <<>> BY <1>1, <1>5
<1> QED BY <1>5, <1>6, <1>7 DEF BookShape

LEMMA PinComes ==
  ASSUME BookShape, ids < MaxIds, NEW key \in Keys, NEW x \in TabIds, NEW row \in 1 .. MaxRow,
         pins' = pins \cup {[id |-> ids + 1, key |-> key, tab |-> x, row |-> row]},
         tabs' = tabs, ids' = ids + 1
  PROVE  BookShape'
<1>1. PICK new : new = [id |-> ids + 1, key |-> key, tab |-> x, row |-> row] OBVIOUS
<1>2. x \in Nat
  <2>1. \A i \in DOMAIN tabs : tabs[i] \in Tab BY DEF BookShape
  <2> QED BY <2>1 DEF TabIds, Tab
<1>3. new \in Pin /\ new.id = ids + 1 /\ new.tab = x BY <1>1, <1>2 DEF Pin, BookShape
<1>4. pins' = pins \cup {new} BY <1>1
<1>5. IsFiniteSet(pins')
  <2>1. IsFiniteSet(pins) BY DEF BookShape
  <2>2. IsFiniteSet(pins \cup {new}) BY <2>1, FS_AddElement
  <2> QED BY <1>4, <2>2
<1>6. ids' \in Nat /\ ids' <= MaxIds BY WorkbookAssumption DEF BookShape
<1>7. TabIds' = TabIds BY DEF TabIds
<1>8. \A p \in pins : p.id \in Nat /\ p.id <= ids BY DEF BookShape, Pin
<1>9. \A p, q \in pins' : p.id = q.id => p = q
  BY <1>3, <1>4, <1>8 DEF BookShape
<1>10. \A p \in pins' : p.id <= ids' /\ p.tab \in TabIds'
  BY <1>3, <1>4, <1>7, <1>8 DEF BookShape
<1> QED BY <1>3, <1>4, <1>5, <1>6, <1>9, <1>10 DEF BookShape

LEMMA PinsShift ==
  ASSUME BookShape, NEW x, \A p \in pins : p.row < MaxRow, pins' = Shifted(x), tabs' = tabs, ids' = ids
  PROVE  BookShape'
<1>1. PICK f : f = [p \in pins |-> IF p.tab = x THEN [p EXCEPT !.row = @ + 1] ELSE p] OBVIOUS
<1>2. pins' = {f[p] : p \in pins} BY <1>1 DEF Shifted
<1>3. \A p \in pins : f[p] \in Pin /\ f[p].id = p.id /\ f[p].tab = p.tab
  BY <1>1, WorkbookAssumption DEF BookShape, Pin
<1>4. IsFiniteSet(pins')
  <2>1. IsFiniteSet(pins) /\ f \in Surjection(pins, pins') BY <1>1, <1>2 DEF BookShape, Surjection
  <2> QED BY <2>1, FS_Surjection
<1>5. TabIds' = TabIds BY DEF TabIds
<1>6. \A p, q \in pins' : p.id = q.id => p = q BY <1>2, <1>3 DEF BookShape
<1> QED BY <1>2, <1>3, <1>4, <1>5, <1>6 DEF BookShape

LEMMA PinsGo ==
  ASSUME BookShape, pins' \subseteq pins, tabs' = tabs, ids' = ids
  PROVE  BookShape'
<1>1. IsFiniteSet(pins') BY FS_Subset DEF BookShape
<1>2. TabIds' = TabIds BY DEF TabIds
<1> QED BY <1>1, <1>2 DEF BookShape

-----------------------------------------------------------------------------
(* Steps that leave no answer. *)

LEMMA IdleIsAJob == Idle \in Job
<1>1. 0 \in 0 .. MaxRow BY WorkbookAssumption
<1> QED BY <1>1 DEF Idle, Job

LEMMA InitBook == BookInit => BookInv
<1> SUFFICES ASSUME BookInit PROVE BookInv OBVIOUS
<1>1. PICK t \in Titles : \A u \in Titles : Same(t, u) => u = t
  BY WorkbookAssumption DEF Same
<1>2. PICK first : first = CHOOSE v \in Titles : \A u \in Titles : Same(v, u) => u = v OBVIOUS
<1>3. first \in Titles BY <1>1, <1>2
<1>4. tabs = <<[id |-> 1, title |-> first]>> BY <1>2 DEF BookInit
<1>5. [id |-> 1, title |-> first] \in Tab BY <1>3 DEF Tab
<1>6. tabs \in Seq(Tab) /\ tabs # <<>> BY <1>4, <1>5
<1>7. BookShape
  BY <1>6, WorkbookAssumption, FS_EmptySet DEF BookInit, BookShape
<1>8. JobShape
  BY IdleIsAJob, FS_EmptySet DEF BookInit, JobShape, Interference, Idle, NoMap
<1>9. job.at = "idle" /\ cell_map = NoMap /\ answer = NoAnswer BY DEF BookInit, Idle
<1> QED
  BY <1>7, <1>8, <1>9
  DEF BookInv, MeansTheNamed, RootsFit, MapFits, TodoFits, FoundFits, LookupIsSound,
      FoundIsThere, ClearIsClear, Unmeddled

\* Whatever other people do, what the Sheet knows is no longer claimed.
LEMMA TheyStep ==
  ASSUME BookInv, Somebody, BookShape'
  PROVE  BookInv'
<1>1. /\ others.all \in Nat /\ others \in Interference
      /\ others' = [others EXCEPT !.all = @ + 1, !.exported = TRUE, !.looked = TRUE]
      /\ answer' = NoAnswer /\ cell_map' = cell_map /\ job' = job
  BY DEF Somebody, BookInv, JobShape, Interference
<1>2. others' \in Interference /\ others'.exported = TRUE /\ others'.looked = TRUE
  <2>1. PICK o \in Interference : o = others BY <1>1
  <2>2. PICK n \in Nat : n = o.all + 1 BY <2>1 DEF Interference
  <2>3. others' = [o EXCEPT !.all = n, !.exported = TRUE, !.looked = TRUE] BY <1>1, <2>1, <2>2
  <2> QED BY <2>1, <2>2, <2>3 DEF Interference
<1>3. JobShape' BY <1>1, <1>2 DEF BookInv, JobShape
<1>4. MeansTheNamed' BY <1>1, <1>2 DEF BookInv, MeansTheNamed
<1> QED
  BY <1>1, <1>2, <1>3, <1>4
  DEF BookInv, RootsFit, MapFits, TodoFits, FoundFits, LookupIsSound, FoundIsThere,
      ClearIsClear, Unmeddled

\* A write has forgotten the map.
LEMMA WrittenThrough ==
  ASSUME BookInv, BookShape', cell_map' = NoMap, answer' = NoAnswer, others' = others,
         job' = Idle \/ (job' = job /\ job.at = "idle")
  PROVE  BookInv'
<1>1. job' \in Job /\ job'.at = "idle" /\ job'.found = {}
  <2>1. Idle \in Job /\ Idle.at = "idle" /\ Idle.found = {} BY IdleIsAJob DEF Idle
  <2> QED BY <2>1 DEF BookInv, JobShape
<1>3. IsFiniteSet(job'.todo) /\ IsFiniteSet(job'.roots)
  BY FS_EmptySet DEF BookInv, JobShape, Idle
<1>2. JobShape' BY <1>3, <1>1, FS_EmptySet DEF BookInv, JobShape
<1> QED
  BY <1>1, <1>2
  DEF BookInv, MeansTheNamed, RootsFit, MapFits, TodoFits, FoundFits, LookupIsSound,
      FoundIsThere, ClearIsClear, Unmeddled

\* A step of the Sheet that leaves the file as it is.
FileStays == UNCHANGED <<tabs, pins, ids>>

LEMMA ShapeStays == ASSUME BookShape, FileStays PROVE BookShape'
  BY DEF BookShape, FileStays, TabIds

LEMMA MapStays ==
  ASSUME MapFits, FileStays, cell_map' = cell_map,
         others'.exported = others.exported, others'.partial = others.partial
  PROVE  MapFits'
  BY DEF MapFits, FileStays, Fits, NoTwins, TitleOf

\* An operation begins: what it is about to do is in its record.
LEMMA BeginStep ==
  ASSUME BookInv, FileStays, cell_map' = cell_map, answer' = NoAnswer,
         job' \in Job, job'.at \in {"list", "send add", "send delete"}, job'.found = {},
         job'.todo = {}, job'.roots = {},
         others' \in Interference, others'.exported = others.exported, others'.partial = others.partial,
         MeansTheNamed'
  PROVE  BookInv'
<1>1. BookShape' /\ MapFits' BY ShapeStays, MapStays DEF BookInv
<1>2. JobShape' BY FS_EmptySet DEF BookInv, JobShape
<1> QED
  BY <1>1, <1>2
  DEF BookInv, RootsFit, TodoFits, FoundFits, LookupIsSound, FoundIsThere, ClearIsClear, Unmeddled

LEMMA FindAtKeeps ==
  ASSUME BookInv, NEW row \in 1 .. MaxRow, NEW title \in Titles \cup {NoTitle}, FindAt(row, title)
  PROVE  BookInv'
<1>1. job' = [Idle EXCEPT !.at = "list", !.row = row, !.title = title] BY DEF FindAt
<1>2. row \in 0 .. MaxRow BY WorkbookAssumption
<1>3. PICK idle \in Job : idle = Idle BY IdleIsAJob
<1>4. /\ job' = [idle EXCEPT !.at = "list", !.row = row, !.title = title]
      /\ idle.found = {} /\ idle.todo = {} /\ idle.roots = {}
  BY <1>1, <1>3 DEF Idle
<1>5. job' \in Job /\ job'.at = "list" /\ job'.found = {} /\ job'.todo = {} /\ job'.roots = {}
  BY <1>2, <1>4 DEF Job
<1>6. others' = others /\ others \in Interference BY DEF FindAt, BookInv, JobShape
<1>7. MeansTheNamed' BY <1>5 DEF MeansTheNamed
<1> QED BY <1>5, <1>6, <1>7, BeginStep DEF FindAt, FileStays

LEMMA AddTabKeeps ==
  ASSUME BookInv, NEW title \in Titles, AddTab(title)
  PROVE  BookInv'
<1>1. job' = [Idle EXCEPT !.at = "send add", !.title = title] BY DEF AddTab
<1>2. /\ job' \in Job /\ job'.at = "send add" /\ job'.found = {} /\ job'.title = title
      /\ job'.todo = {} /\ job'.roots = {}
  <2>1. PICK idle \in Job : idle = Idle BY IdleIsAJob
  <2>2. /\ job' = [idle EXCEPT !.at = "send add", !.title = title]
        /\ idle.found = {} /\ idle.todo = {} /\ idle.roots = {}
    BY <1>1, <2>1 DEF Idle
  <2> QED BY <2>1, <2>2 DEF Job
<1>3. /\ others \in Interference /\ others' = [others EXCEPT !.looked = FALSE]
  BY DEF AddTab, BookInv, JobShape
<1>4. others' \in Interference /\ others'.exported = others.exported /\ others'.partial = others.partial
  BY <1>3 DEF Interference
<1>5. ~clash(title) /\ tabs' = tabs BY DEF AddTab
<1>6. MeansTheNamed' BY <1>2, <1>5 DEF MeansTheNamed, clash
<1> QED BY <1>2, <1>4, <1>6, BeginStep DEF AddTab, FileStays

LEMMA DeleteTabKeeps ==
  ASSUME BookInv, NEW title \in Titles, DeleteTab(title)
  PROVE  BookInv'
<1>1. PICK hits : hits = {i \in DOMAIN tabs : Same(tabs[i].title, title)} OBVIOUS
<1>2. PICK first : first = CHOOSE i \in hits : \A j \in hits : i <= j OBVIOUS
<1>3. hits # {} BY <1>1 DEF DeleteTab, clash
<1>4. first \in hits BY <1>1, <1>2, <1>3, FirstOf DEF BookInv
<1>5. PICK named : named = {tabs[i].id : i \in hits} OBVIOUS
<1>6. job' = [Idle EXCEPT !.at = "send delete", !.title = title, !.id = tabs[first].id,
                          !.place = first, !.named = named]
  BY <1>1, <1>2, <1>5 DEF DeleteTab
<1>7. \A i \in DOMAIN tabs : i \in Nat /\ tabs[i] \in Tab BY DEF BookInv, BookShape
<1>8. named \in SUBSET Nat /\ first \in Nat /\ tabs[first].id \in named
  BY <1>1, <1>4, <1>5, <1>7 DEF Tab
<1>9. /\ job' \in Job /\ job'.at = "send delete" /\ job'.found = {} /\ job'.id \in job'.named
      /\ job'.todo = {} /\ job'.roots = {}
  <2>1. PICK idle \in Job : idle = Idle BY IdleIsAJob
  <2>2. idle.found = {} /\ idle.todo = {} /\ idle.roots = {} BY <2>1 DEF Idle
  <2>3. PICK id \in Nat : id = tabs[first].id BY <1>4, <1>7, <1>8
  <2>4. job' = [idle EXCEPT !.at = "send delete", !.title = title, !.id = id,
                            !.place = first, !.named = named]
    BY <1>6, <2>1, <2>3
  <2> QED BY <1>8, <2>1, <2>2, <2>3, <2>4 DEF Job
<1>10. /\ others \in Interference /\ others' = [others EXCEPT !.looked = FALSE]
  BY DEF DeleteTab, BookInv, JobShape
<1>11. others' \in Interference /\ others'.exported = others.exported /\ others'.partial = others.partial
  BY <1>10 DEF Interference
<1>12. MeansTheNamed' BY <1>9 DEF MeansTheNamed
<1> QED BY <1>9, <1>11, <1>12, BeginStep DEF DeleteTab, FileStays

\* The title that Google gives a new tab is one.
LEMMA SendAddKeeps == ASSUME BookInv, SendAdd PROVE BookInv'
<1>1. BookShape /\ job \in Job /\ job.at = "send add" BY DEF BookInv, JobShape, SendAdd
<1>2. CASE UNCHANGED <<tabs, ids>>
  <2>1. BookShape' BY <1>1, <1>2, ShapeStays DEF SendAdd, FileStays
  <2> QED BY <2>1, WrittenThrough DEF SendAdd
<1>3. ASSUME ids < MaxIds,
             NEW title \in IF clash_exactly(job.title) THEN {t \in Titles : ~clash(t)} ELSE {job.title},
             tabs' = Append(tabs, [id |-> ids + 1, title |-> title]), ids' = ids + 1
      PROVE  BookInv'
  <2>1. title \in Titles BY <1>1, <1>3 DEF BookInv, MeansTheNamed
  <2>2. PICK new : new = [id |-> ids + 1, title |-> title] OBVIOUS
  <2>3. tabs' = Append(tabs, new) BY <1>3, <2>2
  <2>4. BookShape' BY <1>1, <1>3, <2>1, <2>2, <2>3, TabComes DEF SendAdd
  <2> QED BY <2>4, WrittenThrough DEF SendAdd
<1> QED BY <1>2, <1>3 DEF SendAdd

LEMMA SendDeleteKeeps == ASSUME BookInv, SendDelete PROVE BookInv'
<1>1. CASE UNCHANGED <<tabs, pins>>
  <2>1. BookShape' BY <1>1, ShapeStays DEF SendDelete, FileStays, BookInv
  <2> QED BY <2>1, WrittenThrough DEF SendDelete
<1>2. ASSUME NEW i \in victim, Len(tabs) > 1, tabs' = RemoveAt(tabs, i),
             pins' = {p \in pins : p.tab # tabs[i].id}
      PROVE  BookInv'
  <2>1. BookShape' BY <1>2, TabsRemain DEF SendDelete, BookInv, victim
  <2> QED BY <2>1, WrittenThrough DEF SendDelete
<1> QED BY <1>1, <1>2 DEF SendDelete

LEMMA WriteKeeps == ASSUME BookInv, NEW tab \in TabIds, Write(tab) PROVE BookInv'
<1>1. BookShape' BY PinsShift, ShapeStays DEF Write, BookInv, FileStays
<1> QED BY <1>1, WrittenThrough DEF Write, forgets_the_map

LEMMA CreateCommentKeeps == ASSUME BookInv, NEW key \in Keys, CreateComment(key) PROVE BookInv'
<1>1. 1 \in DOMAIN tabs BY DEF BookInv, BookShape
<1>2. PICK x \in TabIds : x = tabs[1].id BY <1>1 DEF TabIds
<1>3. 1 \in 1 .. MaxRow BY WorkbookAssumption
<1>4. BookShape' BY <1>2, <1>3, PinComes DEF CreateComment, BookInv
<1> QED BY <1>4, WrittenThrough DEF CreateComment

LEMMA ReloadKeeps == ASSUME BookInv, Reload PROVE BookInv'
<1>1. BookShape' BY ShapeStays DEF Reload, BookInv, FileStays
<1> QED BY <1>1, WrittenThrough DEF Reload

-----------------------------------------------------------------------------
(* The lookup of cells. *)

\* A root says of its comment what is so, or leaves its tab open.
RootOf(q, r) ==
  /\ r.key = q.key /\ r.row = q.row /\ r.id = q.id
  /\ r.tab \in {tabs[TitleOf(q.tab)].title, NoTitle}

\* One root for each comment on a tab that the export holds, and no others.
RootsAre(roots, readable) ==
  /\ roots \subseteq Root /\ IsFiniteSet(roots)
  /\ \A r \in roots : \E q \in pins : RootOf(q, r)
  /\ \A q \in pins : q.tab \in readable => \E r \in roots : RootOf(q, r)
  /\ \A q \in pins, x, y \in roots : RootOf(q, x) /\ RootOf(q, y) => x = y

LEMMA RootsAreOfPins ==
  ASSUME BookShape, NEW readable \in SUBSET TabIds, NEW named \in SUBSET readable,
         NEW roots, roots = parse_xlsx_comments(readable, named)
  PROVE  RootsAre(roots, readable)
<1>1. PICK P : P = {q \in pins : q.tab \in readable} OBVIOUS
<1>2. P \subseteq pins /\ IsFiniteSet(P) BY <1>1, FS_Subset DEF BookShape
<1>3. PICK f : f = [q \in P |-> [key |-> q.key, row |-> q.row,
                                 tab |-> IF q.tab \in named THEN tabs[TitleOf(q.tab)].title ELSE NoTitle,
                                 id |-> q.id]]
  OBVIOUS
<1>4. roots = {f[q] : q \in P} BY <1>1, <1>3 DEF parse_xlsx_comments
<1>5. \A q \in P : RootOf(q, f[q]) BY <1>3 DEF RootOf
<1>6. \A q \in P : f[q] \in Root
  <2>1. ASSUME NEW q \in P PROVE f[q] \in Root
    <3>1. q \in Pin /\ tabs[TitleOf(q.tab)].title \in Titles BY <1>2, TitledTab DEF BookShape
    <3> QED BY <1>3, <3>1 DEF Root, Pin
  <2> QED BY <2>1
<1>7. IsFiniteSet(roots)
  <2>1. f \in Surjection(P, roots) BY <1>3, <1>4 DEF Surjection
  <2> QED BY <1>2, <2>1, FS_Surjection
<1>8. ASSUME NEW q \in pins, NEW x \in roots, RootOf(q, x) PROVE x = f[q]
  <2>1. PICK o \in P : x = f[o] BY <1>4
  <2>2. o.id = q.id BY <1>5, <1>8, <2>1 DEF RootOf
  <2> QED BY <1>2, <2>1, <2>2 DEF BookShape
<1> QED BY <1>1, <1>2, <1>4, <1>5, <1>6, <1>7, <1>8 DEF RootsAre

\* A map made of the roots tells of each of its comments where its only root is.
LEMMA MapIsOfRoots ==
  ASSUME BookShape, NEW roots, IsFiniteSet(roots), NEW map, map = match_locations(roots, pins),
         NEW p \in pins
  PROVE  /\ p.id \in DOMAIN map =>
              \E r \in roots : /\ {x \in roots : x.key = p.key} = {r}
                               /\ map[p.id] = [row |-> r.row, tab |-> r.tab]
         /\ (\E r \in roots : {x \in roots : x.key = p.key} = {r}) => p.id \in DOMAIN map
<1> DEFINE Candidates(q) == {r \in roots : r.key = q.key}
<1>1. PICK sure : sure = {q \in pins : Cardinality(Candidates(q)) = 1} OBVIOUS
<1>2. map = [c \in {q.id : q \in sure} |->
               LET r == CHOOSE x \in Candidates(CHOOSE q \in sure : q.id = c) : TRUE
               IN  [row |-> r.row, tab |-> r.tab]]
  BY <1>1 DEF match_locations
<1>3. \A q \in sure : q.id = p.id => q = p BY <1>1 DEF BookShape
<1>4. IsFiniteSet(Candidates(p)) BY FS_Subset
<1>5. Cardinality(Candidates(p)) = 1 <=> \E r : Candidates(p) = {r} BY <1>4, FS_Singleton
<1>6. ASSUME p.id \in DOMAIN map
      PROVE  \E r \in roots : Candidates(p) = {r} /\ map[p.id] = [row |-> r.row, tab |-> r.tab]
  <2>1. p \in sure BY <1>2, <1>3, <1>6
  <2>2. PICK r : Candidates(p) = {r} BY <1>1, <1>5, <2>1
  <2>3. (CHOOSE q \in sure : q.id = p.id) = p BY <1>3, <2>1
  <2>4. (CHOOSE x \in Candidates(p) : TRUE) = r BY <2>2
  <2>5. map[p.id] = LET x == CHOOSE y \in Candidates(CHOOSE q \in sure : q.id = p.id) : TRUE
                    IN  [row |-> x.row, tab |-> x.tab]
    BY <1>2, <1>6
  <2>6. map[p.id] = [row |-> r.row, tab |-> r.tab]
    <3> HIDE DEF Candidates
    <3> QED BY <2>3, <2>4, <2>5
  <2>7. r \in roots BY <2>2
  <2> QED BY <2>2, <2>6, <2>7
<1>7. ASSUME NEW r \in roots, Candidates(p) = {r} PROVE p.id \in DOMAIN map
  <2>1. p \in sure BY <1>1, <1>5, <1>7
  <2> QED BY <1>2, <2>1
<1> QED BY <1>6, <1>7

LEMMA MapTyped ==
  ASSUME BookShape, NEW roots \in SUBSET Root, IsFiniteSet(roots),
         NEW map, map = match_locations(roots, pins), NEW c \in DOMAIN map
  PROVE  map[c] \in Place
<1>1. PICK p \in pins : p.id = c
  <2>1. DOMAIN map \subseteq {q.id : q \in pins} BY DEF match_locations
  <2> QED BY <2>1
<1>2. PICK r \in roots : /\ {x \in roots : x.key = p.key} = {r}
                         /\ map[p.id] = [row |-> r.row, tab |-> r.tab]
  <2>1. p.id \in DOMAIN map BY <1>1
  <2>2. IsFiniteSet(roots) OBVIOUS
  <2> HIDE DEF Root
  <2> QED BY <2>1, <2>2, MapIsOfRoots
<1> QED BY <1>1, <1>2 DEF Root, Place

\* The export of one moment and the listing of the next, with nobody in between.
LEMMA LocationsFit ==
  ASSUME BookShape, NEW readable \in SUBSET TabIds, NEW named \in SUBSET readable,
         NEW roots, roots = parse_xlsx_comments(readable, named),
         NEW map, map = match_locations(roots, pins), NEW p \in pins
  PROVE  /\ p.id \in DOMAIN map /\ (readable = TabIds \/ NoTwins) => Fits(p, map[p.id])
         /\ readable = TabIds /\ NoTwins => p.id \in DOMAIN map
<1>1. /\ roots \subseteq Root /\ IsFiniteSet(roots)
      /\ \A r \in roots : \E q \in pins : RootOf(q, r)
      /\ \A q \in pins : q.tab \in readable => \E r \in roots : RootOf(q, r)
      /\ \A q \in pins, x, y \in roots : RootOf(q, x) /\ RootOf(q, y) => x = y
  <2>1. RootsAre(roots, readable) BY RootsAreOfPins
  <2> QED BY <2>1 DEF RootsAre
<1>2. ASSUME p.id \in DOMAIN map, readable = TabIds \/ NoTwins PROVE Fits(p, map[p.id])
  <2>1. PICK r \in roots : /\ {x \in roots : x.key = p.key} = {r}
                           /\ map[p.id] = [row |-> r.row, tab |-> r.tab]
    BY <1>1, <1>2, MapIsOfRoots
  <2>2. RootOf(p, r)
    <3>1. CASE NoTwins
      <4>1. PICK q \in pins : RootOf(q, r) BY <1>1
      <4>2. q.key = p.key BY <2>1, <4>1 DEF RootOf
      <4> QED BY <3>1, <4>1, <4>2 DEF NoTwins
    <3>2. CASE readable = TabIds
      <4>1. PICK x \in roots : RootOf(p, x) BY <1>1, <3>2 DEF BookShape
      <4>2. x = r BY <2>1, <4>1 DEF RootOf
      <4> QED BY <4>1, <4>2
    <3> QED BY <1>2, <3>1, <3>2
  <2> QED BY <2>1, <2>2 DEF RootOf, Fits
<1>3. ASSUME readable = TabIds, NoTwins PROVE p.id \in DOMAIN map
  <2>1. PICK r \in roots : RootOf(p, r) BY <1>1, <1>3 DEF BookShape
  <2>2. ASSUME NEW x \in roots, x.key = p.key PROVE x = r
    <3>1. PICK q \in pins : RootOf(q, x) BY <1>1
    <3>2. q = p BY <1>3, <2>2, <3>1 DEF RootOf, NoTwins
    <3> QED BY <1>1, <2>1, <3>1, <3>2
  <2>3. {x \in roots : x.key = p.key} = {r} BY <2>1, <2>2 DEF RootOf
  <2> QED BY <1>1, <2>3, MapIsOfRoots
<1> QED BY <1>2, <1>3

\* A step of a lookup: the file stays, and there is no answer until the last of them.
LEMMA LookupStep ==
  ASSUME BookInv, FileStays, answer' = NoAnswer, others' \in Interference, job' \in Job,
         job'.at \in {"idle", "list", "place", "match", "narrow"},
         job'.at # "narrow" => job'.found = {}, IsFiniteSet(job'.found), IsFiniteSet(job'.todo),
         IsFiniteSet(job'.roots),
         cell_map' # NoMap => \A c \in DOMAIN cell_map' : cell_map'[c] \in Place,
         RootsFit', MapFits', TodoFits', FoundFits'
  PROVE  BookInv'
<1>1. BookShape' BY ShapeStays DEF BookInv
<1>2. JobShape' BY DEF JobShape
<1>3. MeansTheNamed' BY DEF MeansTheNamed
<1> QED
  BY <1>1, <1>2, <1>3 DEF BookInv, LookupIsSound, FoundIsThere, ClearIsClear, Unmeddled

LEMMA ListCommentsKeeps == ASSUME BookInv, ListComments PROVE BookInv'
<1>1. /\ job \in Job /\ others \in Interference /\ job.at = "list" /\ job.found = {} /\ answer = NoAnswer
      /\ IsFiniteSet(job.roots)
  BY DEF BookInv, JobShape, ListComments
<1>2. PICK todo : todo = {p.id : p \in pins} OBVIOUS
<1>3. todo \in SUBSET Nat /\ IsFiniteSet(todo)
  <2>1. pins \subseteq Pin /\ IsFiniteSet(pins) BY DEF BookInv, BookShape
  <2>2. PICK f : f = [p \in pins |-> p.id] OBVIOUS
  <2>3. f \in Surjection(pins, todo) BY <1>2, <2>2 DEF Surjection
  <2> QED BY <1>2, <2>1, <2>3, FS_Surjection DEF Pin
<1>4. job' = [job EXCEPT !.at = "place", !.todo = todo] BY <1>2 DEF ListComments
<1>5. /\ job' \in Job /\ job'.at = "place" /\ job'.todo = todo /\ job'.found = {}
      /\ job'.roots = job.roots
  BY <1>1, <1>3, <1>4 DEF Job
<1>6. others' = [others EXCEPT !.looked = FALSE] BY DEF ListComments
<1>7. others' \in Interference /\ others'.exported = others.exported /\ others'.partial = others.partial
  BY <1>1, <1>6 DEF Interference
<1>8. FileStays /\ cell_map' = cell_map /\ answer' = answer BY DEF ListComments, FileStays
<1>9. MapFits' BY <1>7, <1>8, MapStays DEF BookInv
<1>10. TodoFits' BY <1>2, <1>5, <1>8 DEF TodoFits, FileStays
<1>11. RootsFit' /\ FoundFits' BY <1>5 DEF RootsFit, FoundFits
<1>12. cell_map' # NoMap => \A c \in DOMAIN cell_map' : cell_map'[c] \in Place
  BY <1>8 DEF BookInv, JobShape
<1> QED
  BY <1>1, <1>3, <1>5, <1>7, <1>8, <1>9, <1>10, <1>11, <1>12, FS_EmptySet, LookupStep

LEMMA ExportKeeps == ASSUME BookInv, Export PROVE BookInv'
<1>1. /\ job \in Job /\ others \in Interference /\ job.at = "place" /\ cell_map = NoMap
      /\ job.found = {} /\ answer = NoAnswer /\ IsFiniteSet(job.todo) /\ BookShape
  BY DEF BookInv, JobShape, Export
<1>15. PICK readable \in SUBSET TabIds : \E named \in SUBSET readable :
        /\ job' = [job EXCEPT !.at = "match", !.roots = parse_xlsx_comments(readable, named)]
        /\ others' = [others EXCEPT !.exported = FALSE, !.partial = readable # TabIds]
  BY DEF Export
<1>2. PICK named \in SUBSET readable :
        /\ job' = [job EXCEPT !.at = "match", !.roots = parse_xlsx_comments(readable, named)]
        /\ others' = [others EXCEPT !.exported = FALSE, !.partial = readable # TabIds]
  BY <1>15
<1>3. PICK roots : roots = parse_xlsx_comments(readable, named) OBVIOUS
<1>4. roots \subseteq Root /\ IsFiniteSet(roots)
  <2>1. RootsAre(roots, readable) BY <1>1, <1>3, RootsAreOfPins
  <2> QED BY <2>1 DEF RootsAre
<1>5. job' = [job EXCEPT !.at = "match", !.roots = roots] BY <1>2, <1>3
<1>6. /\ job' \in Job /\ job'.at = "match" /\ job'.roots = roots /\ job'.todo = job.todo
      /\ job'.found = {} /\ job'.blind = job.blind
  BY <1>1, <1>4, <1>5 DEF Job
<1>7. PICK partial \in BOOLEAN : partial = (readable # TabIds) OBVIOUS
<1>8. others' = [others EXCEPT !.exported = FALSE, !.partial = partial] BY <1>2, <1>7
<1>9. others' \in Interference /\ others'.looked = others.looked /\ others'.partial = partial
  BY <1>1, <1>8 DEF Interference
<1>10. FileStays /\ cell_map' = cell_map /\ answer' = answer BY DEF Export, FileStays
<1>11. MapFits' BY <1>1, <1>10 DEF MapFits
<1>12. TodoFits' BY <1>1, <1>6, <1>9, <1>10 DEF TodoFits, FileStays, BookInv
<1>13. FoundFits' BY <1>6 DEF FoundFits
<1>14. RootsFit'
  <2>1. TabIds' = TabIds BY <1>10 DEF FileStays, TabIds
  <2>2. parse_xlsx_comments(readable, named)' = parse_xlsx_comments(readable, named)
    BY <1>10 DEF FileStays, parse_xlsx_comments, TitleOf
  <2> QED BY <1>3, <1>6, <1>7, <1>9, <2>1, <2>2 DEF RootsFit
<1> QED
  BY <1>1, <1>4, <1>6, <1>9, <1>10, <1>11, <1>12, <1>13, <1>14, FS_EmptySet, LookupStep

LEMMA MatchKeeps == ASSUME BookInv, Match PROVE BookInv'
<1>1. /\ job \in Job /\ others \in Interference /\ job.at = "match" /\ IsFiniteSet(job.roots)
      /\ job.found = {} /\ answer = NoAnswer /\ IsFiniteSet(job.todo) /\ BookShape
  BY DEF BookInv, JobShape, Match
<1>2. PICK roots : roots = job.roots OBVIOUS
<1>3. PICK map : map = match_locations(roots, pins) OBVIOUS
<1>4. cell_map' = map BY <1>2, <1>3 DEF Match
<1>5. job' = [job EXCEPT !.at = "place", !.roots = {}] BY DEF Match
<1>6. /\ job' \in Job /\ job'.at = "place" /\ job'.todo = job.todo
      /\ job'.found = {} /\ job'.roots = {} /\ job'.blind = job.blind
  BY <1>1, <1>5 DEF Job
<1>7. FileStays /\ others' = others /\ answer' = answer BY DEF Match, FileStays
<1>8. TodoFits' BY <1>1, <1>6, <1>7 DEF TodoFits, FileStays, BookInv
<1>9. RootsFit' /\ FoundFits' BY <1>6 DEF RootsFit, FoundFits
<1>10. MapFits'
  <2>1. SUFFICES ASSUME ~others.exported PROVE MapFits' BY <1>7 DEF MapFits
  <2>7. PICK readable \in SUBSET TabIds : \E named \in SUBSET readable :
          /\ roots = parse_xlsx_comments(readable, named)
          /\ ~others.partial => readable = TabIds
    BY <1>1, <1>2, <2>1 DEF BookInv, RootsFit
  <2>2. PICK named \in SUBSET readable :
          /\ roots = parse_xlsx_comments(readable, named)
          /\ ~others.partial => readable = TabIds
    BY <2>7
  <2>3. ASSUME NEW p \in pins
        PROVE  /\ p.id \in DOMAIN map /\ (readable = TabIds \/ NoTwins) => Fits(p, map[p.id])
               /\ readable = TabIds /\ NoTwins => p.id \in DOMAIN map
    BY <1>1, <1>3, <2>2, LocationsFit
  <2>4. \A p \in pins : Fits(p, map[p.id])' = Fits(p, map[p.id])
    BY <1>7 DEF Fits, FileStays, TitleOf
  <2>5. NoTwins' = NoTwins BY <1>7 DEF NoTwins, FileStays
  <2>6. pins' = pins BY <1>7 DEF FileStays
  <2> QED BY <1>4, <1>7, <2>2, <2>3, <2>4, <2>5, <2>6 DEF MapFits
<1>11. \A c \in DOMAIN cell_map' : cell_map'[c] \in Place
  <2>1. roots \in SUBSET Root /\ IsFiniteSet(roots) BY <1>1, <1>2 DEF Job
  <2> QED BY <1>1, <1>3, <1>4, <2>1, MapTyped
<1> QED
  BY <1>1, <1>6, <1>7, <1>8, <1>9, <1>10, <1>11, FS_EmptySet, LookupStep

LEMMA LocateKeeps == ASSUME BookInv, Locate PROVE BookInv'
<1>1. /\ job \in Job /\ others \in Interference /\ job.at = "place" /\ cell_map # NoMap
      /\ job.found = {} /\ answer = NoAnswer /\ IsFiniteSet(job.todo) /\ IsFiniteSet(job.roots)
      /\ \A c \in DOMAIN cell_map : cell_map[c] \in Place
  BY DEF BookInv, JobShape, Locate
<1>2. PICK here : here = {c \in job.todo \cap DOMAIN cell_map : cell_map[c].row = job.row} OBVIOUS
<1>3. PICK found : found = {[id |-> c, tab |-> cell_map[c].tab] : c \in here} OBVIOUS
<1>4. here \subseteq job.todo /\ IsFiniteSet(here) BY <1>1, <1>2, FS_Subset
<1>5. job.todo \subseteq Nat BY <1>1 DEF Job
<1>6. found \subseteq FoundPlace /\ IsFiniteSet(found)
  <2>1. PICK f : f = [c \in here |-> [id |-> c, tab |-> cell_map[c].tab]] OBVIOUS
  <2>2. found = {f[c] : c \in here} BY <1>3, <2>1
  <2>3. f \in Surjection(here, found) BY <2>1, <2>2 DEF Surjection
  <2>4. \A c \in here : c \in Nat /\ cell_map[c] \in Place BY <1>1, <1>2, <1>4, <1>5
  <2>5. \A c \in here : f[c] \in FoundPlace BY <2>1, <2>4 DEF FoundPlace, Place
  <2> QED BY <1>4, <2>2, <2>3, <2>5, FS_Surjection
<1>7. job' = [job EXCEPT !.at = "narrow", !.todo = {}, !.found = found]
  BY <1>1, <1>2, <1>3 DEF Locate
<1>8. /\ job' \in Job /\ job'.at = "narrow" /\ job'.todo = {} /\ job'.roots = job.roots
      /\ job'.found = found /\ job'.blind = job.blind /\ job'.row = job.row
  BY <1>1, <1>6, <1>7 DEF Job
<1>9. FileStays /\ others' = others /\ answer' = answer /\ cell_map' = cell_map
  BY DEF Locate, FileStays
<1>10. MapFits' BY <1>9, MapStays DEF BookInv
<1>11. RootsFit' /\ TodoFits' BY <1>8 DEF RootsFit, TodoFits
<1>12. FoundFits'
  <2>1. NoTwins' = NoTwins /\ pins' = pins /\ tabs' = tabs BY <1>9 DEF NoTwins, FileStays
  <2>2. SUFFICES ASSUME ~others.exported PROVE FoundFits' BY <1>9 DEF FoundFits
  <2>3. ASSUME NEW p \in pins, NEW f \in found, f.id = p.id, others.partial => NoTwins
        PROVE  p.row = job.row /\ f.tab \in {tabs[TitleOf(p.tab)].title, NoTitle}
    <3>1. PICK c \in here : f = [id |-> c, tab |-> cell_map[c].tab] BY <1>3
    <3>2. c = p.id /\ c \in DOMAIN cell_map /\ cell_map[c].row = job.row /\ f.tab = cell_map[c].tab
      BY <1>2, <2>3, <3>1
    <3>3. Fits(p, cell_map[c]) BY <1>1, <2>2, <2>3, <3>2 DEF BookInv, MapFits
    <3> QED BY <3>2, <3>3 DEF Fits
  <2>4. ASSUME ~others.looked, ~job.blind, ~others.partial, NoTwins, NEW p \in pins, p.row = job.row
        PROVE  \E f \in found : f.id = p.id
    <3>1. p.id \in DOMAIN cell_map /\ Fits(p, cell_map[p.id])
      BY <1>1, <2>2, <2>4 DEF BookInv, MapFits
    <3>2. p.id \in job.todo BY <1>1, <2>4 DEF BookInv, TodoFits
    <3>3. p.id \in here BY <1>2, <2>4, <3>1, <3>2 DEF Fits
    <3>4. PICK f : f = [id |-> p.id, tab |-> cell_map[p.id].tab] OBVIOUS
    <3>5. f \in found /\ f.id = p.id BY <1>3, <3>3, <3>4
    <3> QED BY <3>5
  <2>5. (others.partial \/ job.blind => NoTwins) => (others.partial => NoTwins) OBVIOUS
  <2>6. \A p \in pins : TitleOf(p.tab)' = TitleOf(p.tab) BY <2>1 DEF TitleOf
  <2> QED BY <1>8, <1>9, <2>1, <2>3, <2>4, <2>5, <2>6 DEF FoundFits
<1> QED
  BY <1>1, <1>6, <1>8, <1>9, <1>10, <1>11, <1>12, FS_EmptySet, LookupStep

LEMMA UnplaceableKeeps == ASSUME BookInv, Unplaceable PROVE BookInv'
<1>1. /\ job \in Job /\ others \in Interference /\ job.at \in {"match", "place"}
      /\ job.found = {} /\ answer = NoAnswer /\ IsFiniteSet(job.todo)
      /\ cell_map # NoMap => \A c \in DOMAIN cell_map : cell_map[c] \in Place
  BY DEF BookInv, JobShape, Unplaceable
<1>2. PICK c \in job.todo :
        job' = [job EXCEPT !.at = "place", !.todo = job.todo \ {c}, !.roots = {}, !.blind = TRUE]
  BY DEF Unplaceable, give_up_on
<1>3. PICK todo : todo = job.todo \ {c} OBVIOUS
<1>4. todo \in SUBSET Nat /\ IsFiniteSet(todo) BY <1>1, <1>3, FS_Subset DEF Job
<1>5. job' = [job EXCEPT !.at = "place", !.todo = todo, !.roots = {}, !.blind = TRUE]
  BY <1>2, <1>3
<1>6. /\ job' \in Job /\ job'.at = "place" /\ job'.todo = todo /\ job'.roots = {}
      /\ job'.found = {} /\ job'.blind
  BY <1>1, <1>4, <1>5 DEF Job
<1>7. FileStays /\ others' = others /\ answer' = answer /\ cell_map' = cell_map
  BY DEF Unplaceable, FileStays
<1>8. MapFits' BY <1>7, MapStays DEF BookInv
<1>9. RootsFit' /\ TodoFits' /\ FoundFits' BY <1>6 DEF RootsFit, TodoFits, FoundFits
<1> QED BY <1>1, <1>4, <1>6, <1>7, <1>8, <1>9, FS_EmptySet, LookupStep

LEMMA NothingToPlaceKeeps == ASSUME BookInv, NothingToPlace PROVE BookInv'
<1>1. /\ job \in Job /\ others \in Interference /\ job.at = "place" /\ cell_map = NoMap /\ job.todo = {}
      /\ job.found = {} /\ answer = NoAnswer /\ IsFiniteSet(job.roots)
  BY DEF BookInv, JobShape, NothingToPlace
<1>2. job' = [job EXCEPT !.at = "narrow"] BY DEF NothingToPlace
<1>3. /\ job' \in Job /\ job'.at = "narrow" /\ job'.todo = {} /\ job'.roots = job.roots
      /\ job'.found = {} /\ job'.blind = job.blind
  BY <1>1, <1>2 DEF Job
<1>4. FileStays /\ others' = others /\ answer' = answer /\ cell_map' = cell_map
  BY DEF NothingToPlace, FileStays
<1>5. MapFits' BY <1>4, MapStays DEF BookInv
<1>6. RootsFit' /\ TodoFits' BY <1>3 DEF RootsFit, TodoFits
<1>7. ~others.looked /\ ~job.blind => pins = {} BY <1>1 DEF BookInv, TodoFits
<1>8. FoundFits' BY <1>3, <1>4, <1>7 DEF FoundFits, FileStays
<1> QED BY <1>1, <1>3, <1>4, <1>5, <1>6, <1>8, FS_EmptySet, LookupStep

LEMMA GiveUpKeeps == ASSUME BookInv, GiveUp PROVE BookInv'
<1>1. /\ others \in Interference
      /\ cell_map # NoMap => \A c \in DOMAIN cell_map : cell_map[c] \in Place
  BY DEF BookInv, JobShape
<1>2. /\ job' \in Job /\ job'.at = "idle" /\ job'.todo = {} /\ job'.roots = {} /\ job'.found = {}
  <2>1. Idle \in Job /\ Idle.at = "idle" /\ Idle.found = {} /\ Idle.todo = {} /\ Idle.roots = {}
    BY IdleIsAJob DEF Idle
  <2> QED BY <2>1 DEF GiveUp
<1>3. FileStays /\ others' = others /\ answer' = NoAnswer /\ cell_map' = cell_map
  BY DEF GiveUp, FileStays
<1>4. MapFits' BY <1>3, MapStays DEF BookInv
<1>5. RootsFit' /\ TodoFits' /\ FoundFits' BY <1>2 DEF RootsFit, TodoFits, FoundFits
<1> QED BY <1>1, <1>2, <1>3, <1>4, <1>5, FS_EmptySet, LookupStep

\* The answer, of a lookup that nobody disturbed.
LEMMA AnswerFits ==
  ASSUME BookInv, job.at = "narrow", ~others.exported, NEW wanted,
         NEW found, found = {c.id : c \in {d \in job.found : wanted \in {NoTitle, d.tab}}}
  PROVE  /\ (job.blind \/ others.partial => NoTwins) =>
              \A p \in pins : p.id \in found => At(p, job.row, wanted)
         /\ ~others.looked /\ ~job.blind /\ ~others.partial /\ NoTwins
            /\ unplaced(job.found, wanted) = 0 =>
              \A p \in pins : At(p, job.row, wanted) => p.id \in found
<1>1. ASSUME job.blind \/ others.partial => NoTwins, NEW p \in pins, p.id \in found
      PROVE  At(p, job.row, wanted)
  <2>1. PICK f \in job.found : f.id = p.id /\ wanted \in {NoTitle, f.tab} BY <1>1
  <2>2. p.row = job.row /\ f.tab \in {tabs[TitleOf(p.tab)].title, NoTitle}
    BY <1>1, <2>1 DEF BookInv, FoundFits
  <2> QED BY <2>1, <2>2 DEF At
<1>2. ASSUME ~others.looked, ~job.blind, ~others.partial, NoTwins,
             unplaced(job.found, wanted) = 0, NEW p \in pins, At(p, job.row, wanted)
      PROVE  p.id \in found
  <2>1. p.row = job.row BY <1>2 DEF At
  <2>2. PICK f \in job.found : f.id = p.id BY <1>2, <2>1 DEF BookInv, FoundFits
  <2>3. f.tab \in {tabs[TitleOf(p.tab)].title, NoTitle} BY <1>2, <2>2 DEF BookInv, FoundFits
  <2>4. f.tab # NoTitle
    <3>1. PICK open : open = {c \in job.found : c.tab = NoTitle} OBVIOUS
    <3>2. IsFiniteSet(open) BY <3>1, FS_Subset DEF BookInv, JobShape
    <3>3. Cardinality(open) = 0 BY <1>2, <3>1 DEF unplaced
    <3>4. open = {} BY <3>2, <3>3, FS_EmptySet
    <3> QED BY <3>1, <3>4
  <2> QED BY <1>2, <2>2, <2>3, <2>4 DEF At
<1> QED BY <1>1, <1>2

LEMMA NarrowKeeps == ASSUME BookInv, Narrow PROVE BookInv'
<1>1. /\ job \in Job /\ others \in Interference /\ job.at = "narrow"
      /\ cell_map # NoMap => \A c \in DOMAIN cell_map : cell_map[c] \in Place
  BY DEF BookInv, JobShape, Narrow
<1>2. PICK wanted :
        answer' = [row |-> job.row, wanted |-> wanted, blind |-> job.blind \/ others.partial,
                   found |-> {c.id : c \in {d \in job.found : wanted \in {NoTitle, d.tab}}},
                   unplaced |-> unplaced(job.found, wanted)]
  BY DEF Narrow
<1>3. PICK found : found = {c.id : c \in {d \in job.found : wanted \in {NoTitle, d.tab}}} OBVIOUS
<1>4. /\ answer'.row = job.row /\ answer'.wanted = wanted /\ answer'.found = found
      /\ answer'.blind = (job.blind \/ others.partial)
      /\ answer'.unplaced = unplaced(job.found, wanted)
  BY <1>2, <1>3
<1>5. /\ job' \in Job /\ job'.at = "idle" /\ job'.todo = {} /\ job'.roots = {} /\ job'.found = {}
  <2>1. Idle \in Job /\ Idle.at = "idle" /\ Idle.found = {} /\ Idle.todo = {} /\ Idle.roots = {}
    BY IdleIsAJob DEF Idle
  <2> QED BY <2>1 DEF Narrow
<1>6. FileStays /\ others' = others /\ cell_map' = cell_map BY DEF Narrow, FileStays
<1>7. BookShape' /\ MapFits' BY <1>6, ShapeStays, MapStays DEF BookInv
<1>8. RootsFit' /\ TodoFits' /\ FoundFits' /\ MeansTheNamed'
  BY <1>5 DEF RootsFit, TodoFits, FoundFits, MeansTheNamed
<1>9. JobShape' BY <1>1, <1>5, <1>6, FS_EmptySet DEF JobShape
<1>10. pins' = pins /\ tabs' = tabs /\ NoTwins' = NoTwins
  BY <1>6 DEF FileStays, NoTwins
<1>11. \A p \in pins : At(p, answer.row, answer.wanted)' <=> At(p, job.row, wanted)
  BY <1>4, <1>10 DEF At, TitleOf
<1>12. FoundIsThere'
  <2>1. SUFFICES ASSUME ~others.exported, answer'.blind => NoTwins, NEW p \in pins, p.id \in found
                 PROVE  At(p, job.row, wanted)
    BY <1>4, <1>6, <1>10, <1>11 DEF FoundIsThere, Unmeddled
  <2> QED BY <1>1, <1>3, <1>4, <2>1, AnswerFits
<1>13. ClearIsClear'
  <2>1. SUFFICES ASSUME ~others.exported, ~others.looked, ~answer'.blind, answer'.unplaced = 0,
                        NoTwins, NEW p \in pins, At(p, job.row, wanted)
                 PROVE  p.id \in found
    BY <1>4, <1>6, <1>10, <1>11 DEF ClearIsClear, Unmeddled
  <2> QED BY <1>1, <1>3, <1>4, <2>1, AnswerFits
<1> QED BY <1>7, <1>8, <1>9, <1>12, <1>13 DEF BookInv, LookupIsSound

LEMMA TheyMove == ASSUME BookInv,
    \/ \E key \in Keys, i \in DOMAIN tabs, row \in 1 .. MaxRow : TheyComment(key, i, row)
    \/ \E p \in pins : TheyDelete(p)
    \/ \E tab \in TabIds : TheyInsert(tab)
    \/ \E i \in DOMAIN tabs, title \in Titles : TheyRename(i, title)
    \/ \E title \in Titles : TheyAddTab(title)
    \/ \E i \in DOMAIN tabs : TheyDeleteTab(i)
  PROVE BookInv'
<1>1. BookShape BY DEF BookInv
<1>2. ASSUME NEW key \in Keys, NEW i \in DOMAIN tabs, NEW row \in 1 .. MaxRow, TheyComment(key, i, row)
      PROVE  BookInv'
  <2>1. PICK x \in TabIds : x = tabs[i].id BY DEF TabIds
  <2>2. BookShape' BY <1>1, <1>2, <2>1, PinComes DEF TheyComment
  <2> QED BY <1>2, <2>2, TheyStep DEF TheyComment
<1>3. ASSUME NEW p \in pins, TheyDelete(p) PROVE BookInv'
  <2>1. BookShape' BY <1>1, <1>3, PinsGo DEF TheyDelete
  <2> QED BY <1>3, <2>1, TheyStep DEF TheyDelete
<1>4. ASSUME NEW tab \in TabIds, TheyInsert(tab) PROVE BookInv'
  <2>1. BookShape' BY <1>1, <1>4, PinsShift DEF TheyInsert
  <2> QED BY <1>4, <2>1, TheyStep DEF TheyInsert
<1>5. ASSUME NEW i \in DOMAIN tabs, NEW title \in Titles, TheyRename(i, title) PROVE BookInv'
  <2>1. BookShape' BY <1>1, <1>5, TabRenamed DEF TheyRename
  <2> QED BY <1>5, <2>1, TheyStep DEF TheyRename
<1>6. ASSUME NEW title \in Titles, TheyAddTab(title) PROVE BookInv'
  <2>1. PICK new : new = [id |-> ids + 1, title |-> title] OBVIOUS
  <2>2. tabs' = <<new>> \o tabs BY <1>6, <2>1 DEF TheyAddTab
  <2>3. BookShape' BY <1>1, <1>6, <2>1, <2>2, TabComes DEF TheyAddTab
  <2> QED BY <1>6, <2>3, TheyStep DEF TheyAddTab
<1>7. ASSUME NEW i \in DOMAIN tabs, TheyDeleteTab(i) PROVE BookInv'
  <2>1. BookShape' BY <1>1, <1>7, TabsRemain DEF TheyDeleteTab
  <2> QED BY <1>7, <2>1, TheyStep DEF TheyDeleteTab
<1> QED BY <1>2, <1>3, <1>4, <1>5, <1>6, <1>7

LEMMA BookStutters == BookInv /\ UNCHANGED bookVars => BookInv'
<1> SUFFICES ASSUME BookInv, UNCHANGED bookVars PROVE BookInv' OBVIOUS
<1>1. /\ tabs' = tabs /\ pins' = pins /\ ids' = ids /\ cell_map' = cell_map /\ job' = job
      /\ answer' = answer /\ others' = others
  BY DEF bookVars
<1>2. BookShape' /\ MapFits' BY <1>1, ShapeStays, MapStays DEF BookInv, FileStays
<1>3. JobShape' /\ MeansTheNamed' /\ TodoFits'
  BY <1>1 DEF BookInv, JobShape, MeansTheNamed, clash, TodoFits
<1>4. RootsFit'
  <2>1. TabIds' = TabIds BY <1>1 DEF TabIds
  <2>2. ASSUME NEW readable, NEW named
        PROVE  parse_xlsx_comments(readable, named)' = parse_xlsx_comments(readable, named)
    BY <1>1 DEF parse_xlsx_comments, TitleOf
  <2>3. RootsFit BY DEF BookInv
  <2> QED BY <1>1, <2>1, <2>2, <2>3 DEF RootsFit
<1>6. FoundFits' BY <1>1 DEF BookInv, FoundFits, TitleOf, NoTwins
<1>5. LookupIsSound'
  BY <1>1 DEF BookInv, LookupIsSound, FoundIsThere, ClearIsClear, Unmeddled, At, TitleOf, NoTwins
<1> QED BY <1>2, <1>3, <1>4, <1>5, <1>6 DEF BookInv

LEMMA NextBook == BookInv /\ [BookNext]_bookVars => BookInv'
<1> SUFFICES ASSUME BookInv, [BookNext]_bookVars PROVE BookInv' OBVIOUS
<1>1. CASE JobStep
  BY <1>1, ListCommentsKeeps, LocateKeeps, ExportKeeps, MatchKeeps, UnplaceableKeeps,
     NothingToPlaceKeeps, NarrowKeeps, GiveUpKeeps, SendAddKeeps, SendDeleteKeeps
  DEF JobStep
<1>2. ASSUME NEW row \in 1 .. MaxRow, NEW title \in Titles \cup {NoTitle}, FindAt(row, title)
      PROVE  BookInv'
  BY <1>2, FindAtKeeps
<1>3. ASSUME NEW title \in Titles, AddTab(title) \/ DeleteTab(title) PROVE BookInv'
  BY <1>3, AddTabKeeps, DeleteTabKeeps
<1>4. ASSUME NEW tab \in TabIds, Write(tab) PROVE BookInv' BY <1>4, WriteKeeps
<1>5. ASSUME NEW key \in Keys, CreateComment(key) PROVE BookInv' BY <1>5, CreateCommentKeeps
<1>6. CASE Reload BY <1>6, ReloadKeeps
<1>7. CASE UNCHANGED bookVars BY <1>7, BookStutters
<1> QED BY <1>1, <1>2, <1>3, <1>4, <1>5, <1>6, <1>7, TheyMove DEF BookNext

-----------------------------------------------------------------------------
(* What the callers rely on. *)

\* In every reachable state the file is one that Sheets can hold, and the map, the roots
\* and what has been found are of the file as it is, for as long as nobody else has
\* changed it (sheet.py:233-292, _cellmap.py:219-233).
THEOREM BookInvariant == BookSpec => []BookInv
<1>1. BookInit => BookInv BY InitBook
<1>2. BookInv /\ [BookNext]_bookVars => BookInv' BY NextBook
<1> QED BY <1>1, <1>2, PTL DEF BookSpec

\* The variables keep their types.
THEOREM BookTypesKept == BookSpec => []BookTypeOK
<1>1. ASSUME BookInv PROVE BookTypeOK
  <2>1. pins \subseteq [id : Nat, key : Keys, tab : TabIds, row : 1 .. MaxRow]
    BY <1>1 DEF BookInv, BookShape, Pin
  <2>2. job.at \in {"idle", "list", "place", "match", "narrow", "send add", "send delete"}
    BY <1>1 DEF BookInv, JobShape, Job
  <2> QED BY <1>1, <2>1, <2>2 DEF BookInv, BookTypeOK, BookShape, JobShape, Tab, Place
<1> QED BY <1>1, BookInvariant, PTL

\* Whatever the Sheet wrote and however its requests ended: a comment that is said to be
\* at a cell is there, and a cell that is said to be clear is, unless somebody else
\* changed the file since the export (documents/sheet.py:233-292, _cellmap.py:219-233).
THEOREM LookupsAreSound == BookSpec => []LookupIsSound
<1>1. BookInv => LookupIsSound BY DEF BookInv
<1> QED BY <1>1, BookInvariant, PTL

\* An operation that sends ends by what it sends.
LEMMA SendsToEnd ==
  ASSUME [BookNext]_bookVars, job.at \in {"send add", "send delete"}, job' = Idle
  PROVE  SendAdd \/ SendDelete
<1>1. job' # job
  <2>1. Idle.at = "idle" BY DEF Idle
  <2> QED BY <2>1
<1>2. CASE JobStep
  BY <1>2 DEF JobStep, ListComments, Locate, Export, Match, Unplaceable, NothingToPlace, Narrow, GiveUp
<1>3. ~UNCHANGED bookVars BY <1>1 DEF bookVars
<1>4. ~Somebody BY <1>1 DEF Somebody
<1>5. ~Reload /\ (\A tab : ~Write(tab)) /\ (\A key : ~CreateComment(key))
  BY DEF Reload, Write, CreateComment
<1>6. (\A title : ~AddTab(title)) /\ (\A title : ~DeleteTab(title)) /\ (\A row, title : ~FindAt(row, title))
  BY DEF AddTab, DeleteTab, FindAt
<1> QED
  BY <1>2, <1>3, <1>4, <1>5, <1>6
  DEF BookNext, TheyComment, TheyDelete, TheyInsert, TheyRename, TheyAddTab, TheyDeleteTab

LEMMA AddedIsNoTwin ==
  ASSUME BookInv, SendAdd, Len(tabs') > Len(tabs), ~others.looked, NEW i \in DOMAIN tabs
  PROVE  ~Same(tabs[i].title, tabs'[Len(tabs')].title)
<1>1. job.at = "send add" BY DEF SendAdd
<1>2. tabs' # tabs /\ tabs \in Seq(Tab) BY DEF BookInv, BookShape
<1>3. PICK title : /\ title \in IF clash_exactly(job.title) THEN {t \in Titles : ~clash(t)} ELSE {job.title}
                   /\ tabs' = Append(tabs, [id |-> ids + 1, title |-> title])
  BY <1>2 DEF SendAdd
<1>4. ~clash(title) BY <1>1, <1>3 DEF BookInv, MeansTheNamed
<1>5. PICK new : new = [id |-> ids + 1, title |-> title] OBVIOUS
<1>6. tabs'[Len(tabs')] = new BY <1>2, <1>3, <1>5
<1> QED BY <1>4, <1>5, <1>6 DEF clash

LEMMA DeletedIsTheNamed ==
  ASSUME BookInv, SendDelete
  PROVE  TabIds \ {tabs'[i].id : i \in DOMAIN tabs'} \subseteq job.named
<1>1. job.at = "send delete" /\ job.id \in job.named BY DEF SendDelete, BookInv, MeansTheNamed
<1>2. TabIds' = {tabs'[i].id : i \in DOMAIN tabs'} BY DEF TabIds
<1>3. CASE tabs' = tabs BY <1>2, <1>3 DEF TabIds
<1>4. CASE tabs' # tabs
  <2>1. PICK i \in victim : /\ Len(tabs) > 1 /\ tabs' = RemoveAt(tabs, i)
                            /\ pins' = {p \in pins : p.tab # tabs[i].id}
    BY <1>4 DEF SendDelete
  <2>2. TabIds \ TabIds' \subseteq {tabs[i].id}
    BY <2>1, TabsRemain DEF SendDelete, BookInv, victim
  <2> QED BY <1>1, <1>2, <2>1, <2>2 DEF victim
<1> QED BY <1>3, <1>4

\* A tab is made under a name that was free, and the tab that is deleted bore the name
\* that was meant, whatever people renamed or deleted between the look and the request
\* (documents/sheet.py:143-181).
THEOREM TabsAreByName == BookSpec => TabsByName
<1>1. BookInv /\ [BookNext]_bookVars =>
        [Len(tabs') > Len(tabs) /\ job.at = "send add" /\ job' = Idle /\ ~others.looked =>
           \A i \in DOMAIN tabs : ~Same(tabs[i].title, tabs'[Len(tabs')].title)]_bookVars
  <2> SUFFICES ASSUME BookInv, [BookNext]_bookVars, Len(tabs') > Len(tabs), job.at = "send add",
                      job' = Idle, ~others.looked, NEW i \in DOMAIN tabs
               PROVE  ~Same(tabs[i].title, tabs'[Len(tabs')].title)
    OBVIOUS
  <2>1. SendAdd BY SendsToEnd DEF SendDelete
  <2> QED BY <2>1, AddedIsNoTwin
<1>2. BookInv /\ [BookNext]_bookVars =>
        [job.at = "send delete" /\ job' = Idle =>
           TabIds \ {tabs'[i].id : i \in DOMAIN tabs'} \subseteq job.named]_bookVars
  <2> SUFFICES ASSUME BookInv, [BookNext]_bookVars, job.at = "send delete", job' = Idle
               PROVE  TabIds \ {tabs'[i].id : i \in DOMAIN tabs'} \subseteq job.named
    OBVIOUS
  <2>1. SendDelete BY SendsToEnd DEF SendAdd
  <2> QED BY <2>1, DeletedIsTheNamed
<1>3. BookSpec => AddsNoTwin BY <1>1, BookInvariant, PTL DEF BookSpec, AddsNoTwin
<1>4. BookSpec => DeletesTheNamed BY <1>2, BookInvariant, PTL DEF BookSpec, DeletesTheNamed
<1> QED BY <1>3, <1>4 DEF TabsByName

-----------------------------------------------------------------------------
(* The Doc: its tabs, and what the write under way knows of them. *)

DocTab == [id : Nat \ {0}, parent : Nat, text : Seq(Pieces)]

\* The document: every tab has an id of its own, and ids are not given twice.
DocShape ==
  /\ doc_tabs \in Seq(DocTab) /\ last_tab \in Nat
  /\ \A i \in DOMAIN doc_tabs : doc_tabs[i].id <= last_tab
  /\ \A i, j \in DOMAIN doc_tabs : doc_tabs[i].id = doc_tabs[j].id => i = j

WriteOf ==
  [at : {"idle", "read", "send", "insert"}, op : {"none", "insert", "append", "delete", "replace"},
   asked : Nat, target : Nat, index : Nat, until : Nat, piece : Pieces \cup {"none"}, only : Nat,
   before : Seq(DocTab)]

\* The write under way, and the piece it writes.
WriteShape ==
  /\ write \in WriteOf
  /\ write.at \in {"read", "send", "insert"} /\ write.op # "delete" => write.piece \in Pieces
  /\ write.at = "read" => write.op = "append"
  /\ write.at = "insert" => write.op = "replace"

\* An append knows the tab it goes to, and its end while nobody has come in between.
AppendFits ==
  write.at = "send" /\ write.op = "append" =>
    /\ write.only # 0 /\ write.target = write.only /\ write.asked \in {0, write.only}
    /\ ~meddled.since =>
         \E i \in DOMAIN doc_tabs :
           doc_tabs[i].id = write.only /\ write.index = Len(doc_tabs[i].text) + 1

Cut(text, start, end) == SubSeq(text, 1, start - 1) \o SubSeq(text, end, Len(text))

\* The document as a replacement found it, and as its deletion has left it.
ReplaceFits ==
  write.op = "replace" =>
    /\ write.target = write.asked
    /\ write.at = "send" /\ ~meddled.since => write.before = doc_tabs
    /\ write.at = "insert" /\ ~meddled.since /\ write.asked # 0 =>
         /\ DOMAIN doc_tabs = DOMAIN write.before
         /\ \E i \in DOMAIN write.before :
              /\ write.before[i].id = write.asked
              /\ write.index \in 1 .. Len(write.before[i].text) + 1
              /\ write.until \in 1 .. Len(write.before[i].text) + 1
              /\ doc_tabs[i] = [write.before[i] EXCEPT
                                  !.text = Cut(@, write.index, write.until)]
              /\ \A j \in DOMAIN write.before \ {i} :
                   doc_tabs[j] = write.before[j] /\ doc_tabs[j].id # write.asked

DocInv == DocShape /\ WriteShape /\ AppendFits /\ ReplaceFits

-----------------------------------------------------------------------------
(* Texts. *)

LEMMA CutText ==
  ASSUME NEW S, NEW text \in Seq(S), NEW s \in 1 .. Len(text) + 1, NEW e \in 1 .. Len(text) + 1
  PROVE  /\ SubSeq(text, 1, s - 1) \in Seq(S) /\ Len(SubSeq(text, 1, s - 1)) = s - 1
         /\ SubSeq(text, e, Len(text)) \in Seq(S) /\ Len(SubSeq(text, e, Len(text))) = Len(text) - e + 1
         /\ Cut(text, s, e) \in Seq(S)
<1>1. PICK n \in Nat : n = Len(text) OBVIOUS
<1>2. s - 1 \in Int /\ e \in Int BY <1>1
<1>3. \A i \in 1 .. s - 1 : text[i] \in S BY <1>1
<1>4. \A i \in e .. n : text[i] \in S BY <1>1
<1>5. SubSeq(text, 1, s - 1) \in Seq(S) /\ Len(SubSeq(text, 1, s - 1)) = s - 1
  BY <1>1, <1>2, <1>3, SubSeqProperties
<1>6. SubSeq(text, e, n) \in Seq(S) /\ Len(SubSeq(text, e, n)) = n - e + 1
  BY <1>1, <1>2, <1>4, SubSeqProperties
<1> QED BY <1>1, <1>5, <1>6, ConcatProperties DEF Cut

\* What is put into a text where a span was cut out of it stands between the two ends.
LEMMA FilledCut ==
  ASSUME NEW S, NEW a \in Seq(S), NEW b \in Seq(S), NEW s \in Nat, Len(a) = s - 1
  PROVE  SubSeq(a \o b, 1, s - 1) = a /\ SubSeq(a \o b, s, Len(a \o b)) = b
<1>1. PICK m \in Nat, n \in Nat : m = Len(a) /\ n = Len(b) /\ s = m + 1 OBVIOUS
<1>2. PICK c \in Seq(S) : c = a \o b BY ConcatProperties
<1>3. /\ Len(c) = m + n
      /\ \A i \in 1 .. m + n : c[i] = IF i <= m THEN a[i] ELSE b[i - m]
  BY <1>1, <1>2, ConcatProperties
<1>4. \A i \in 1 .. m + n : c[i] \in S BY <1>3
<1>5. SubSeq(c, 1, m) = a
  <2>1. PICK u : u = SubSeq(c, 1, m) OBVIOUS
  <2>2. \A i \in 1 .. m : c[i] \in S BY <1>4
  <2>3. u \in Seq(S) /\ Len(u) = m /\ \A i \in 1 .. m - 1 + 1 : u[i] = c[1 + i - 1]
    BY <2>1, <2>2, <1>1, SubSeqProperties
  <2>4. \A i \in 1 .. m : u[i] = c[i] /\ c[i] = a[i] BY <1>3, <2>3
  <2> QED BY <1>1, <2>1, <2>3, <2>4, SeqEqual
<1>6. SubSeq(c, m + 1, m + n) = b
  <2>1. PICK u : u = SubSeq(c, m + 1, m + n) OBVIOUS
  <2>2. \A i \in m + 1 .. m + n : c[i] \in S BY <1>4
  <2>3. PICK k \in Int, l \in Int : k = m + 1 /\ l = m + n OBVIOUS
  <2>4. u \in Seq(S) /\ Len(u) = (IF k <= l THEN l - k + 1 ELSE 0) /\ \A i \in 1 .. l - k + 1 : u[i] = c[k + i - 1]
    BY <2>1, <2>2, <2>3, SubSeqProperties
  <2>5. Len(u) = n BY <2>3, <2>4
  <2>6. ASSUME NEW i \in 1 .. n PROVE u[i] = b[i]
    <3>0. i \in 1 .. l - k + 1 /\ k + i - 1 = m + i BY <2>3
    <3>1. u[i] = c[m + i] BY <2>4, <3>0
    <3>2. m + i \in 1 .. m + n /\ ~(m + i <= m) /\ (m + i) - m = i OBVIOUS
    <3> QED BY <1>3, <3>1, <3>2
  <2> QED BY <1>1, <2>1, <2>4, <2>5, <2>6, SeqEqual
<1> QED BY <1>1, <1>2, <1>3, <1>5, <1>6

LEMMA PutText ==
  ASSUME NEW text \in Seq(Pieces), NEW s \in 1 .. Len(text) + 1, NEW piece \in Pieces
  PROVE  SubSeq(text, 1, s - 1) \o <<piece>> \o SubSeq(text, s, Len(text)) \in Seq(Pieces)
<1>1. PICK a, b : a = SubSeq(text, 1, s - 1) /\ b = SubSeq(text, s, Len(text)) OBVIOUS
<1>2. a \in Seq(Pieces) /\ b \in Seq(Pieces) BY <1>1, CutText
<1>3. PICK one \in Seq(Pieces) : one = <<piece>>
  <2>1. <<piece>> \in Seq(Pieces) OBVIOUS
  <2> QED BY <2>1
<1>4. a \o one \in Seq(Pieces) BY <1>2, <1>3, ConcatProperties
<1> QED BY <1>1, <1>2, <1>3, <1>4, ConcatProperties

-----------------------------------------------------------------------------
(* The document. *)

LEMMA OnlyTab ==
  ASSUME NEW ts, \A j, k \in DOMAIN ts : ts[j].id = ts[k].id => j = k, NEW i \in DOMAIN ts
  PROVE  TabOf(ts, ts[i].id) = ts[i]
<1>1. \A j \in DOMAIN ts : ts[j].id = ts[i].id => j = i OBVIOUS
<1>2. (CHOOSE j \in DOMAIN ts : ts[j].id = ts[i].id) = i BY <1>1
<1> QED BY <1>2 DEF TabOf

\* The addressed tab has a new text, and nothing else changes.
Rewritten(i, text) ==
  /\ i \in DOMAIN doc_tabs /\ DOMAIN doc_tabs' = DOMAIN doc_tabs
  /\ doc_tabs'[i] = [doc_tabs[i] EXCEPT !.text = text]
  /\ \A j \in DOMAIN doc_tabs \ {i} : doc_tabs'[j] = doc_tabs[j]

LEMMA RewrittenKeeps ==
  ASSUME DocShape, NEW i, NEW text \in Seq(Pieces), Rewritten(i, text), last_tab' = last_tab,
         NEW f, doc_tabs' = [j \in DOMAIN doc_tabs |-> f[j]]
  PROVE  DocShape'
<1>1. PICK n \in Nat : DOMAIN doc_tabs = 1 .. n BY DEF DocShape
<1>2. \A j \in DOMAIN doc_tabs : doc_tabs[j] \in DocTab BY DEF DocShape
<1>3. doc_tabs'[i] \in DocTab /\ doc_tabs'[i].id = doc_tabs[i].id BY <1>2 DEF Rewritten, DocTab
<1>4. \A j \in DOMAIN doc_tabs : doc_tabs'[j] \in DocTab /\ doc_tabs'[j].id = doc_tabs[j].id
  BY <1>2, <1>3 DEF Rewritten
<1>5. doc_tabs' \in [1 .. n -> DocTab] BY <1>1, <1>4 DEF Rewritten
<1>6. doc_tabs' \in Seq(DocTab) BY <1>5
<1> QED BY <1>4, <1>6 DEF DocShape, Rewritten

LEMMA TextGoes ==
  ASSUME DocShape, NEW id, NEW text \in Seq(Pieces), last_tab' = last_tab,
         NEW i \in DOMAIN doc_tabs, doc_tabs[i].id = addressed(id), doc_tabs' = WithText(id, text)
  PROVE  DocShape' /\ Rewritten(i, text)
<1>1. \A j \in DOMAIN doc_tabs \ {i} : doc_tabs[j].id # addressed(id) BY DEF DocShape
<1>2. PICK f : f = [j \in DOMAIN doc_tabs |->
                      IF doc_tabs[j].id = addressed(id) THEN [doc_tabs[j] EXCEPT !.text = text] ELSE doc_tabs[j]]
  OBVIOUS
<1>3. doc_tabs' = f BY <1>2 DEF WithText
<1>4. doc_tabs' = [j \in DOMAIN doc_tabs |-> f[j]] BY <1>2, <1>3
<1>5. Rewritten(i, text) BY <1>1, <1>2, <1>3 DEF Rewritten
<1> QED BY <1>4, <1>5, RewrittenKeeps

\* The tab a request is for, when it is accepted.
LEMMA Meant ==
  ASSUME DocShape, NEW id, NEW index, Accepts(id, index)
  PROVE  \E i \in DOMAIN doc_tabs :
           /\ doc_tabs[i].id = addressed(id) /\ TabOf(doc_tabs, addressed(id)) = doc_tabs[i]
           /\ doc_tabs[i].text \in Seq(Pieces) /\ index \in 1 .. Len(doc_tabs[i].text) + 1
<1>1. PICK i \in DOMAIN doc_tabs : doc_tabs[i].id = addressed(id) BY DEF Accepts, DocIds
<1>2. TabOf(doc_tabs, doc_tabs[i].id) = doc_tabs[i] BY OnlyTab DEF DocShape
<1>3. doc_tabs[i] \in DocTab BY DEF DocShape
<1> QED BY <1>1, <1>2, <1>3 DEF Accepts, DocTab

Put(text, index, piece) == SubSeq(text, 1, index - 1) \o <<piece>> \o SubSeq(text, index, Len(text))

LEMMA Inserted ==
  ASSUME DocShape, NEW id, NEW index, NEW piece \in Pieces, Accepts(id, index),
         doc_tabs' = insertText(id, index, piece), last_tab' = last_tab
  PROVE  DocShape' /\ \E i \in DOMAIN doc_tabs :
           /\ doc_tabs[i].id = addressed(id) /\ index \in 1 .. Len(doc_tabs[i].text) + 1
           /\ Rewritten(i, Put(doc_tabs[i].text, index, piece))
<1>1. PICK i \in DOMAIN doc_tabs :
        /\ doc_tabs[i].id = addressed(id) /\ TabOf(doc_tabs, addressed(id)) = doc_tabs[i]
        /\ doc_tabs[i].text \in Seq(Pieces) /\ index \in 1 .. Len(doc_tabs[i].text) + 1
  BY Meant
<1>2. PICK text : text = Put(doc_tabs[i].text, index, piece) OBVIOUS
<1>3. text \in Seq(Pieces) BY <1>1, <1>2, PutText DEF Put
<1>4. doc_tabs' = WithText(id, text) BY <1>1, <1>2 DEF insertText, Put
<1> QED BY <1>1, <1>2, <1>3, <1>4, TextGoes

LEMMA Deleted ==
  ASSUME DocShape, NEW id, NEW s, NEW e, Accepts(id, s), Accepts(id, e),
         doc_tabs' = deleteContentRange(id, s, e), last_tab' = last_tab
  PROVE  DocShape' /\ \E i \in DOMAIN doc_tabs :
           /\ doc_tabs[i].id = addressed(id)
           /\ s \in 1 .. Len(doc_tabs[i].text) + 1 /\ e \in 1 .. Len(doc_tabs[i].text) + 1
           /\ Rewritten(i, Cut(doc_tabs[i].text, s, e))
<1>1. PICK i \in DOMAIN doc_tabs :
        /\ doc_tabs[i].id = addressed(id) /\ TabOf(doc_tabs, addressed(id)) = doc_tabs[i]
        /\ doc_tabs[i].text \in Seq(Pieces) /\ s \in 1 .. Len(doc_tabs[i].text) + 1
  BY Meant
<1>2. e \in 1 .. Len(doc_tabs[i].text) + 1 BY <1>1 DEF Accepts
<1>3. PICK text : text = Cut(doc_tabs[i].text, s, e) OBVIOUS
<1>4. text \in Seq(Pieces) BY <1>1, <1>2, <1>3, CutText
<1>5. doc_tabs' = WithText(id, text) BY <1>1, <1>3 DEF deleteContentRange, Cut
<1> QED BY <1>1, <1>2, <1>3, <1>4, <1>5, TextGoes

\* Tabs go, the rest stay in their order.
LEMMA TabsGo ==
  ASSUME DocShape, NEW id, doc_tabs' \in Without(doc_tabs, id), last_tab' = last_tab
  PROVE  DocShape'
<1>1. PICK n \in Nat : DOMAIN doc_tabs = 1 .. n BY DEF DocShape
<1>2. PICK left : left = {i \in DOMAIN doc_tabs : doc_tabs[i].id \notin Nested(doc_tabs, id)} OBVIOUS
<1>3. IsFiniteSet(left)
  <2>1. \A k \in Nat : IsFiniteSet(1 .. k) BY FS_Interval
  <2>2. left \subseteq 1 .. n BY <1>1, <1>2
  <2> QED BY <2>1, <2>2, FS_Subset
<1>4. PICK m \in Nat : m = Cardinality(left) BY <1>3, FS_CardinalityType
<1>5. PICK order \in [1 .. m -> left] :
        /\ \A j, k \in DOMAIN order : j < k => order[j] < order[k]
        /\ doc_tabs' = [k \in DOMAIN order |-> doc_tabs[order[k]]]
  BY <1>2, <1>4 DEF Without
<1>6. \A j, k \in 1 .. m : order[j] = order[k] => j = k
  <2>1. \A j \in 1 .. m : order[j] \in 1 .. n BY <1>1, <1>2, <1>5
  <2>2. \A j, k \in 1 .. m : j < k => order[j] < order[k] BY <1>5
  <2> QED BY <2>1, <2>2
<1>7. \A i \in DOMAIN doc_tabs : doc_tabs[i] \in DocTab BY DEF DocShape
<1>8. doc_tabs' \in [1 .. m -> DocTab] BY <1>2, <1>5, <1>7
<1>9. doc_tabs' \in Seq(DocTab) BY <1>8
<1>10. \A k \in DOMAIN doc_tabs' : k \in 1 .. m /\ order[k] \in DOMAIN doc_tabs /\ doc_tabs'[k] = doc_tabs[order[k]]
  BY <1>2, <1>5, <1>8
<1>11. \A k \in DOMAIN doc_tabs' : doc_tabs'[k].id <= last_tab BY <1>10 DEF DocShape
<1>12. \A j, k \in DOMAIN doc_tabs' : doc_tabs'[j].id = doc_tabs'[k].id => j = k
  BY <1>6, <1>10 DEF DocShape
<1> QED BY <1>9, <1>11, <1>12 DEF DocShape

LEMMA DocTabComes ==
  ASSUME DocShape, NEW new, new.id = last_tab + 1, new \in DocTab, last_tab' = last_tab + 1,
         doc_tabs' = Append(doc_tabs, new) \/ doc_tabs' = <<new>> \o doc_tabs
  PROVE  DocShape'
<1>1. doc_tabs \in Seq(DocTab) /\ last_tab \in Nat BY DEF DocShape
<1>2. PICK n \in Nat : n = Len(doc_tabs) /\ DOMAIN doc_tabs = 1 .. n BY <1>1
<1>3. \A i \in 1 .. n : doc_tabs[i] \in DocTab /\ doc_tabs[i].id \in Nat /\ doc_tabs[i].id <= last_tab
  <2>1. \A i \in 1 .. n : doc_tabs[i] \in DocTab BY <1>1, <1>2
  <2>2. \A i \in 1 .. n : doc_tabs[i].id <= last_tab BY <1>2 DEF DocShape
  <2> QED BY <2>1, <2>2 DEF DocTab
<1>4. CASE doc_tabs' = Append(doc_tabs, new)
  <2>1. /\ doc_tabs' \in Seq(DocTab) /\ DOMAIN doc_tabs' = 1 .. n + 1 /\ doc_tabs'[n + 1] = new
        /\ \A i \in 1 .. n : doc_tabs'[i] = doc_tabs[i]
    BY <1>1, <1>2, <1>4
  <2>2. \A i \in 1 .. n + 1 : i = n + 1 \/ i \in 1 .. n BY <1>2
  <2> QED BY <1>1, <1>2, <1>3, <2>1, <2>2 DEF DocShape
<1>5. CASE doc_tabs' = <<new>> \o doc_tabs
  <2>1. PICK one \in Seq(DocTab) : one = <<new>>
    <3>1. <<new>> \in Seq(DocTab) OBVIOUS
    <3> QED BY <3>1
  <2>2. Len(one) = 1 /\ one[1] = new BY <2>1
  <2>3. /\ doc_tabs' \in Seq(DocTab) /\ Len(doc_tabs') = 1 + n
        /\ \A i \in 1 .. 1 + n : doc_tabs'[i] = IF i <= 1 THEN one[i] ELSE doc_tabs[i - 1]
    BY <1>1, <1>2, <1>5, <2>1, <2>2, ConcatProperties
  <2>4. DOMAIN doc_tabs' = 1 .. 1 + n BY <2>3
  <2>5. \A i \in 1 .. 1 + n : \/ i = 1 /\ doc_tabs'[i] = new
                              \/ i - 1 \in 1 .. n /\ doc_tabs'[i] = doc_tabs[i - 1]
    BY <1>2, <2>2, <2>3
  <2>6. ASSUME NEW i \in 1 .. 1 + n PROVE doc_tabs'[i].id <= last_tab + 1
    <3>1. CASE i = 1 /\ doc_tabs'[i] = new BY <1>1, <3>1
    <3>2. CASE i - 1 \in 1 .. n /\ doc_tabs'[i] = doc_tabs[i - 1]
      <4>1. PICK t : t = doc_tabs[i - 1] OBVIOUS
      <4>2. t.id \in Nat /\ t.id <= last_tab BY <1>3, <3>2, <4>1
      <4> QED BY <1>1, <3>2, <4>1, <4>2
    <3> QED BY <2>5, <3>1, <3>2
  <2>7. ASSUME NEW i \in 1 .. 1 + n, NEW j \in 1 .. 1 + n, doc_tabs'[i].id = doc_tabs'[j].id
        PROVE  i = j
    <3>1. CASE i = 1 /\ j = 1 BY <3>1
    <3>2. CASE i = 1 /\ j # 1 BY <1>1, <1>3, <2>2, <2>3, <2>5, <2>7, <3>2
    <3>3. CASE i # 1 /\ j = 1 BY <1>1, <1>3, <2>2, <2>3, <2>5, <2>7, <3>3
    <3>4. CASE i # 1 /\ j # 1
      <4>1. PICK a \in 1 .. n, b \in 1 .. n : a = i - 1 /\ b = j - 1 BY <1>2, <3>4
      <4>2. doc_tabs'[i] = doc_tabs[a] /\ doc_tabs'[j] = doc_tabs[b] BY <2>5, <3>4, <4>1
      <4>3. a = b BY <1>2, <2>7, <4>2 DEF DocShape
      <4> QED BY <4>1, <4>3
    <3> QED BY <3>1, <3>2, <3>3, <3>4
  <2> QED BY <1>1, <2>3, <2>4, <2>6, <2>7 DEF DocShape
<1> QED BY <1>4, <1>5

-----------------------------------------------------------------------------
(* The nesting of tabs, and what a reading of them covers. *)

\* Some tabs of which each has an id of its own and is nested in an earlier one of them,
\* or in none.
Forest(ts, top) ==
  /\ ts \in Seq(DocTab) /\ top \in Nat
  /\ \A i \in DOMAIN ts : ts[i].id <= top
  /\ \A i, j \in DOMAIN ts : ts[i].id = ts[j].id => i = j
  /\ \A i \in DOMAIN ts : ts[i].parent = 0 \/ (/\ ts[i].parent < ts[i].id
                                               /\ ts[i].parent \in DocIds(ts))

LEMMA TabsOfForest ==
  ASSUME NEW ts, NEW top, Forest(ts, top)
  PROVE  /\ Len(ts) \in Nat /\ DOMAIN ts = 1 .. Len(ts)
         /\ \A i \in 1 .. Len(ts) : /\ ts[i] \in DocTab /\ ts[i].id \in 1 .. top /\ ts[i].parent \in 0 .. top
                                    /\ ts[i].parent < ts[i].id /\ ts[i].id \in DocIds(ts)
                                    /\ ts[i].parent \in DocIds(ts) \cup {0}
         /\ DocIds(ts) \subseteq 1 .. top
         /\ \A p \in DocIds(ts) : \E i \in 1 .. Len(ts) : ts[i].id = p
<1>1. ts \in Seq(DocTab) /\ top \in Nat BY DEF Forest
<1>2. Len(ts) \in Nat /\ DOMAIN ts = 1 .. Len(ts) BY <1>1, LenProperties
<1>3. ASSUME NEW i \in 1 .. Len(ts)
      PROVE  /\ ts[i] \in DocTab /\ ts[i].id \in 1 .. top /\ ts[i].parent \in 0 .. top
             /\ ts[i].parent < ts[i].id /\ ts[i].id \in DocIds(ts)
             /\ ts[i].parent \in DocIds(ts) \cup {0}
  <2>1. ts[i] \in DocTab BY <1>1, ElementOfSeq
  <2>2. ts[i].id \in Nat \ {0} /\ ts[i].parent \in Nat BY <2>1 DEF DocTab
  <2>3. ts[i].id <= top BY <1>2 DEF Forest
  <2>4. ts[i].id \in DocIds(ts) BY <1>2 DEF DocIds
  <2>5. ts[i].parent = 0 \/ (ts[i].parent < ts[i].id /\ ts[i].parent \in DocIds(ts))
    BY <1>2 DEF Forest
  <2> QED BY <1>1, <2>1, <2>2, <2>3, <2>4, <2>5
<1>4. \A p \in DocIds(ts) : \E i \in 1 .. Len(ts) : ts[i].id = p BY <1>2 DEF DocIds
<1> QED BY <1>2, <1>3, <1>4

\* Induction from the leaves: what holds of a tab when it holds of those nested directly in
\* it holds of all of them.
LEMMA FromTheLeaves ==
  ASSUME NEW ts, NEW top, Forest(ts, top), NEW G,
         \A p \in DocIds(ts) \cup {0} :
           (\A k \in 1 .. Len(ts) : ts[k].parent = p => ts[k].id \in G) => p \in G
  PROVE  DocIds(ts) \cup {0} \subseteq G
<1> DEFINE B == {p \in DocIds(ts) \cup {0} : p \notin G}
<1>1. SUFFICES ASSUME B # {} PROVE FALSE OBVIOUS
<1>2. top \in Nat BY DEF Forest
<1>3. B \in SUBSET (0 .. top) BY <1>2, TabsOfForest
<1> HIDE DEF B
<1>4. PICK p \in B : \A q \in B : q <= p BY <1>1, <1>2, <1>3, HasGreatest
<1>5. ASSUME NEW k \in 1 .. Len(ts), ts[k].parent = p PROVE ts[k].id \in G
  <2>1. p \in Nat /\ p < ts[k].id /\ ts[k].id \in Nat /\ ts[k].id \in DocIds(ts)
    BY <1>2, <1>3, <1>5, TabsOfForest
  <2>2. ts[k].id \notin B BY <1>4, <2>1
  <2> QED BY <2>1, <2>2 DEF B
<1>6. p \in DocIds(ts) \cup {0} /\ p \notin G BY DEF B
<1> QED BY <1>5, <1>6

\* Induction from the roots.
LEMMA FromTheRoots ==
  ASSUME NEW ts, NEW top, Forest(ts, top), NEW G,
         \A k \in 1 .. Len(ts) : ts[k].parent \in G \cup {0} => ts[k].id \in G
  PROVE  DocIds(ts) \subseteq G
<1> DEFINE B == {p \in DocIds(ts) : p \notin G}
<1>1. SUFFICES ASSUME B # {} PROVE FALSE OBVIOUS
<1>2. top \in Nat BY DEF Forest
<1>3. B \in SUBSET Nat BY <1>2, TabsOfForest
<1> HIDE DEF B
<1>4. PICK p \in B : \A q \in B : p <= q BY <1>1, <1>3, HasLeast
<1>5. p \in DocIds(ts) /\ p \notin G BY DEF B
<1>6. PICK k \in 1 .. Len(ts) : ts[k].id = p BY <1>5, TabsOfForest
<1>7. ts[k].parent < p /\ ts[k].parent \in Nat /\ p \in Nat /\ ts[k].parent \in DocIds(ts) \cup {0}
  BY <1>2, <1>6, TabsOfForest
<1>8. ts[k].parent \notin B BY <1>4, <1>7
<1> QED BY <1>5, <1>6, <1>7, <1>8 DEF B

-----------------------------------------------------------------------------
(* What walk computes. *)

\* What a tab contributes to the reading of those nested in p.
Part(ts, U, p, k) == IF ts[k].parent = p THEN <<ts[k]>> \o U[ts[k].id] ELSE <<>>
PartsOf(ts, U, p) == [k \in DOMAIN ts |-> Part(ts, U, p, k)]

\* The equation by which walk declares its recursive function.
IsUnder(ts, U) == U = [p \in DocIds(ts) \cup {0} |-> FlattenSeq(PartsOf(ts, U, p))]

\* Such a function exists: it is made tab by tab, from the last id down, for what it says
\* of a tab depends on later ids only.
LEMMA UnderExists ==
  ASSUME NEW ts, NEW top, Forest(ts, top)
  PROVE  \E U : IsUnder(ts, U)
<1> DEFINE S == DocIds(ts) \cup {0}
           n == Len(ts)
           Good(m, U) == /\ DOMAIN U = S /\ U = [p \in S |-> U[p]]
                         /\ \A p \in S : p > top - m => U[p] = FlattenSeq(PartsOf(ts, U, p))
           G == {m \in 0 .. top + 1 : \E U : Good(m, U)}
<1>1. top \in Nat /\ S \subseteq 0 .. top
  <2>1. top \in Nat BY DEF Forest
  <2>2. DocIds(ts) \subseteq 1 .. top BY TabsOfForest
  <2> QED BY <2>1, <2>2
<1>2. 0 \in G
  <2>1. PICK U : U = [p \in S |-> <<>>] OBVIOUS
  <2>2. \A p \in S : ~(p > top - 0) BY <1>1
  <2>3. Good(0, U) BY <2>1, <2>2
  <2> QED BY <1>1, <2>3
<1>3. ASSUME NEW m \in 1 .. top + 1, m - 1 \in G PROVE m \in G
  <2>1. PICK U : Good(m - 1, U) BY <1>3
  <2>2. PICK q : q = top - m + 1 OBVIOUS
  <2>3. q \in Nat /\ top - (m - 1) = q /\ top - m = q - 1 BY <1>1, <2>2
  <2>4. PICK V : V = [p \in S |-> IF p = q THEN FlattenSeq(PartsOf(ts, U, q)) ELSE U[p]] OBVIOUS
  <2>5. ASSUME NEW p \in S, p >= q PROVE PartsOf(ts, V, p) = PartsOf(ts, U, p)
    <3>1. ASSUME NEW k \in DOMAIN ts PROVE Part(ts, V, p, k) = Part(ts, U, p, k)
      <4>1. CASE ts[k].parent = p
        <5>1. ts[k].id \in S /\ ts[k].id > p /\ ts[k].id \in Nat /\ p \in Nat
          BY <1>1, <3>1, <4>1, TabsOfForest
        <5>2. ts[k].id # q BY <2>3, <2>5, <5>1
        <5>3. V[ts[k].id] = U[ts[k].id] BY <2>4, <5>1, <5>2
        <5> QED BY <5>3 DEF Part
      <4>2. CASE ts[k].parent # p BY <4>2 DEF Part
      <4> QED BY <4>1, <4>2
    <3> QED BY <3>1 DEF PartsOf
  <2>6. ASSUME NEW p \in S, p > top - m PROVE V[p] = FlattenSeq(PartsOf(ts, V, p))
    <3>1. p \in Nat /\ p >= q BY <1>1, <2>3, <2>6
    <3>2. PartsOf(ts, V, p) = PartsOf(ts, U, p) BY <2>5, <3>1
    <3>3. CASE p = q BY <2>4, <3>2, <3>3
    <3>4. CASE p # q
      <4>1. p > top - (m - 1) BY <2>3, <3>1, <3>4
      <4> QED BY <2>1, <2>4, <3>2, <3>4, <4>1
    <3> QED BY <3>3, <3>4
  <2>7. DOMAIN V = S /\ V = [p \in S |-> V[p]] BY <2>4
  <2>8. Good(m, V) BY <2>6, <2>7
  <2>9. m \in 0 .. top + 1 BY <1>1
  <2> QED BY <2>8, <2>9
<1> HIDE DEF G
<1>4. 0 .. top + 1 \subseteq G
  <2>1. top + 1 \in Nat BY <1>1
  <2> QED BY <1>2, <1>3, <2>1, UpTo
<1>5. top + 1 \in G BY <1>1, <1>4
<1>6. PICK U : Good(top + 1, U) BY <1>5 DEF G
<1>7. \A p \in S : p > top - (top + 1) BY <1>1
<1>8. \A p \in S : U[p] = FlattenSeq(PartsOf(ts, U, p)) BY <1>6, <1>7
<1>9. U = [p \in S |-> FlattenSeq(PartsOf(ts, U, p))] BY <1>6, <1>8
<1> QED BY <1>9 DEF IsUnder

LEMMA WalkIsUnder ==
  ASSUME NEW ts, NEW top, Forest(ts, top)
  PROVE  \E U : IsUnder(ts, U) /\ walk(ts) = U[0]
<1> DEFINE P(c) == c = [p \in DocIds(ts) \cup {0} |->
                          FlattenSeq([k \in DOMAIN ts |->
                            IF ts[k].parent = p THEN <<ts[k]>> \o c[ts[k].id] ELSE <<>>])]
<1>1. walk(ts) = (CHOOSE c : P(c))[0] BY DEF walk
<1>2. \A c : P(c) <=> IsUnder(ts, c) BY DEF IsUnder, PartsOf, Part
<1>3. \E c : P(c) BY <1>2, UnderExists
<1>4. PICK c : c = CHOOSE d : P(d) OBVIOUS
<1> HIDE DEF P
<1>5. P(c) BY <1>3, <1>4
<1> QED BY <1>1, <1>2, <1>4, <1>5

\* A reading is a sequence of tabs.
LEMMA UnderTyped ==
  ASSUME NEW ts, NEW top, Forest(ts, top), NEW U, IsUnder(ts, U)
  PROVE  /\ \A p \in DocIds(ts) \cup {0} : U[p] \in Seq(DocTab) /\ Len(U[p]) \in Nat
         /\ \A p \in DocIds(ts) \cup {0} :
              /\ U[p] = FlattenSeq(PartsOf(ts, U, p))
              /\ PartsOf(ts, U, p) \in Seq(Seq(DocTab)) /\ Len(PartsOf(ts, U, p)) = Len(ts)
              /\ \A k \in 1 .. Len(ts) :
                   /\ PartsOf(ts, U, p)[k] \in Seq(DocTab)
                   /\ ts[k].parent # p => Len(PartsOf(ts, U, p)[k]) = 0
                   /\ ts[k].parent = p =>
                        /\ Len(PartsOf(ts, U, p)[k]) = 1 + Len(U[ts[k].id])
                        /\ PartsOf(ts, U, p)[k][1] = ts[k]
                        /\ \A l \in 1 .. Len(U[ts[k].id]) : PartsOf(ts, U, p)[k][1 + l] = U[ts[k].id][l]
<1> DEFINE S == DocIds(ts) \cup {0}
           n == Len(ts)
           G == {p \in S : U[p] \in Seq(DocTab)}
<1>0. n \in Nat /\ DOMAIN ts = 1 .. n BY TabsOfForest
<1>1. \A p \in S : U[p] = FlattenSeq(PartsOf(ts, U, p))
  <2>1. PICK V : V = U OBVIOUS
  <2>2. U = [p \in S |-> FlattenSeq(PartsOf(ts, V, p))] BY <2>1 DEF IsUnder
  <2> QED BY <2>1, <2>2
<1>2. ASSUME NEW p \in S, \A k \in 1 .. n : ts[k].parent = p => U[ts[k].id] \in Seq(DocTab)
      PROVE  /\ PartsOf(ts, U, p) \in Seq(Seq(DocTab)) /\ Len(PartsOf(ts, U, p)) = n
             /\ \A k \in 1 .. n :
                   /\ PartsOf(ts, U, p)[k] \in Seq(DocTab)
                   /\ ts[k].parent # p => Len(PartsOf(ts, U, p)[k]) = 0
                   /\ ts[k].parent = p =>
                        /\ Len(PartsOf(ts, U, p)[k]) = 1 + Len(U[ts[k].id])
                        /\ PartsOf(ts, U, p)[k][1] = ts[k]
                        /\ \A l \in 1 .. Len(U[ts[k].id]) : PartsOf(ts, U, p)[k][1 + l] = U[ts[k].id][l]
  <2>1. ASSUME NEW k \in 1 .. n
        PROVE  /\ Part(ts, U, p, k) \in Seq(DocTab)
               /\ ts[k].parent # p => Len(Part(ts, U, p, k)) = 0
               /\ ts[k].parent = p =>
                    /\ Len(Part(ts, U, p, k)) = 1 + Len(U[ts[k].id])
                    /\ Part(ts, U, p, k)[1] = ts[k]
                    /\ \A l \in 1 .. Len(U[ts[k].id]) : Part(ts, U, p, k)[1 + l] = U[ts[k].id][l]
    <3>1. CASE ts[k].parent # p
      <4>1. Part(ts, U, p, k) = <<>> BY <3>1 DEF Part
      <4> QED BY <3>1, <4>1
    <3>2. CASE ts[k].parent = p
      <4>1. PICK t \in DocTab : t = ts[k] BY <2>1, TabsOfForest
      <4>2. PICK u \in Seq(DocTab) : u = U[ts[k].id] BY <1>2, <2>1, <3>2
      <4>3. <<t>> \in Seq(DocTab) /\ Len(<<t>>) = 1 /\ <<t>>[1] = t OBVIOUS
      <4>4. PICK v : v = <<t>> \o u OBVIOUS
      <4>5. v \in Seq(DocTab) /\ Len(v) = 1 + Len(u) BY <4>3, <4>4, ConcatProperties
      <4>6. PICK m \in Nat : m = Len(u) BY LenProperties
      <4>7. \A i \in 1 .. 1 + m : v[i] = IF i <= 1 THEN <<t>>[i] ELSE u[i - 1]
        BY <4>3, <4>4, <4>6, ConcatProperties
      <4>8. v[1] = t BY <4>3, <4>6, <4>7
      <4>9. ASSUME NEW l \in 1 .. m PROVE v[1 + l] = u[l]
        <5>1. 1 + l \in 1 .. 1 + m /\ ~(1 + l <= 1) /\ 1 + l - 1 = l BY <4>6
        <5> QED BY <4>7, <5>1
      <4>10. Part(ts, U, p, k) = v BY <3>2, <4>1, <4>2, <4>4 DEF Part
      <4> QED BY <3>2, <4>1, <4>2, <4>5, <4>6, <4>8, <4>9, <4>10
    <3> QED BY <3>1, <3>2
  <2>2. PICK s : s = PartsOf(ts, U, p) OBVIOUS
  <2>3. s \in [1 .. n -> Seq(DocTab)] /\ \A k \in 1 .. n : s[k] = Part(ts, U, p, k)
    BY <1>0, <2>1, <2>2 DEF PartsOf
  <2>4. s \in Seq(Seq(DocTab)) /\ Len(s) = n BY <1>0, <2>3
  <2> QED BY <2>1, <2>2, <2>3, <2>4
<1>3. ASSUME NEW p \in S, \A k \in 1 .. n : ts[k].parent = p => ts[k].id \in G
      PROVE  p \in G
  <2>1. \A k \in 1 .. n : ts[k].parent = p => U[ts[k].id] \in Seq(DocTab) BY <1>3
  <2>2. PartsOf(ts, U, p) \in Seq(Seq(DocTab)) BY <1>2, <2>1
  <2> QED BY <1>1, <2>2, FlattenPositions
<1> HIDE DEF G
<1>4. S \subseteq G BY <1>3, FromTheLeaves
<1>5. \A p \in S : U[p] \in Seq(DocTab) /\ Len(U[p]) \in Nat BY <1>4, LenProperties DEF G
<1>6. \A k \in 1 .. n : ts[k].id \in S BY TabsOfForest
<1> QED BY <1>1, <1>2, <1>5, <1>6

\* Where, in the reading of what is nested in p, each tab directly nested in it stands: its own
\* reading follows it, those of its siblings follow in their order, and there is nothing else.
Stands(ts, U, p, start) ==
  /\ start \in [1 .. Len(ts) -> Nat]
  /\ \A k \in 1 .. Len(ts) : ts[k].parent = p =>
       /\ start[k] \in 1 .. Len(U[p]) /\ U[p][start[k]] = ts[k]
       /\ \A l \in 1 .. Len(U[ts[k].id]) :
            start[k] + l \in 1 .. Len(U[p]) /\ U[p][start[k] + l] = U[ts[k].id][l]
  /\ \A j \in 1 .. Len(U[p]) : \E k \in 1 .. Len(ts) :
       /\ ts[k].parent = p
       /\ j = start[k] \/ \E l \in 1 .. Len(U[ts[k].id]) : j = start[k] + l
  /\ \A k, m \in 1 .. Len(ts) :
       k < m /\ ts[k].parent = p /\ ts[m].parent = p => start[k] + Len(U[ts[k].id]) < start[m]

LEMMA TheyStand ==
  ASSUME NEW ts, NEW top, Forest(ts, top), NEW U, IsUnder(ts, U), NEW p \in DocIds(ts) \cup {0}
  PROVE  \E start : Stands(ts, U, p, start)
<1> DEFINE n == Len(ts)
           C == {k \in 1 .. n : ts[k].parent = p}
<1>1. n \in Nat /\ \A k \in 1 .. n : Len(U[ts[k].id]) \in Nat BY TabsOfForest, UnderTyped
<1>2. PICK s \in Seq(Seq(DocTab)) : s = PartsOf(ts, U, p) BY UnderTyped
<1>3. Len(s) = n /\ U[p] = FlattenSeq(s) BY <1>2, UnderTyped
<1>4. \A k \in 1 .. n : k \notin C => Len(s[k]) = 0 BY <1>2, UnderTyped
<1>5. \A k \in C : /\ Len(s[k]) = 1 + Len(U[ts[k].id]) /\ s[k][1] = ts[k]
                   /\ \A l \in 1 .. Len(U[ts[k].id]) : s[k][1 + l] = U[ts[k].id][l]
  BY <1>2, UnderTyped
<1>6. PICK off : Offsets(s, off) /\ Laid(s, off, n, U[p]) BY <1>3, FlattenPositions
<1>7. /\ off \in [0 .. n -> Nat] /\ Len(U[p]) = off[n]
      /\ \A k \in 1 .. n : off[k] = off[k - 1] + Len(s[k])
  BY <1>3, <1>6 DEF Offsets, Laid
<1>8. \A k \in 1 .. n : \A x \in 1 .. Len(s[k]) :
        off[k - 1] + x \in 1 .. Len(U[p]) /\ U[p][off[k - 1] + x] = s[k][x]
  BY <1>6, <1>7 DEF Laid
<1>9. \A j \in 1 .. Len(U[p]) : \E k \in 1 .. n : \E x \in 1 .. Len(s[k]) : j = off[k - 1] + x
  BY <1>6, <1>7 DEF Laid
<1>10. PICK start : start = [k \in 1 .. n |-> off[k - 1] + 1] OBVIOUS
<1>11. \A k \in 1 .. n : off[k - 1] \in Nat /\ start[k] = off[k - 1] + 1
  <2>1. \A k \in 1 .. n : k - 1 \in 0 .. n BY <1>1
  <2> QED BY <1>7, <1>10, <2>1
<1>12. start \in [1 .. n -> Nat]
  <2>1. \A k \in 1 .. n : off[k - 1] + 1 \in Nat BY <1>11
  <2> QED BY <1>10, <2>1
<1>13. ASSUME NEW k \in C
       PROVE  /\ start[k] \in 1 .. Len(U[p]) /\ U[p][start[k]] = ts[k]
              /\ \A l \in 1 .. Len(U[ts[k].id]) :
                   start[k] + l \in 1 .. Len(U[p]) /\ U[p][start[k] + l] = U[ts[k].id][l]
  <2>1. 1 \in 1 .. Len(s[k]) BY <1>1, <1>5
  <2>2. start[k] \in 1 .. Len(U[p]) /\ U[p][start[k]] = ts[k] BY <1>5, <1>8, <1>11, <2>1
  <2>3. ASSUME NEW l \in 1 .. Len(U[ts[k].id])
        PROVE  start[k] + l \in 1 .. Len(U[p]) /\ U[p][start[k] + l] = U[ts[k].id][l]
    <3>1. 1 + l \in 1 .. Len(s[k]) BY <1>1, <1>5
    <3>2. l \in Nat /\ k \in 1 .. n BY <1>1
    <3>3. start[k] + l = off[k - 1] + (1 + l)
      <4>1. \A a, b \in Nat : (a + 1) + b = a + (1 + b) OBVIOUS
      <4> QED BY <1>11, <3>2, <4>1
    <3>4. s[k][1 + l] = U[ts[k].id][l] BY <1>5
    <3>5. off[k - 1] + (1 + l) \in 1 .. Len(U[p]) /\ U[p][off[k - 1] + (1 + l)] = s[k][1 + l]
      BY <1>8, <3>1, <3>2
    <3> QED BY <3>3, <3>4, <3>5, Zenon
  <2> QED BY <2>2, <2>3
<1>14. ASSUME NEW j \in 1 .. Len(U[p])
       PROVE  \E k \in C : j = start[k] \/ \E l \in 1 .. Len(U[ts[k].id]) : j = start[k] + l
  <2>1. PICK k \in 1 .. n : \E x \in 1 .. Len(s[k]) : j = off[k - 1] + x BY <1>9
  <2>2. PICK x \in 1 .. Len(s[k]) : j = off[k - 1] + x BY <2>1
  <2>3. k \in C BY <1>4, <2>2
  <2>4. CASE x = 1 BY <1>11, <2>2, <2>3, <2>4
  <2>5. CASE x # 1
    <3>1. PICK u \in Nat : u = Len(U[ts[k].id]) BY <1>1
    <3>2. x \in 1 .. 1 + u BY <1>5, <2>3, <3>1
    <3>3. PICK l : l = x - 1 OBVIOUS
    <3>4. l \in 1 .. u BY <2>5, <3>2, <3>3
    <3>5. j = start[k] + l BY <1>11, <2>2, <3>2, <3>3
    <3> QED BY <2>3, <3>1, <3>4, <3>5
  <2> QED BY <2>4, <2>5
<1>15. ASSUME NEW k \in C, NEW m \in C, k < m PROVE start[k] + Len(U[ts[k].id]) < start[m]
  <2>1. k \in 0 .. m - 1 /\ m - 1 \in 0 .. Len(s) BY <1>1, <1>3, <1>15
  <2>2. off[k] <= off[m - 1] BY <1>6, <2>1, OffsetsGrow
  <2>3. off[k] = off[k - 1] + (1 + Len(U[ts[k].id])) BY <1>5, <1>7
  <2>4. k \in 1 .. n /\ m \in 1 .. n OBVIOUS
  <2>5. PICK a \in Nat, b \in Nat, u \in Nat : a = off[k - 1] /\ b = off[m - 1] /\ u = Len(U[ts[k].id])
    BY <1>1, <1>11, <2>4
  <2>6. start[k] = a + 1 /\ start[m] = b + 1 BY <1>11, <2>4, <2>5
  <2>7. a + (1 + u) <= b BY <2>2, <2>3, <2>5
  <2>8. (a + 1) + u < b + 1
    <3>1. a \in Nat /\ b \in Nat /\ u \in Nat OBVIOUS
    <3> QED BY <2>7, <3>1
  <2> QED BY <2>5, <2>6, <2>8
<1>16. Stands(ts, U, p, start) BY <1>12, <1>13, <1>14, <1>15 DEF Stands
<1> QED BY <1>16

-----------------------------------------------------------------------------
(* What a reading covers, and in which order. *)

\* The tabs that are read under p.
Below(U, p) == {U[p][j].id : j \in 1 .. Len(U[p])}

\* They are the tabs nested directly in p and those below them.
LEMMA BelowByChild ==
  ASSUME NEW ts, NEW top, Forest(ts, top), NEW U, IsUnder(ts, U), NEW p \in DocIds(ts) \cup {0}
  PROVE  /\ \A k \in 1 .. Len(ts) : ts[k].parent = p =>
              ts[k].id \in Below(U, p) /\ Below(U, ts[k].id) \subseteq Below(U, p)
         /\ \A i \in Below(U, p) : \E k \in 1 .. Len(ts) :
              ts[k].parent = p /\ (i = ts[k].id \/ i \in Below(U, ts[k].id))
<1>1. PICK start : Stands(ts, U, p, start) BY TheyStand
<1>2. ASSUME NEW k \in 1 .. Len(ts), ts[k].parent = p
      PROVE  ts[k].id \in Below(U, p) /\ Below(U, ts[k].id) \subseteq Below(U, p)
  <2>1. start[k] \in 1 .. Len(U[p]) /\ U[p][start[k]] = ts[k] BY <1>1, <1>2 DEF Stands
  <2>2. \A l \in 1 .. Len(U[ts[k].id]) :
          start[k] + l \in 1 .. Len(U[p]) /\ U[p][start[k] + l] = U[ts[k].id][l]
    BY <1>1, <1>2 DEF Stands
  <2>3. ts[k].id \in Below(U, p) BY <2>1 DEF Below
  <2>4. ASSUME NEW i \in Below(U, ts[k].id) PROVE i \in Below(U, p)
    <3>1. PICK l \in 1 .. Len(U[ts[k].id]) : i = U[ts[k].id][l].id BY DEF Below
    <3>2. start[k] + l \in 1 .. Len(U[p]) /\ U[p][start[k] + l].id = i BY <2>2, <3>1
    <3> QED BY <3>2 DEF Below
  <2> QED BY <2>3, <2>4
<1>3. ASSUME NEW i \in Below(U, p)
      PROVE  \E k \in 1 .. Len(ts) :
               ts[k].parent = p /\ (i = ts[k].id \/ i \in Below(U, ts[k].id))
  <2>1. PICK j \in 1 .. Len(U[p]) : i = U[p][j].id BY DEF Below
  <2>2. PICK k \in 1 .. Len(ts) :
          /\ ts[k].parent = p
          /\ j = start[k] \/ \E l \in 1 .. Len(U[ts[k].id]) : j = start[k] + l
    BY <1>1 DEF Stands
  <2>3. CASE j = start[k] BY <1>1, <2>1, <2>2, <2>3 DEF Stands
  <2>4. ASSUME NEW l \in 1 .. Len(U[ts[k].id]), j = start[k] + l PROVE i \in Below(U, ts[k].id)
    <3>1. U[p][j] = U[ts[k].id][l] BY <1>1, <2>2, <2>4 DEF Stands
    <3> QED BY <2>1, <3>1 DEF Below
  <2> QED BY <2>2, <2>3, <2>4
<1> QED BY <1>2, <1>3

\* Every tab read under p is a tab of the document, and comes after p.
LEMMA BelowAreTabs ==
  ASSUME NEW ts, NEW top, Forest(ts, top), NEW U, IsUnder(ts, U)
  PROVE  \A p \in DocIds(ts) \cup {0} :
           /\ \A j \in 1 .. Len(U[p]) : \E i \in 1 .. Len(ts) : U[p][j] = ts[i]
           /\ Below(U, p) \subseteq DocIds(ts) /\ \A i \in Below(U, p) : p < i
<1> DEFINE S == DocIds(ts) \cup {0}
           G == {p \in S : /\ \A j \in 1 .. Len(U[p]) : \E i \in 1 .. Len(ts) : U[p][j] = ts[i]
                           /\ \A i \in Below(U, p) : p < i}
<1>1. top \in Nat /\ S \subseteq 0 .. top
  <2>1. top \in Nat BY DEF Forest
  <2>2. DocIds(ts) \subseteq 1 .. top BY TabsOfForest
  <2> QED BY <2>1, <2>2
<1>2. ASSUME NEW p \in S, \A k \in 1 .. Len(ts) : ts[k].parent = p => ts[k].id \in G
      PROVE  p \in G
  <2>1. PICK start : Stands(ts, U, p, start) BY TheyStand
  <2>2. ASSUME NEW j \in 1 .. Len(U[p]) PROVE \E i \in 1 .. Len(ts) : U[p][j] = ts[i]
    <3>1. PICK k \in 1 .. Len(ts) :
            /\ ts[k].parent = p
            /\ j = start[k] \/ \E l \in 1 .. Len(U[ts[k].id]) : j = start[k] + l
      BY <2>1 DEF Stands
    <3>2. CASE j = start[k] BY <2>1, <3>1, <3>2 DEF Stands
    <3>3. ASSUME NEW l \in 1 .. Len(U[ts[k].id]), j = start[k] + l
          PROVE  \E i \in 1 .. Len(ts) : U[p][j] = ts[i]
      <4>1. U[p][j] = U[ts[k].id][l] BY <2>1, <3>1, <3>3 DEF Stands
      <4> QED BY <1>2, <3>1, <4>1
    <3> QED BY <3>1, <3>2, <3>3
  <2>3. ASSUME NEW i \in Below(U, p) PROVE p < i
    <3>1. PICK k \in 1 .. Len(ts) :
            ts[k].parent = p /\ (i = ts[k].id \/ i \in Below(U, ts[k].id))
      BY BelowByChild
    <3>2. p < ts[k].id /\ ts[k].id \in Nat /\ ts[k].id \in S BY <1>1, <3>1, TabsOfForest
    <3>3. CASE i = ts[k].id BY <3>2, <3>3
    <3>4. CASE i \in Below(U, ts[k].id)
      <4>1. ts[k].id < i BY <1>2, <3>1, <3>4
      <4>2. i \in Nat
        <5>1. PICK j \in 1 .. Len(U[p]) : i = U[p][j].id BY DEF Below
        <5>2. PICK m \in 1 .. Len(ts) : U[p][j] = ts[m] BY <2>2
        <5> QED BY <1>1, <5>1, <5>2, TabsOfForest
      <4> QED BY <1>1, <3>2, <4>1, <4>2
    <3> QED BY <3>1, <3>3, <3>4
  <2> QED BY <2>2, <2>3
<1> HIDE DEF G
<1>3. S \subseteq G BY <1>2, FromTheLeaves
<1>4. ASSUME NEW p \in S
      PROVE  /\ \A j \in 1 .. Len(U[p]) : \E i \in 1 .. Len(ts) : U[p][j] = ts[i]
             /\ Below(U, p) \subseteq DocIds(ts) /\ \A i \in Below(U, p) : p < i
  <2>1. /\ \A j \in 1 .. Len(U[p]) : \E i \in 1 .. Len(ts) : U[p][j] = ts[i]
        /\ \A i \in Below(U, p) : p < i
    BY <1>3 DEF G
  <2>2. \A i \in 1 .. Len(ts) : ts[i].id \in DocIds(ts) BY TabsOfForest
  <2> QED BY <2>1, <2>2 DEF Below
<1> QED BY <1>4

\* They are also the tabs whose parent is p or is read under p.
LEMMA BelowByParent ==
  ASSUME NEW ts, NEW top, Forest(ts, top), NEW U, IsUnder(ts, U)
  PROVE  \A p \in DocIds(ts) \cup {0} : \A i \in 1 .. Len(ts) :
           ts[i].id \in Below(U, p) <=> ts[i].parent = p \/ ts[i].parent \in Below(U, p)
<1> DEFINE S == DocIds(ts) \cup {0}
           n == Len(ts)
           G == {p \in S : \A i \in 1 .. n :
                   ts[i].id \in Below(U, p) <=> ts[i].parent = p \/ ts[i].parent \in Below(U, p)}
<1>1. ASSUME NEW p \in S, \A k \in 1 .. n : ts[k].parent = p => ts[k].id \in G
      PROVE  p \in G
  <2>1. /\ \A k \in 1 .. n : ts[k].parent = p =>
             ts[k].id \in Below(U, p) /\ Below(U, ts[k].id) \subseteq Below(U, p)
        /\ \A i \in Below(U, p) : \E k \in 1 .. n :
             ts[k].parent = p /\ (i = ts[k].id \/ i \in Below(U, ts[k].id))
    BY BelowByChild
  <2>2. ASSUME NEW i \in 1 .. n, ts[i].id \in Below(U, p)
        PROVE  ts[i].parent = p \/ ts[i].parent \in Below(U, p)
    <3>1. PICK k \in 1 .. n : ts[k].parent = p /\ (ts[i].id = ts[k].id \/ ts[i].id \in Below(U, ts[k].id))
      BY <2>1, <2>2
    <3>2. CASE ts[i].id = ts[k].id
      <4>1. i = k
        <5>1. i \in DOMAIN ts /\ k \in DOMAIN ts BY TabsOfForest
        <5> QED BY <3>2, <5>1 DEF Forest
      <4> QED BY <3>1, <4>1
    <3>3. CASE ts[i].id \in Below(U, ts[k].id)
      <4>1. ts[i].parent = ts[k].id \/ ts[i].parent \in Below(U, ts[k].id) BY <1>1, <3>1, <3>3
      <4> QED BY <2>1, <3>1, <4>1
    <3> QED BY <3>1, <3>2, <3>3
  <2>3. ASSUME NEW i \in 1 .. n, ts[i].parent \in Below(U, p) PROVE ts[i].id \in Below(U, p)
    <3>1. PICK k \in 1 .. n :
            ts[k].parent = p /\ (ts[i].parent = ts[k].id \/ ts[i].parent \in Below(U, ts[k].id))
      BY <2>1, <2>3
    <3>2. ts[i].id \in Below(U, ts[k].id) BY <1>1, <3>1
    <3> QED BY <2>1, <3>1, <3>2
  <2> QED BY <2>1, <2>2, <2>3
<1> HIDE DEF G
<1>2. S \subseteq G BY <1>1, FromTheLeaves
<1> QED BY <1>2 DEF G

\* A tab and all that is read under it.
Branch(U, id) == {id} \cup Below(U, id)

\* A tab below another has its parent in that one's branch, not above it.
LEMMA ParentInBranch ==
  ASSUME NEW ts, NEW top, Forest(ts, top), NEW U, IsUnder(ts, U),
         NEW k \in 1 .. Len(ts), NEW i \in 1 .. Len(ts), ts[i].id \in Below(U, ts[k].id)
  PROVE  /\ ts[i].parent \in Branch(U, ts[k].id) /\ ts[i].parent \in DocIds(ts)
         /\ ts[k].parent < ts[i].parent
<1>1. ts[k].id \in DocIds(ts) /\ ts[k].parent < ts[k].id /\ ts[k].id \in Nat /\ ts[k].parent \in Nat
  BY TabsOfForest
<1>2. ts[i].parent = ts[k].id \/ ts[i].parent \in Below(U, ts[k].id) BY <1>1, BelowByParent
<1>3. CASE ts[i].parent = ts[k].id BY <1>1, <1>3 DEF Branch
<1>4. CASE ts[i].parent \in Below(U, ts[k].id)
  <2>1. ts[i].parent \in DocIds(ts) /\ ts[k].id < ts[i].parent BY <1>1, <1>4, BelowAreTabs
  <2>2. ts[i].parent \in Nat BY TabsOfForest
  <2> QED BY <1>1, <1>4, <2>1, <2>2 DEF Branch
<1> QED BY <1>2, <1>3, <1>4

\* Siblings have no tab in common.
LEMMA BranchesApart ==
  ASSUME NEW ts, NEW top, Forest(ts, top), NEW U, IsUnder(ts, U),
         NEW k \in 1 .. Len(ts), NEW m \in 1 .. Len(ts), ts[k].parent = ts[m].parent, k # m
  PROVE  Branch(U, ts[k].id) \cap Branch(U, ts[m].id) = {}
<1> DEFINE n == Len(ts)
           G == {i \in DocIds(ts) : ~(i \in Branch(U, ts[k].id) /\ i \in Branch(U, ts[m].id))}
<1>1. /\ ts[k].id \in DocIds(ts) /\ ts[m].id \in DocIds(ts)
      /\ \A i \in 1 .. n : ts[i].parent \in Nat /\ ts[i].id \in DocIds(ts)
  BY TabsOfForest
<1>2. ts[k].id # ts[m].id
  <2>1. k \in DOMAIN ts /\ m \in DOMAIN ts BY TabsOfForest
  <2> QED BY <2>1 DEF Forest
<1>3. ASSUME NEW i \in 1 .. n, ts[i].parent \in G \cup {0} PROVE ts[i].id \in G
  <2>1. SUFFICES ASSUME ts[i].id \in Branch(U, ts[k].id), ts[i].id \in Branch(U, ts[m].id) PROVE FALSE
    BY <1>1
  <2>2. \A j \in 1 .. n : ts[i].id = ts[j].id => ts[i].parent = ts[j].parent
    <3>1. \A j \in 1 .. n : j \in DOMAIN ts BY TabsOfForest
    <3> QED BY <3>1 DEF Forest
  <2>3. ASSUME NEW j \in {k, m}, ts[i].id \in Below(U, ts[j].id)
        PROVE  ts[i].parent \in Branch(U, ts[j].id) /\ ts[i].parent # ts[j].parent /\ ts[i].parent \in DocIds(ts)
    <3>1. j \in 1 .. n OBVIOUS
    <3>2. ts[j].parent < ts[i].parent BY <2>3, <3>1, ParentInBranch
    <3> QED BY <1>1, <2>3, <3>1, <3>2, ParentInBranch
  <2>4. ts[i].id = ts[k].id \/ ts[i].id \in Below(U, ts[k].id) BY <2>1 DEF Branch
  <2>5. ts[i].id = ts[m].id \/ ts[i].id \in Below(U, ts[m].id) BY <2>1 DEF Branch
  <2>6. CASE ts[i].id = ts[k].id BY <1>2, <2>2, <2>3, <2>5, <2>6
  <2>7. CASE ts[i].id = ts[m].id BY <1>2, <2>2, <2>3, <2>4, <2>7
  <2>8. CASE ts[i].id \in Below(U, ts[k].id) /\ ts[i].id \in Below(U, ts[m].id)
    <3>1. ts[i].parent \in Branch(U, ts[k].id) /\ ts[i].parent \in Branch(U, ts[m].id) BY <2>3, <2>8
    <3>2. ts[i].parent # 0
      <4>1. ts[i].parent \in DocIds(ts) BY <2>3, <2>8
      <4> QED BY <4>1, TabsOfForest
    <3> QED BY <1>3, <3>1, <3>2
  <2> QED BY <2>4, <2>5, <2>6, <2>7, <2>8
<1> HIDE DEF G
<1>4. DocIds(ts) \subseteq G BY <1>3, FromTheRoots
<1>5. Branch(U, ts[k].id) \subseteq DocIds(ts) BY <1>1, BelowAreTabs DEF Branch
<1> QED BY <1>4, <1>5 DEF G

\* Where a tab of a reading comes from: it is nested directly in p, or read under one that is.
Origin(ts, U, p, start, a, k) ==
  /\ ts[k].parent = p /\ U[p][a].id \in Branch(U, ts[k].id)
  /\ \/ a = start[k] /\ U[p][a] = ts[k]
     \/ \E l \in 1 .. Len(U[ts[k].id]) :
          a = start[k] + l /\ U[p][a] = U[ts[k].id][l] /\ U[p][a].id \in Below(U, ts[k].id)

LEMMA ComesFrom ==
  ASSUME NEW ts, NEW U, NEW p, NEW start, Stands(ts, U, p, start), NEW a \in 1 .. Len(U[p])
  PROVE  \E k \in 1 .. Len(ts) : Origin(ts, U, p, start, a, k)
<1>1. PICK k \in 1 .. Len(ts) :
        /\ ts[k].parent = p
        /\ a = start[k] \/ \E l \in 1 .. Len(U[ts[k].id]) : a = start[k] + l
  BY DEF Stands
<1>2. CASE a = start[k]
  <2>1. U[p][a] = ts[k] BY <1>1, <1>2 DEF Stands
  <2> QED BY <1>1, <1>2, <2>1 DEF Branch, Origin
<1>3. ASSUME NEW l \in 1 .. Len(U[ts[k].id]), a = start[k] + l
      PROVE  U[p][a] = U[ts[k].id][l] /\ U[p][a].id \in Below(U, ts[k].id) /\ U[p][a].id \in Branch(U, ts[k].id)
  <2>1. U[p][a] = U[ts[k].id][l] BY <1>1, <1>3 DEF Stands
  <2>2. U[p][a].id \in Below(U, ts[k].id) BY <2>1 DEF Below
  <2> QED BY <2>1, <2>2 DEF Branch
<1> QED BY <1>1, <1>2, <1>3 DEF Origin

\* No tab is read twice.
LEMMA NoneTwice ==
  ASSUME NEW ts, NEW top, Forest(ts, top), NEW U, IsUnder(ts, U)
  PROVE  \A p \in DocIds(ts) \cup {0} : \A a, b \in 1 .. Len(U[p]) :
           U[p][a].id = U[p][b].id => a = b
<1> DEFINE S == DocIds(ts) \cup {0}
           n == Len(ts)
           G == {p \in S : \A a, b \in 1 .. Len(U[p]) : U[p][a].id = U[p][b].id => a = b}
<1>1. ASSUME NEW p \in S, \A k \in 1 .. n : ts[k].parent = p => ts[k].id \in G
      PROVE  p \in G
  <2>1. PICK start : Stands(ts, U, p, start) BY TheyStand
  <2>2. ASSUME NEW a \in 1 .. Len(U[p]), NEW b \in 1 .. Len(U[p]), U[p][a].id = U[p][b].id
        PROVE  a = b
    <3>10. PICK k \in 1 .. n : Origin(ts, U, p, start, a, k) BY <2>1, ComesFrom
    <3>1. /\ ts[k].parent = p /\ U[p][a].id \in Branch(U, ts[k].id)
          /\ \/ a = start[k] /\ U[p][a] = ts[k]
             \/ \E l \in 1 .. Len(U[ts[k].id]) :
                  a = start[k] + l /\ U[p][a] = U[ts[k].id][l] /\ U[p][a].id \in Below(U, ts[k].id)
      BY <3>10 DEF Origin
    <3>20. PICK m \in 1 .. n : Origin(ts, U, p, start, b, m) BY <2>1, ComesFrom
    <3>2. /\ ts[m].parent = p /\ U[p][b].id \in Branch(U, ts[m].id)
          /\ \/ b = start[m] /\ U[p][b] = ts[m]
             \/ \E l \in 1 .. Len(U[ts[m].id]) :
                  b = start[m] + l /\ U[p][b] = U[ts[m].id][l] /\ U[p][b].id \in Below(U, ts[m].id)
      BY <3>20 DEF Origin
    <3>3. k = m BY <2>2, <3>1, <3>2, BranchesApart
    <3>4. ts[k].id \notin Below(U, ts[k].id)
      <4>1. ts[k].id \in DocIds(ts) /\ ts[k].id \in Nat BY TabsOfForest
      <4>2. ~(ts[k].id < ts[k].id) BY <4>1
      <4> QED BY <4>1, <4>2, BelowAreTabs
    <3>5. \A x, y \in 1 .. Len(U[ts[k].id]) : U[ts[k].id][x].id = U[ts[k].id][y].id => x = y
      BY <1>1, <3>1
    <3> QED BY <2>2, <3>1, <3>2, <3>3, <3>4, <3>5
  <2> QED BY <2>2
<1> HIDE DEF G
<1>2. S \subseteq G BY <1>1, FromTheLeaves
<1> QED BY <1>2 DEF G

\* In any reading a tab is followed by the reading of what is nested in it.
NestedFollowIn(U, p) ==
  \A a \in 1 .. Len(U[p]) : \A l \in 1 .. Len(U[U[p][a].id]) :
    a + l \in 1 .. Len(U[p]) /\ U[p][a + l] = U[U[p][a].id][l]

\* What is read of a tab's own nesting stands right after it.
LEMMA NestedFollow ==
  ASSUME NEW ts, NEW top, Forest(ts, top), NEW U, IsUnder(ts, U)
  PROVE  \A p \in DocIds(ts) \cup {0} : NestedFollowIn(U, p)
<1> DEFINE S == DocIds(ts) \cup {0}
           n == Len(ts)
           G == {p \in S : NestedFollowIn(U, p)}
<1>1. ASSUME NEW p \in S, \A k \in 1 .. n : ts[k].parent = p => ts[k].id \in G
      PROVE  p \in G
  <2>1. PICK start : Stands(ts, U, p, start) BY TheyStand
  <2>2. ASSUME NEW a \in 1 .. Len(U[p]), NEW l \in 1 .. Len(U[U[p][a].id])
        PROVE  a + l \in 1 .. Len(U[p]) /\ U[p][a + l] = U[U[p][a].id][l]
    <3>10. PICK k \in 1 .. n : Origin(ts, U, p, start, a, k) BY <2>1, ComesFrom
    <3>1. /\ ts[k].parent = p /\ U[p][a].id \in Branch(U, ts[k].id)
          /\ \/ a = start[k] /\ U[p][a] = ts[k]
             \/ \E x \in 1 .. Len(U[ts[k].id]) :
                  a = start[k] + x /\ U[p][a] = U[ts[k].id][x] /\ U[p][a].id \in Below(U, ts[k].id)
      BY <3>10 DEF Origin
    <3>2. \A y \in 1 .. Len(U[ts[k].id]) :
            start[k] + y \in 1 .. Len(U[p]) /\ U[p][start[k] + y] = U[ts[k].id][y]
      BY <2>1, <3>1 DEF Stands
    <3>3. CASE a = start[k] /\ U[p][a] = ts[k] BY <3>2, <3>3
    <3>4. ASSUME NEW x \in 1 .. Len(U[ts[k].id]), a = start[k] + x, U[p][a] = U[ts[k].id][x]
          PROVE  a + l \in 1 .. Len(U[p]) /\ U[p][a + l] = U[U[p][a].id][l]
      <4>1. PICK q : q = ts[k].id OBVIOUS
      <4>2. PICK y : y = x + l OBVIOUS
      <4>3. y \in 1 .. Len(U[q]) /\ U[q][y] = U[U[p][a].id][l]
        <5>1. NestedFollowIn(U, q) BY <1>1, <3>1, <4>1
        <5> QED BY <3>4, <4>1, <4>2, <5>1 DEF NestedFollowIn
      <4>4. start[k] + y \in 1 .. Len(U[p]) /\ U[p][start[k] + y] = U[q][y] BY <3>2, <4>1, <4>3
      <4>5. a + l = start[k] + y
        <5>1. start[k] \in Nat BY <2>1 DEF Stands
        <5>2. x \in Nat /\ l \in Nat
          <6>1. U[p][a].id \in S /\ q \in S BY <3>1, <4>1, BelowAreTabs, TabsOfForest DEF Branch
          <6>2. Len(U[q]) \in Nat /\ Len(U[U[p][a].id]) \in Nat BY <6>1, UnderTyped
          <6> QED BY <3>4, <4>1, <6>2
        <5>3. \A u, v, w \in Nat : (u + v) + w = u + (v + w) OBVIOUS
        <5> QED BY <3>4, <4>2, <5>1, <5>2, <5>3
      <4> QED BY <4>3, <4>4, <4>5
    <3> QED BY <3>1, <3>3, <3>4
  <2> QED BY <2>2 DEF NestedFollowIn
<1> HIDE DEF G
<1>2. S \subseteq G BY <1>1, FromTheLeaves
<1> QED BY <1>2 DEF G

\* Siblings are read in their order.
LEMMA SiblingsInOrder ==
  ASSUME NEW ts, NEW top, Forest(ts, top), NEW U, IsUnder(ts, U),
         NEW i \in 1 .. Len(ts), NEW j \in 1 .. Len(ts), i < j, ts[i].parent = ts[j].parent
  PROVE  \A p \in DocIds(ts) \cup {0} : \A a, b \in 1 .. Len(U[p]) :
           U[p][a] = ts[i] /\ U[p][b] = ts[j] => a < b
<1> DEFINE S == DocIds(ts) \cup {0}
           n == Len(ts)
           G == {p \in S : \A a, b \in 1 .. Len(U[p]) : U[p][a] = ts[i] /\ U[p][b] = ts[j] => a < b}
<1>0. n \in Nat /\ ts[i].id # ts[j].id /\ \A k \in 1 .. n : k \in Nat
  <2>1. n \in Nat /\ i \in DOMAIN ts /\ j \in DOMAIN ts BY TabsOfForest
  <2>2. i # j BY <2>1
  <2> QED BY <2>1, <2>2 DEF Forest
<1>1. ASSUME NEW p \in S, \A k \in 1 .. n : ts[k].parent = p => ts[k].id \in G
      PROVE  p \in G
  <2>1. PICK start : Stands(ts, U, p, start) BY TheyStand
  <2>2. ASSUME NEW a \in 1 .. Len(U[p]), NEW b \in 1 .. Len(U[p]), U[p][a] = ts[i], U[p][b] = ts[j]
        PROVE  a < b
    <3>10. PICK k \in 1 .. n : Origin(ts, U, p, start, a, k) BY <2>1, ComesFrom
    <3>1. /\ ts[k].parent = p /\ U[p][a].id \in Branch(U, ts[k].id)
          /\ \/ a = start[k] /\ U[p][a] = ts[k]
             \/ \E l \in 1 .. Len(U[ts[k].id]) :
                  a = start[k] + l /\ U[p][a] = U[ts[k].id][l] /\ U[p][a].id \in Below(U, ts[k].id)
      BY <3>10 DEF Origin
    <3>20. PICK m \in 1 .. n : Origin(ts, U, p, start, b, m) BY <2>1, ComesFrom
    <3>2. /\ ts[m].parent = p /\ U[p][b].id \in Branch(U, ts[m].id)
          /\ \/ b = start[m] /\ U[p][b] = ts[m]
             \/ \E l \in 1 .. Len(U[ts[m].id]) :
                  b = start[m] + l /\ U[p][b] = U[ts[m].id][l] /\ U[p][b].id \in Below(U, ts[m].id)
      BY <3>20 DEF Origin
    <3>3. /\ start[k] \in Nat /\ start[m] \in Nat
          /\ Len(U[ts[k].id]) \in Nat /\ Len(U[ts[m].id]) \in Nat
      <4>1. ts[k].id \in S /\ ts[m].id \in S BY TabsOfForest
      <4> QED BY <2>1, <4>1, UnderTyped DEF Stands
    <3>4. \A x \in 1 .. n : \A y \in 1 .. n : ts[x] = ts[y] => x = y
      <4>1. \A x \in 1 .. n : x \in DOMAIN ts BY TabsOfForest
      <4> QED BY <4>1 DEF Forest
    <3>5. \A x \in 1 .. n : ts[x].parent \in Nat BY TabsOfForest
    <3>6. CASE k = m
      <4>1. CASE a = start[k] /\ b = start[k] BY <1>0, <2>2, <4>1
      <4>2. CASE a = start[k] /\ b # start[k] BY <3>2, <3>3, <3>6, <4>2
      <4>3. CASE a # start[k] /\ U[p][b] = ts[k]
        <5>1. U[p][a].id \in Below(U, ts[k].id) /\ j = k BY <2>2, <3>1, <3>4, <4>3
        <5>2. ts[k].parent < ts[i].parent BY <2>2, <5>1, ParentInBranch
        <5> QED BY <3>5, <5>1, <5>2
      <4>4. ASSUME NEW x \in 1 .. Len(U[ts[k].id]), NEW y \in 1 .. Len(U[ts[k].id]),
                   a = start[k] + x, b = start[k] + y,
                   U[p][a] = U[ts[k].id][x], U[p][b] = U[ts[k].id][y]
            PROVE  a < b
        <5>1. x < y BY <1>1, <2>2, <3>1, <4>4
        <5> QED BY <3>3, <4>4, <5>1
      <4> QED BY <3>1, <3>2, <3>6, <4>1, <4>2, <4>3, <4>4
    <3>7. CASE k < m
      <4>1. start[k] + Len(U[ts[k].id]) < start[m] BY <2>1, <3>1, <3>2, <3>7 DEF Stands
      <4>2. a <= start[k] + Len(U[ts[k].id]) BY <3>1, <3>3
      <4>3. start[m] <= b BY <3>2, <3>3
      <4>4. a \in Nat /\ b \in Nat BY <3>1, <3>2, <3>3
      <4> QED BY <3>3, <4>1, <4>2, <4>3, <4>4
    <3>8. CASE m < k
      <4>1. k # m BY <1>0, <3>8
      <4>2. CASE U[p][a] = ts[k]
        <5>1. i = k /\ ts[j].parent = p BY <2>2, <3>1, <3>4, <4>2
        <5>2. U[p][b].id \notin Below(U, ts[m].id)
          <6>1. SUFFICES ASSUME ts[j].id \in Below(U, ts[m].id) PROVE FALSE BY <2>2
          <6>2. ts[m].parent < ts[j].parent BY <6>1, ParentInBranch
          <6> QED BY <3>2, <3>5, <5>1, <6>2
        <5>3. j = m BY <2>2, <3>2, <3>4, <5>2
        <5> QED BY <1>0, <3>8, <5>1, <5>3
      <4>3. CASE ts[i].id \in Below(U, ts[k].id)
        <5>1. ts[i].parent \in Branch(U, ts[k].id) /\ p < ts[i].parent BY <3>1, <4>3, ParentInBranch
        <5>2. CASE U[p][b] = ts[m]
          <6>1. ts[j].parent = p BY <2>2, <3>2, <5>2
          <6> QED BY <3>5, <5>1, <6>1
        <5>3. CASE ts[j].id \in Below(U, ts[m].id)
          <6>1. ts[j].parent \in Branch(U, ts[m].id) BY <5>3, ParentInBranch
          <6> QED BY <3>1, <3>2, <4>1, <5>1, <6>1, BranchesApart
        <5> QED BY <2>2, <3>2, <5>2, <5>3
      <4> QED BY <2>2, <3>1, <4>2, <4>3
    <3> QED BY <1>0, <3>6, <3>7, <3>8
  <2> QED BY <2>2
<1> HIDE DEF G
<1>2. S \subseteq G BY <1>1, FromTheLeaves
<1> QED BY <1>2 DEF G

\* Every tab is read.
LEMMA AllAreRead ==
  ASSUME NEW ts, NEW top, Forest(ts, top), NEW U, IsUnder(ts, U)
  PROVE  Below(U, 0) = DocIds(ts)
<1>1. \A k \in 1 .. Len(ts) : ts[k].parent \in Below(U, 0) \cup {0} => ts[k].id \in Below(U, 0)
  BY BelowByParent
<1>2. DocIds(ts) \subseteq Below(U, 0) BY <1>1, FromTheRoots
<1> QED BY <1>2, BelowAreTabs

\* A tab is in the branch of another when it is that one or its parent is in the branch.
LEMMA BranchByParent ==
  ASSUME NEW ts, NEW top, Forest(ts, top), NEW U, IsUnder(ts, U), NEW id \in DocIds(ts)
  PROVE  /\ Branch(U, id) \subseteq DocIds(ts)
         /\ \A k \in 1 .. Len(ts) :
              ts[k].id \in Branch(U, id) <=>
                ts[k].id = id \/ (ts[k].parent # 0 /\ ts[k].parent \in Branch(U, id))
<1>1. Branch(U, id) \subseteq DocIds(ts) BY BelowAreTabs DEF Branch
<1>2. 0 \notin DocIds(ts) BY TabsOfForest
<1>3. \A k \in 1 .. Len(ts) :
        ts[k].id \in Below(U, id) <=> ts[k].parent = id \/ ts[k].parent \in Below(U, id)
  BY BelowByParent
<1> QED BY <1>1, <1>2, <1>3 DEF Branch

\* A set with that property is what a deletion takes.
LEMMA NestedIs ==
  ASSUME NEW ts, NEW top, Forest(ts, top), NEW id, NEW X \in SUBSET DocIds(ts),
         \A k \in 1 .. Len(ts) :
           ts[k].id \in X <=> ts[k].id = id \/ (ts[k].parent # 0 /\ ts[k].parent \in X)
  PROVE  Nested(ts, id) = X
<1> DEFINE S == DocIds(ts)
           P(c) == c = [i \in S |-> i = id \/ (TabOf(ts, i).parent # 0 /\ c[TabOf(ts, i).parent])]
<1>1. ASSUME NEW i \in S
      PROVE  /\ TabOf(ts, i).parent # 0 => TabOf(ts, i).parent \in S
             /\ i \in X <=> i = id \/ (TabOf(ts, i).parent # 0 /\ TabOf(ts, i).parent \in X)
             /\ \E k \in 1 .. Len(ts) : ts[k].id = i /\ TabOf(ts, i) = ts[k]
  <2>1. PICK k \in 1 .. Len(ts) : ts[k].id = i BY TabsOfForest
  <2>2. TabOf(ts, i) = ts[k]
    <3>1. \A a, b \in DOMAIN ts : ts[a].id = ts[b].id => a = b BY DEF Forest
    <3>2. k \in DOMAIN ts BY TabsOfForest
    <3> QED BY <2>1, <3>1, <3>2, OnlyTab
  <2>3. ts[k].parent \in S \cup {0} BY TabsOfForest
  <2> QED BY <2>1, <2>2, <2>3
<1>2. PICK c : c = [i \in S |-> i \in X] OBVIOUS
<1>3. ASSUME NEW i \in S
      PROVE  (i \in X) = (i = id \/ (TabOf(ts, i).parent # 0 /\ c[TabOf(ts, i).parent]))
  <2>1. TabOf(ts, i).parent # 0 => (c[TabOf(ts, i).parent] <=> TabOf(ts, i).parent \in X)
    BY <1>1, <1>2, Zenon
  <2>2. (i \in X) <=> (i = id \/ (TabOf(ts, i).parent # 0 /\ c[TabOf(ts, i).parent]))
    BY <1>1, <2>1, Zenon
  <2> QED BY <2>2
<1>4. P(c) BY <1>2, <1>3, Zenon
<1>5. PICK d : d = CHOOSE e : P(e) OBVIOUS
<1>6. P(d) BY <1>4, <1>5, Zenon
<1>7. Nested(ts, id) = {i \in S : d[i]} BY <1>5 DEF Nested
<1>8. \A i \in S : d[i] <=> i = id \/ (TabOf(ts, i).parent # 0 /\ d[TabOf(ts, i).parent])
  BY <1>6, Zenon
<1> HIDE DEF P
<1> DEFINE G == {i \in S : d[i] <=> i \in X}
<1>9. ASSUME NEW k \in 1 .. Len(ts), ts[k].parent \in G \cup {0} PROVE ts[k].id \in G
  <2>1. PICK i \in S : i = ts[k].id BY TabsOfForest
  <2>2. TabOf(ts, i).parent \in G \cup {0}
    <3>1. PICK m \in 1 .. Len(ts) : ts[m].id = i /\ TabOf(ts, i) = ts[m] BY <1>1
    <3>2. \A a, b \in DOMAIN ts : ts[a].id = ts[b].id => a = b BY DEF Forest
    <3>3. m = k BY <2>1, <3>1, <3>2, TabsOfForest
    <3> QED BY <1>9, <3>1, <3>3
  <2>3. d[i] <=> i = id \/ (TabOf(ts, i).parent # 0 /\ d[TabOf(ts, i).parent]) BY <1>8
  <2>4. i \in X <=> i = id \/ (TabOf(ts, i).parent # 0 /\ TabOf(ts, i).parent \in X) BY <1>1
  <2>5. TabOf(ts, i).parent # 0 => (d[TabOf(ts, i).parent] <=> TabOf(ts, i).parent \in X)
    BY <2>2
  <2>6. d[i] <=> i \in X BY <2>3, <2>4, <2>5, Zenon
  <2> QED BY <2>1, <2>6
<1> HIDE DEF G
<1>10. S \subseteq G BY <1>9, FromTheRoots
<1>11. \A i \in S : d[i] <=> i \in X BY <1>10 DEF G
<1> QED BY <1>7, <1>11

\* What is deleted with a tab is the branch that is read under it.
LEMMA NestedIsBranch ==
  ASSUME NEW ts, NEW top, Forest(ts, top), NEW U, IsUnder(ts, U), NEW id \in DocIds(ts)
  PROVE  Nested(ts, id) = Branch(U, id)
BY BranchByParent, NestedIs

-----------------------------------------------------------------------------
(* A reading covers every tab. *)

\* Where no two ids are alike there are as many as places.
LEMMA CountedIds ==
  ASSUME NEW m \in Nat, NEW f, \A a, b \in 1 .. m : f[a].id = f[b].id => a = b
  PROVE  /\ IsFiniteSet({f[a].id : a \in 1 .. m})
         /\ Cardinality({f[a].id : a \in 1 .. m}) = m
<1> DEFINE R == {f[a].id : a \in 1 .. m}
<1>1. PICK g : g = [a \in 1 .. m |-> f[a].id] OBVIOUS
<1>2. g \in Bijection(1 .. m, R)
  <2>1. g \in [1 .. m -> R] BY <1>1
  <2>2. \A a, b \in 1 .. m : g[a] = g[b] => a = b BY <1>1
  <2>3. \A r \in R : \E a \in 1 .. m : g[a] = r BY <1>1
  <2> HIDE DEF R
  <2> QED BY <2>1, <2>2, <2>3 DEF Bijection, Injection, IsInjective, Surjection, Range
<1>3. ExistsBijection(1 .. m, R) BY <1>2 DEF ExistsBijection
<1> HIDE DEF R
<1>4. IsFiniteSet(1 .. m) BY FS_Interval
<1>5. Cardinality(R) = m BY <1>3, FS_CountingElements
<1>6. IsFiniteSet(R) BY <1>3, <1>4, FS_Bijection
<1> QED BY <1>5, <1>6 DEF R

\* The same tabs, each once, in some order.
SameTabs(ts, w) ==
  /\ Len(w) = Len(ts) /\ DocIds(w) = DocIds(ts)
  /\ \A j \in 1 .. Len(w) : \E i \in 1 .. Len(ts) : w[j] = ts[i]
  /\ \A i \in 1 .. Len(ts) : \E j \in 1 .. Len(w) : w[j] = ts[i]

\* The reading of a forest is a forest of the same tabs.
LEMMA ReadingIsForest ==
  ASSUME NEW ts, NEW top, Forest(ts, top), NEW U, IsUnder(ts, U)
  PROVE  Forest(U[0], top) /\ SameTabs(ts, U[0])
<1>1. PICK w : w = U[0] OBVIOUS
<1>2. w \in Seq(DocTab) /\ Len(w) \in Nat /\ DOMAIN w = 1 .. Len(w) BY <1>1, UnderTyped, LenProperties
<1>3. \A j \in 1 .. Len(w) : \E i \in 1 .. Len(ts) : w[j] = ts[i] BY <1>1, BelowAreTabs
<1>4. \A a, b \in 1 .. Len(w) : w[a].id = w[b].id => a = b BY <1>1, NoneTwice
<1>5. {w[j].id : j \in 1 .. Len(w)} = DocIds(ts) BY <1>1, AllAreRead DEF Below
<1>6. DocIds(w) = DocIds(ts) BY <1>2, <1>5 DEF DocIds
<1>7. \A i \in 1 .. Len(ts) : \A k \in 1 .. Len(ts) : ts[i].id = ts[k].id => i = k
  <2>1. \A i \in 1 .. Len(ts) : i \in DOMAIN ts BY TabsOfForest
  <2> QED BY <2>1 DEF Forest
<1>8. ASSUME NEW i \in 1 .. Len(ts) PROVE \E j \in 1 .. Len(w) : w[j] = ts[i]
  <2>1. ts[i].id \in DocIds(ts) BY TabsOfForest
  <2>2. PICK j \in 1 .. Len(w) : w[j].id = ts[i].id BY <1>5, <2>1
  <2>3. PICK k \in 1 .. Len(ts) : w[j] = ts[k] BY <1>3
  <2> QED BY <1>7, <2>2, <2>3
<1>9. Forest(w, top)
  <2>1. \A j \in 1 .. Len(w) : w[j].id <= top
    <3>1. \A i \in 1 .. Len(ts) : ts[i].id <= top BY TabsOfForest DEF Forest
    <3> QED BY <1>3, <3>1
  <2>2. \A j \in 1 .. Len(w) : w[j].parent = 0 \/ (w[j].parent < w[j].id /\ w[j].parent \in DocIds(w))
    <3>1. \A i \in 1 .. Len(ts) : ts[i].parent = 0 \/ (ts[i].parent < ts[i].id /\ ts[i].parent \in DocIds(ts))
      BY TabsOfForest
    <3> QED BY <1>3, <1>6, <3>1
  <2>3. top \in Nat BY DEF Forest
  <2> QED BY <1>2, <1>4, <2>1, <2>2, <2>3 DEF Forest
<1>10. Len(w) = Len(ts)
  <2>0. PICK l \in Nat : l = Len(w) BY <1>2
  <2>1. Cardinality({w[j].id : j \in 1 .. Len(w)}) = Len(w)
    <3>1. \A a, b \in 1 .. l : w[a].id = w[b].id => a = b BY <1>4, <2>0
    <3>2. Cardinality({w[j].id : j \in 1 .. l}) = l BY <3>1, CountedIds
    <3> QED BY <2>0, <3>2
  <2>2. Len(ts) \in Nat BY TabsOfForest
  <2>3. Cardinality({ts[j].id : j \in 1 .. Len(ts)}) = Len(ts) BY <1>7, <2>2, CountedIds
  <2>4. {ts[j].id : j \in 1 .. Len(ts)} = DocIds(ts) BY TabsOfForest DEF DocIds
  <2> QED BY <1>5, <2>1, <2>3, <2>4
<1> QED BY <1>1, <1>3, <1>6, <1>8, <1>9, <1>10 DEF SameTabs

\* In the reading of a forest a tab is followed by all that is nested in it.
StandsTogether(w, i) ==
  Nested(w, w[i].id) = {w[j].id : j \in i .. i + Cardinality(Nested(w, w[i].id)) - 1}

\* A tab and what is nested in it stand together, the tab first.
LEMMA NestedStandsTogether ==
  ASSUME NEW ts, NEW top, Forest(ts, top), NEW U, IsUnder(ts, U), NEW i \in 1 .. Len(ts)
  PROVE  StandsTogether(U[0], i)
<1>0. PICK w : w = U[0] OBVIOUS
<1> DEFINE n == Len(ts)
<1>1. /\ Forest(w, top) /\ DocIds(w) = DocIds(ts) /\ Len(w) = n
      /\ \A j \in 1 .. n : \E k \in 1 .. n : w[j] = ts[k]
  <2>1. Forest(U[0], top) /\ SameTabs(ts, U[0]) BY ReadingIsForest
  <2> QED BY <1>0, <2>1 DEF SameTabs
<1>2. n \in Nat BY TabsOfForest
<1>3. PICK id \in DocIds(ts) : id = w[i].id
  <2>1. w[i].id \in DocIds(w) BY <1>1, TabsOfForest
  <2> QED BY <1>1, <2>1
<1>4. PICK l \in Nat : l = Len(U[id]) BY UnderTyped
<1>5. PICK X : X = Branch(U, id) OBVIOUS
<1>6. Nested(w, id) = X
  <2>1. /\ X \subseteq DocIds(ts)
        /\ \A k \in 1 .. n : ts[k].id \in X <=>
             ts[k].id = id \/ (ts[k].parent # 0 /\ ts[k].parent \in X)
    BY <1>5, BranchByParent
  <2>2. \A k \in 1 .. Len(w) : w[k].id \in X <=>
             w[k].id = id \/ (w[k].parent # 0 /\ w[k].parent \in X)
    <3>1. SUFFICES ASSUME NEW k \in 1 .. n
                   PROVE  w[k].id \in X <=>
                            w[k].id = id \/ (w[k].parent # 0 /\ w[k].parent \in X)
      BY <1>1
    <3>2. PICK m \in 1 .. n : w[k] = ts[m] BY <1>1
    <3> QED BY <2>1, <3>2
  <2>3. X \in SUBSET DocIds(w) BY <1>1, <2>1
  <2>4. Forest(w, top) BY <1>1
  <2> QED BY <2>2, <2>3, <2>4, NestedIs
<1>7. \A x \in 1 .. l : i + x \in 1 .. n /\ w[i + x] = U[id][x]
  <2>1. \A a \in 1 .. Len(U[0]) : \A x \in 1 .. Len(U[U[0][a].id]) :
           a + x \in 1 .. Len(U[0]) /\ U[0][a + x] = U[U[0][a].id][x]
    <3>1. NestedFollowIn(U, 0) BY NestedFollow
    <3> QED BY <3>1 DEF NestedFollowIn
  <2> QED BY <1>0, <1>1, <1>3, <1>4, <2>1
<1>8. Cardinality(X) = l + 1
  <2>1. PICK f : f = U[id] OBVIOUS
  <2>2. \A a, b \in 1 .. l : f[a].id = f[b].id => a = b BY <1>4, <2>1, NoneTwice
  <2>3. Below(U, id) = {f[a].id : a \in 1 .. l} BY <1>4, <2>1 DEF Below
  <2>4. IsFiniteSet({f[a].id : a \in 1 .. l}) /\ Cardinality({f[a].id : a \in 1 .. l}) = l
    BY <2>2, CountedIds
  <2>5. id \notin Below(U, id)
    <3>1. id \in Nat BY TabsOfForest
    <3>2. ~(id < id) BY <3>1
    <3> QED BY <3>2, BelowAreTabs
  <2>6. X = Below(U, id) \cup {id} BY <1>5 DEF Branch
  <2> QED BY <2>3, <2>4, <2>5, <2>6, FS_AddElement
<1>9. X = {w[j].id : j \in i .. i + l}
  <2>0. i \in Nat BY <1>2
  <2>1. ASSUME NEW q \in X PROVE \E j \in i .. i + l : w[j].id = q
    <3>1. CASE q = id
      <4>1. i \in i .. i + l BY <1>4, <2>0
      <4> QED BY <1>3, <3>1, <4>1
    <3>2. CASE q \in Below(U, id)
      <4>1. PICK x \in 1 .. l : q = U[id][x].id BY <1>4, <3>2 DEF Below
      <4>2. i + x \in i .. i + l BY <1>4, <2>0
      <4>3. w[i + x].id = q BY <1>7, <4>1
      <4> QED BY <4>2, <4>3
    <3> QED BY <1>5, <3>1, <3>2 DEF Branch
  <2>2. ASSUME NEW j \in i .. i + l PROVE w[j].id \in X
    <3>1. CASE j = i BY <1>3, <1>5, <3>1 DEF Branch
    <3>2. CASE j # i
      <4>1. PICK x : x = j - i OBVIOUS
      <4>2. x \in 1 .. l /\ i + x = j BY <1>4, <2>0, <3>2, <4>1
      <4>3. w[j].id = U[id][x].id BY <1>7, <4>2
      <4> QED BY <1>4, <1>5, <4>2, <4>3 DEF Branch, Below
    <3> QED BY <3>1, <3>2
  <2> QED BY <2>1, <2>2
<1>10. i + (l + 1) - 1 = i + l BY <1>2, <1>4
<1>11. Nested(w, w[i].id) = {w[j].id : j \in i .. i + Cardinality(Nested(w, w[i].id)) - 1}
  BY <1>3, <1>6, <1>8, <1>9, <1>10
<1> QED BY <1>0, <1>11 DEF StandsTogether

\* However tabs are nested, a reading covers every tab once, a tab is followed by all that
\* is nested in it, and siblings keep their order.
LEMMA ReadingIsWhole ==
  ASSUME Forest(doc_tabs, last_tab)
  PROVE  ReadsEveryTab
<1> DEFINE ts == doc_tabs
           n == Len(doc_tabs)
<1>1. PICK U : IsUnder(ts, U) /\ walk(ts) = U[0] BY WalkIsUnder
<1>2. PICK w : w = U[0] OBVIOUS
<1>3. /\ Forest(w, last_tab) /\ DocIds(w) = DocIds(ts) /\ Len(w) = n
      /\ \A j \in 1 .. n : \E i \in 1 .. n : w[j] = ts[i]
      /\ \A i \in 1 .. n : \E j \in 1 .. n : w[j] = ts[i]
  <2>1. Forest(U[0], last_tab) /\ SameTabs(ts, U[0]) BY <1>1, ReadingIsForest
  <2> QED BY <1>2, <2>1 DEF SameTabs
<1>4. n \in Nat /\ DOMAIN w = 1 .. n /\ DOMAIN ts = 1 .. n BY <1>3, TabsOfForest
<1>5. ToSet(w) = ToSet(ts)
  <2>1. {w[i] : i \in 1 .. n} = {ts[i] : i \in 1 .. n}
    <3>1. \A x \in {w[i] : i \in 1 .. n} : x \in {ts[i] : i \in 1 .. n} BY <1>3
    <3>2. \A x \in {ts[i] : i \in 1 .. n} : x \in {w[i] : i \in 1 .. n} BY <1>3
    <3> QED BY <3>1, <3>2
  <2> QED BY <1>4, <2>1 DEF ToSet
<1>6. ASSUME NEW i \in 1 .. n
      PROVE  Nested(w, w[i].id) = {w[j].id : j \in i .. i + Cardinality(Nested(w, w[i].id)) - 1}
  <2>1. StandsTogether(U[0], i) BY <1>1, NestedStandsTogether
  <2> QED BY <1>2, <2>1 DEF StandsTogether
<1>7. ASSUME NEW i \in 1 .. n, NEW j \in 1 .. n, i < j, ts[i].parent = ts[j].parent
      PROVE  (CHOOSE k \in DOMAIN w : w[k].id = ts[i].id)
               < (CHOOSE k \in DOMAIN w : w[k].id = ts[j].id)
  <2>1. \A a, b \in 1 .. n : ts[a].id = ts[b].id => a = b BY <1>4 DEF Forest
  <2>2. ASSUME NEW x \in 1 .. n
        PROVE  \E a \in 1 .. n : (CHOOSE k \in DOMAIN w : w[k].id = ts[x].id) = a /\ w[a] = ts[x]
    <3>1. \E k \in DOMAIN w : w[k].id = ts[x].id BY <1>3, <1>4
    <3>2. PICK a : a = CHOOSE k \in DOMAIN w : w[k].id = ts[x].id OBVIOUS
    <3>3. a \in 1 .. n /\ w[a].id = ts[x].id BY <1>4, <3>1, <3>2
    <3>4. w[a] = ts[x] BY <1>3, <2>1, <3>3
    <3> QED BY <3>2, <3>3, <3>4
  <2>3. PICK a \in 1 .. n : (CHOOSE k \in DOMAIN w : w[k].id = ts[i].id) = a /\ w[a] = ts[i]
    BY <2>2
  <2>4. PICK b \in 1 .. n : (CHOOSE k \in DOMAIN w : w[k].id = ts[j].id) = b /\ w[b] = ts[j]
    BY <2>2
  <2>5. \A c, d \in 1 .. Len(U[0]) : U[0][c] = ts[i] /\ U[0][d] = ts[j] => c < d
    BY <1>1, <1>7, SiblingsInOrder
  <2>6. a < b BY <1>2, <1>3, <2>3, <2>4, <2>5
  <2> QED BY <2>3, <2>4, <2>6
<1>8. w = walk(doc_tabs) BY <1>1, <1>2
<1>9. Len(w) = Len(doc_tabs) BY <1>3
<1> HIDE DEF ts, n
<1>10. \A i \in DOMAIN w :
         Nested(w, w[i].id) = {w[j].id : j \in i .. i + Cardinality(Nested(w, w[i].id)) - 1}
  BY <1>4, <1>6
<1>11. \A i, j \in DOMAIN doc_tabs :
         i < j /\ doc_tabs[i].parent = doc_tabs[j].parent =>
           (CHOOSE k \in DOMAIN w : w[k].id = doc_tabs[i].id)
             < (CHOOSE k \in DOMAIN w : w[k].id = doc_tabs[j].id)
  BY <1>4, <1>7 DEF ts
<1>12. ToSet(w) = ToSet(doc_tabs) BY <1>5 DEF ts
<1> QED
  <2>1. /\ Len(walk(doc_tabs)) = Len(doc_tabs) /\ ToSet(walk(doc_tabs)) = ToSet(doc_tabs)
        /\ \A i \in DOMAIN walk(doc_tabs) :
             LET inside == Nested(walk(doc_tabs), walk(doc_tabs)[i].id)
             IN  inside = {walk(doc_tabs)[j].id : j \in i .. i + Cardinality(inside) - 1}
    BY <1>8, <1>9, <1>10, <1>12
  <2>2. \A i, j \in DOMAIN doc_tabs :
         i < j /\ doc_tabs[i].parent = doc_tabs[j].parent =>
           (CHOOSE k \in DOMAIN walk(doc_tabs) : walk(doc_tabs)[k].id = doc_tabs[i].id)
             < (CHOOSE k \in DOMAIN walk(doc_tabs) : walk(doc_tabs)[k].id = doc_tabs[j].id)
    BY <1>8, <1>11
  <2> QED BY <2>1, <2>2 DEF ReadsEveryTab

-----------------------------------------------------------------------------
(* The nesting stays. *)

\* A tab is nested in an earlier one that is still there, or in none.
TabsNest ==
  \A i \in DOMAIN doc_tabs :
    doc_tabs[i].parent = 0 \/ (/\ doc_tabs[i].parent < doc_tabs[i].id
                               /\ doc_tabs[i].parent \in DocIds(doc_tabs))

\* What the tabs are, with it, is what a reading needs.
LEMMA TheTabsAreAForest == DocShape /\ TabsNest => Forest(doc_tabs, last_tab)
BY DEF DocShape, TabsNest, Forest

\* Texts that change leave the nesting alone.
LEMMA NestingStays ==
  ASSUME TabsNest, DOMAIN doc_tabs' = DOMAIN doc_tabs,
         \A i \in DOMAIN doc_tabs : doc_tabs'[i].id = doc_tabs[i].id /\ doc_tabs'[i].parent = doc_tabs[i].parent
  PROVE  TabsNest'
<1>1. \A p : p \in DocIds(doc_tabs) => p \in DocIds(doc_tabs')
  <2>1. ASSUME NEW i \in DOMAIN doc_tabs PROVE doc_tabs[i].id \in {doc_tabs'[k].id : k \in DOMAIN doc_tabs'}
    <3>1. i \in DOMAIN doc_tabs' /\ doc_tabs[i].id = doc_tabs'[i].id OBVIOUS
    <3> QED BY <3>1
  <2> QED BY <2>1 DEF DocIds
<1> QED BY <1>1 DEF TabsNest

LEMMA RewritingNests ==
  ASSUME DocShape, TabsNest, NEW i, NEW text, Rewritten(i, text)
  PROVE  TabsNest'
<1>1. doc_tabs[i] \in DocTab BY DEF DocShape, Rewritten
<1>2. doc_tabs'[i].id = doc_tabs[i].id /\ doc_tabs'[i].parent = doc_tabs[i].parent
  BY <1>1 DEF Rewritten, DocTab
<1>3. \A j \in DOMAIN doc_tabs : doc_tabs'[j].id = doc_tabs[j].id /\ doc_tabs'[j].parent = doc_tabs[j].parent
  BY <1>2 DEF Rewritten
<1> QED BY <1>3, NestingStays DEF Rewritten

\* A tab comes with a new id, nested in one that is there or in none.
LEMMA NewTabNests ==
  ASSUME DocShape, TabsNest, NEW p \in DocIds(doc_tabs) \cup {0}, NEW new \in DocTab,
         new.id = last_tab + 1, new.parent = p,
         doc_tabs' = Append(doc_tabs, new) \/ doc_tabs' = <<new>> \o doc_tabs
  PROVE  TabsNest'
<1>1. doc_tabs \in Seq(DocTab) /\ last_tab \in Nat BY DEF DocShape
<1>2. PICK n \in Nat : n = Len(doc_tabs) /\ DOMAIN doc_tabs = 1 .. n BY <1>1
<1>3. /\ \A j \in DOMAIN doc_tabs' : doc_tabs'[j] = new \/ \E i \in 1 .. n : doc_tabs'[j] = doc_tabs[i]
      /\ \A i \in 1 .. n : \E j \in DOMAIN doc_tabs' : doc_tabs'[j] = doc_tabs[i]
  <2>1. CASE doc_tabs' = Append(doc_tabs, new)
    <3>1. /\ DOMAIN doc_tabs' = 1 .. n + 1 /\ doc_tabs'[n + 1] = new
          /\ \A i \in 1 .. n : doc_tabs'[i] = doc_tabs[i]
      BY <1>1, <1>2, <2>1
    <3>2. \A i \in 1 .. n + 1 : i = n + 1 \/ i \in 1 .. n BY <1>2
    <3>3. \A i \in 1 .. n : i \in 1 .. n + 1 BY <1>2
    <3> QED BY <3>1, <3>2, <3>3
  <2>2. CASE doc_tabs' = <<new>> \o doc_tabs
    <3>1. PICK one \in Seq(DocTab) : one = <<new>>
      <4>1. <<new>> \in Seq(DocTab) OBVIOUS
      <4> QED BY <4>1
    <3>2. Len(one) = 1 /\ one[1] = new BY <3>1
    <3>3. /\ doc_tabs' \in Seq(DocTab) /\ Len(doc_tabs') = 1 + n
          /\ \A i \in 1 .. 1 + n : doc_tabs'[i] = IF i <= 1 THEN one[i] ELSE doc_tabs[i - 1]
      BY <1>1, <1>2, <2>2, <3>1, <3>2, ConcatProperties
    <3>4. DOMAIN doc_tabs' = 1 .. 1 + n BY <3>3
    <3>5. \A i \in 1 .. 1 + n : \/ i = 1 /\ doc_tabs'[i] = new
                                \/ i - 1 \in 1 .. n /\ doc_tabs'[i] = doc_tabs[i - 1]
      BY <1>2, <3>2, <3>3
    <3>6. \A i \in 1 .. n : i + 1 \in 1 .. 1 + n /\ doc_tabs'[i + 1] = doc_tabs[i]
      <4>1. \A i \in 1 .. n : i + 1 \in 1 .. 1 + n /\ ~(i + 1 <= 1) /\ (i + 1) - 1 = i BY <1>2
      <4> QED BY <3>3, <4>1
    <3> QED BY <3>4, <3>5, <3>6
  <2> QED BY <2>1, <2>2
<1>4. \A q \in DocIds(doc_tabs) : q \in DocIds(doc_tabs')
  <2>1. ASSUME NEW i \in 1 .. n PROVE doc_tabs[i].id \in DocIds(doc_tabs')
    <3>1. PICK j \in DOMAIN doc_tabs' : doc_tabs'[j] = doc_tabs[i] BY <1>3
    <3> QED BY <3>1 DEF DocIds
  <2> QED BY <1>2, <2>1 DEF DocIds
<1>5. p = 0 \/ p < last_tab + 1
  <2>1. \A i \in 1 .. n : doc_tabs[i].id \in Nat /\ doc_tabs[i].id <= last_tab
    <3>1. \A i \in 1 .. n : doc_tabs[i] \in DocTab BY <1>1, <1>2
    <3>2. \A i \in 1 .. n : doc_tabs[i].id <= last_tab BY <1>2 DEF DocShape
    <3> QED BY <3>1, <3>2 DEF DocTab
  <2>2. \A q \in DocIds(doc_tabs) : q \in Nat /\ q <= last_tab BY <1>2, <2>1 DEF DocIds
  <2> QED BY <1>1, <2>2
<1>6. ASSUME NEW j \in DOMAIN doc_tabs'
      PROVE  \/ doc_tabs'[j].parent = 0
             \/ doc_tabs'[j].parent < doc_tabs'[j].id /\ doc_tabs'[j].parent \in DocIds(doc_tabs')
  <2>1. CASE doc_tabs'[j] = new BY <1>4, <1>5, <2>1
  <2>2. ASSUME NEW i \in 1 .. n, doc_tabs'[j] = doc_tabs[i]
        PROVE  \/ doc_tabs'[j].parent = 0
               \/ doc_tabs'[j].parent < doc_tabs'[j].id /\ doc_tabs'[j].parent \in DocIds(doc_tabs')
    <3>1. doc_tabs[i].parent = 0 \/ (/\ doc_tabs[i].parent < doc_tabs[i].id
                                     /\ doc_tabs[i].parent \in DocIds(doc_tabs))
      BY <1>2 DEF TabsNest
    <3> QED BY <1>4, <2>2, <3>1
  <2> QED BY <1>3, <2>1, <2>2
<1> QED BY <1>6 DEF TabsNest

\* Tabs go with all that is nested in them, so what stays is nested in what stays.
LEMMA TheRestNests ==
  ASSUME DocShape, TabsNest, NEW id \in DocIds(doc_tabs), doc_tabs' \in Without(doc_tabs, id)
  PROVE  TabsNest'
<1>1. PICK n \in Nat : n = Len(doc_tabs) /\ DOMAIN doc_tabs = 1 .. n BY DEF DocShape
<1>2. Forest(doc_tabs, last_tab) BY TheTabsAreAForest
<1>3. PICK X : X = Nested(doc_tabs, id) OBVIOUS
<1>4. \A k \in 1 .. n : doc_tabs[k].parent # 0 /\ doc_tabs[k].parent \in X => doc_tabs[k].id \in X
  <2>1. PICK U : IsUnder(doc_tabs, U) BY <1>2, UnderExists
  <2>2. X = Branch(U, id) BY <1>2, <1>3, <2>1, NestedIsBranch
  <2>3. \A k \in 1 .. Len(doc_tabs) :
          doc_tabs[k].id \in Branch(U, id) <=>
            doc_tabs[k].id = id \/ (doc_tabs[k].parent # 0 /\ doc_tabs[k].parent \in Branch(U, id))
    BY <1>2, <2>1, BranchByParent
  <2> QED BY <1>1, <2>2, <2>3
<1>5. PICK left : left = {i \in DOMAIN doc_tabs : doc_tabs[i].id \notin X} OBVIOUS
<1>6. IsFiniteSet(left)
  <2>1. \A k \in Nat : IsFiniteSet(1 .. k) BY FS_Interval
  <2>2. left \subseteq 1 .. n BY <1>1, <1>5
  <2> QED BY <2>1, <2>2, FS_Subset
<1>7. PICK m \in Nat : m = Cardinality(left) BY <1>6, FS_CardinalityType
<1>8. PICK order \in [1 .. m -> left] :
        /\ \A j, k \in DOMAIN order : j < k => order[j] < order[k]
        /\ doc_tabs' = [k \in DOMAIN order |-> doc_tabs[order[k]]]
  BY <1>3, <1>5, <1>7 DEF Without
<1>9. \A i \in left : \E k \in 1 .. m : order[k] = i
  <2>1. \A j, k \in 1 .. m : order[j] = order[k] => j = k
    <3>1. \A j \in 1 .. m : order[j] \in 1 .. n BY <1>1, <1>5, <1>8
    <3>2. \A j, k \in 1 .. m : j < k => order[j] < order[k] BY <1>8
    <3> QED BY <3>1, <3>2
  <2>2. order \in Injection(1 .. m, left) BY <1>8, <2>1 DEF Injection, IsInjective
  <2>3. IsFiniteSet(1 .. m) /\ Cardinality(1 .. m) = m
    <3>1. \A k \in Nat : IsFiniteSet(1 .. k) /\ Cardinality(1 .. k) = k BY FS_Interval, FS_CountingElements
    <3> QED BY <3>1
  <2>4. order \in Surjection(1 .. m, left) BY <1>6, <1>7, <2>2, <2>3, FS_Injection
  <2> QED BY <2>4 DEF Surjection
<1>10. DOMAIN doc_tabs' = 1 .. m /\ \A k \in 1 .. m : order[k] \in left /\ doc_tabs'[k] = doc_tabs[order[k]]
  BY <1>8
<1>11. ASSUME NEW k \in 1 .. m
       PROVE  \/ doc_tabs'[k].parent = 0
              \/ doc_tabs'[k].parent < doc_tabs'[k].id /\ doc_tabs'[k].parent \in DocIds(doc_tabs')
  <2>1. PICK i \in 1 .. n : i = order[k] /\ doc_tabs'[k] = doc_tabs[i] /\ doc_tabs[i].id \notin X
    BY <1>1, <1>5, <1>10
  <2>2. CASE doc_tabs[i].parent = 0 BY <2>1, <2>2
  <2>3. CASE doc_tabs[i].parent # 0
    <3>1. doc_tabs[i].parent < doc_tabs[i].id /\ doc_tabs[i].parent \in DocIds(doc_tabs)
      BY <1>1, <2>3 DEF TabsNest
    <3>2. doc_tabs[i].parent \notin X BY <1>4, <2>1, <2>3
    <3>3. PICK a \in 1 .. n : doc_tabs[a].id = doc_tabs[i].parent BY <1>1, <3>1 DEF DocIds
    <3>4. a \in left BY <1>1, <1>5, <3>2, <3>3
    <3>5. PICK b \in 1 .. m : order[b] = a BY <1>9, <3>4
    <3>6. doc_tabs'[b].id = doc_tabs[i].parent BY <1>10, <3>3, <3>5
    <3>7. doc_tabs[i].parent \in DocIds(doc_tabs') BY <1>10, <3>6 DEF DocIds
    <3> QED BY <2>1, <3>1, <3>7
  <2> QED BY <2>2, <2>3
<1> QED BY <1>10, <1>11 DEF TabsNest

-----------------------------------------------------------------------------
(* The write under way. *)

WriteFits == WriteShape /\ AppendFits /\ ReplaceFits

LEMMA QuietFits == ASSUME write' = Quiet PROVE WriteFits'
<1>1. write' \in WriteOf
  <2>1. Quiet \in WriteOf BY DEF Quiet, WriteOf
  <2> QED BY <2>1
<1>2. write'.at = "idle" /\ write'.op = "none" BY DEF Quiet
<1> QED BY <1>1, <1>2 DEF WriteFits, WriteShape, AppendFits, ReplaceFits

\* What a write knows survives any change made while none is under way, and is not
\* relied on after somebody has come in between.
LEMMA KnowsNoMore ==
  ASSUME WriteFits, write' = write, write.at = "idle" \/ meddled'.since
  PROVE  WriteFits'
<1>1. WriteShape' BY DEF WriteFits, WriteShape
<1>2. AppendFits' BY DEF WriteFits, AppendFits
<1>3. ReplaceFits' BY DEF WriteFits, ReplaceFits
<1> QED BY <1>1, <1>2, <1>3 DEF WriteFits

LEMMA StartsFit == DocInit => DocInv
<1> SUFFICES ASSUME DocInit PROVE DocInv OBVIOUS
<1>1. write \in WriteOf /\ write.at = "idle" /\ write.op = "none" BY DEF DocInit, Quiet, WriteOf
<1>2. WriteShape /\ AppendFits /\ ReplaceFits
  BY <1>1 DEF WriteShape, AppendFits, ReplaceFits
<1>3. PICK t : t = [id |-> 1, parent |-> 0, text |-> <<>>] OBVIOUS
<1>4. t \in DocTab /\ t.id = 1 BY <1>3 DEF DocTab
<1>5. doc_tabs = <<t>> /\ last_tab = 1 BY <1>3 DEF DocInit
<1>6. doc_tabs \in Seq(DocTab) /\ DOMAIN doc_tabs = {1} /\ doc_tabs[1] = t BY <1>4, <1>5
<1>7. DocShape BY <1>4, <1>5, <1>6 DEF DocShape
<1> QED BY <1>2, <1>7 DEF DocInv

\* A write begins: what it knows is what its caller said, and the document as it is.
LEMMA BeginFits ==
  ASSUME DocInv, NEW next \in WriteOf, Begin(next), next.at \in {"read", "send"},
         next.op # "delete" => next.piece \in Pieces,
         next.at = "read" <=> next.op = "append",
         next.op = "replace" => next.target = next.asked /\ next.before = doc_tabs
  PROVE  DocInv'
<1>1. write' = next /\ doc_tabs' = doc_tabs /\ last_tab' = last_tab BY DEF Begin
<1>2. DocShape' BY <1>1 DEF DocInv, DocShape
<1>3. WriteShape' BY <1>1 DEF WriteShape
<1>4. AppendFits' BY <1>1 DEF AppendFits
<1>5. ReplaceFits' BY <1>1 DEF ReplaceFits
<1> QED BY <1>2, <1>3, <1>4, <1>5 DEF DocInv

LEMMA WritesBegin ==
  ASSUME DocInv, NEW piece, NEW tab \in DocIds(doc_tabs) \cup {0}, NEW s \in Nat, NEW e \in Nat,
         \/ delete_range(s, e, tab)
         \/ /\ piece \in Pieces
            /\ \/ append_text(piece, tab) \/ insert_text(piece, s, tab)
               \/ ReplaceRange(piece, s, e, tab)
  PROVE  DocInv'
<1>1. tab \in Nat
  <2>1. \A i \in DOMAIN doc_tabs : doc_tabs[i] \in DocTab BY DEF DocInv, DocShape
  <2> QED BY <2>1 DEF DocIds, DocTab
<1>2. doc_tabs \in Seq(DocTab) BY DEF DocInv, DocShape
<1>3. Quiet \in WriteOf BY DEF Quiet, WriteOf
<1>4. CASE piece \in Pieces /\ append_text(piece, tab)
  <2>1. PICK next : next = [Quiet EXCEPT !.at = "read", !.op = "append", !.asked = tab, !.piece = piece] OBVIOUS
  <2>2. next \in WriteOf /\ next.at = "read" /\ next.op = "append" /\ next.piece = piece
    BY <1>1, <1>3, <1>4, <2>1 DEF WriteOf
  <2>3. Begin(next) BY <1>4, <2>1 DEF append_text
  <2> QED BY <1>4, <2>2, <2>3, BeginFits
<1>5. CASE piece \in Pieces /\ insert_text(piece, s, tab)
  <2>1. PICK next : next = [Quiet EXCEPT !.at = "send", !.op = "insert", !.asked = tab, !.target = tab,
                                         !.index = s, !.piece = piece] OBVIOUS
  <2>2. next \in WriteOf /\ next.at = "send" /\ next.op = "insert" /\ next.piece = piece
    BY <1>1, <1>3, <1>5, <2>1 DEF WriteOf
  <2>3. Begin(next) BY <1>5, <2>1 DEF insert_text
  <2> QED BY <1>5, <2>2, <2>3, BeginFits
<1>6. CASE delete_range(s, e, tab)
  <2>1. PICK next : next = [Quiet EXCEPT !.at = "send", !.op = "delete", !.asked = tab, !.target = tab,
                                         !.index = s, !.until = e] OBVIOUS
  <2>2. next \in WriteOf /\ next.at = "send" /\ next.op = "delete"
    BY <1>1, <1>3, <2>1 DEF WriteOf
  <2>3. Begin(next) BY <1>6, <2>1 DEF delete_range
  <2> QED BY <2>2, <2>3, BeginFits
<1>7. CASE piece \in Pieces /\ ReplaceRange(piece, s, e, tab)
  <2>1. PICK next : next = [Quiet EXCEPT !.at = "send", !.op = "replace", !.asked = tab, !.target = tab,
                                         !.index = s, !.until = e, !.piece = piece, !.before = doc_tabs]
    OBVIOUS
  <2>2. /\ next \in WriteOf /\ next.at = "send" /\ next.op = "replace" /\ next.piece = piece
        /\ next.target = tab /\ next.asked = tab /\ next.before = doc_tabs
    BY <1>1, <1>2, <1>3, <1>7, <2>1 DEF WriteOf
  <2>3. Begin(next) BY <1>7, <2>1 DEF ReplaceRange
  <2> QED BY <1>7, <2>2, <2>3, BeginFits
<1> QED BY <1>4, <1>5, <1>6, <1>7

\* Where an append goes: a reading that covers every tab as it is says where its text
\* ends.
LEMMA ReadEndsFits ==
  ASSUME DocInv, ReadsEveryTab, ReadEnds
  PROVE  DocInv'
<1>1. PICK w : w = walk(doc_tabs) OBVIOUS
<1>2. \A k \in DOMAIN w : \E i \in DOMAIN doc_tabs : w[k] = doc_tabs[i]
  <2>1. {w[k] : k \in DOMAIN w} = {doc_tabs[i] : i \in DOMAIN doc_tabs}
    BY <1>1 DEF ReadsEveryTab, ToSet
  <2> QED BY <2>1
<1>3. PICK ends : ends = [k \in DOMAIN w |-> [id |-> w[k].id, end |-> end_of(w[k].text)]] OBVIOUS
<1>4. ends = doc_tab_end_indices(doc_tabs) BY <1>1, <1>3 DEF doc_tab_end_indices
<1>5. PICK match : match = {k \in DOMAIN ends : write.asked = ends[k].id
                                                \/ (write.asked = 0 /\ Len(ends) = 1)} OBVIOUS
<1>6. DocShape' /\ doc_tabs' = doc_tabs BY DEF ReadEnds, DocInv, DocShape
<1>7. CASE match = {}
  <2>1. write' = Quiet BY <1>4, <1>5, <1>7 DEF ReadEnds
  <2> QED BY <1>6, <2>1, QuietFits DEF DocInv, WriteFits
<1>8. CASE match # {}
  <2>1. PICK k : k = CHOOSE j \in match : TRUE OBVIOUS
  <2>2. k \in match BY <1>8, <2>1
  <2>3. PICK i \in DOMAIN doc_tabs : w[k] = doc_tabs[i] BY <1>2, <1>3, <1>5, <2>2
  <2>4. doc_tabs[i] \in DocTab BY DEF DocInv, DocShape
  <2>5. PICK end : end = ends[k] OBVIOUS
  <2>6. end.id = doc_tabs[i].id /\ end.end = Len(doc_tabs[i].text) + 2
    BY <1>3, <1>5, <2>2, <2>3, <2>5 DEF end_of
  <2>7. Len(doc_tabs[i].text) \in Nat /\ end.id \in Nat \ {0} BY <2>4, <2>6 DEF DocTab
  <2>8. index_to_append_at(end) = Len(doc_tabs[i].text) + 1
    BY <2>6, <2>7 DEF index_to_append_at
  <2>9. write' = [write EXCEPT !.at = "send", !.target = end.id,
                               !.index = Len(doc_tabs[i].text) + 1, !.only = end.id]
    BY <1>4, <1>5, <1>8, <2>1, <2>5, <2>8 DEF ReadEnds, tab_to_append_to
  <2>10. write.at = "read" /\ write \in WriteOf /\ write.op = "append" /\ write.piece \in Pieces
    BY DEF ReadEnds, DocInv, WriteShape
  <2>11. PICK l \in Nat, x \in Nat, was \in WriteOf :
           l = Len(doc_tabs[i].text) + 1 /\ x = end.id /\ was = write
    BY <2>7, <2>10
  <2>12. write' = [was EXCEPT !.at = "send", !.target = x, !.index = l, !.only = x] BY <2>9, <2>11
  <2>13. /\ write' \in WriteOf /\ write'.at = "send" /\ write'.op = "append" /\ write'.piece \in Pieces
         /\ write'.target = end.id /\ write'.only = end.id /\ write'.asked = write.asked
         /\ write'.index = Len(doc_tabs[i].text) + 1
    BY <2>10, <2>11, <2>12 DEF WriteOf
  <2>14. write.asked \in {0, end.id} BY <1>5, <2>2, <2>5
  <2>15. WriteShape' BY <2>13 DEF WriteShape
  <2>16. AppendFits' BY <1>6, <2>3, <2>6, <2>7, <2>13, <2>14 DEF AppendFits
  <2>17. ReplaceFits' BY <2>13 DEF ReplaceFits
  <2> QED BY <1>6, <2>15, <2>16, <2>17 DEF DocInv
<1> QED BY <1>7, <1>8

LEMMA SendInsertFits ==
  ASSUME DocInv, SendInsert
  PROVE  DocInv'
<1>1. write.piece \in Pieces BY DEF DocInv, WriteShape, SendInsert
<1>2. DocShape' BY <1>1, Inserted DEF SendInsert, DocInv
<1> QED BY <1>2, QuietFits DEF SendInsert, DocInv, WriteFits

LEMMA SendDeleteRangeFits ==
  ASSUME DocInv, SendDeleteRange
  PROVE  DocInv'
<1>1. DocShape' /\ \E i \in DOMAIN doc_tabs :
        /\ doc_tabs[i].id = addressed(write.target)
        /\ write.index \in 1 .. Len(doc_tabs[i].text) + 1 /\ write.until \in 1 .. Len(doc_tabs[i].text) + 1
        /\ Rewritten(i, Cut(doc_tabs[i].text, write.index, write.until))
  BY Deleted DEF SendDeleteRange, DocInv
<1>2. CASE write' = Quiet BY <1>1, <1>2, QuietFits DEF DocInv, WriteFits
<1>3. CASE write.op = "replace" /\ write' = [write EXCEPT !.at = "insert"]
  <2>1. write \in WriteOf /\ write.at = "send" /\ write.piece \in Pieces
    BY <1>3 DEF SendDeleteRange, DocInv, WriteShape
  <2>2. /\ write' \in WriteOf /\ write'.at = "insert" /\ write'.op = "replace" /\ write'.piece = write.piece
        /\ write'.target = write.target /\ write'.asked = write.asked /\ write'.before = write.before
        /\ write'.index = write.index /\ write'.until = write.until
    BY <1>3, <2>1 DEF WriteOf
  <2>3. WriteShape' BY <2>1, <2>2 DEF WriteShape
  <2>4. AppendFits' BY <2>2 DEF AppendFits
  <2>5. write.target = write.asked /\ meddled' = meddled BY <1>3 DEF DocInv, ReplaceFits, SendDeleteRange
  <2>6. ASSUME ~meddled.since, write.asked # 0
        PROVE  /\ DOMAIN doc_tabs' = DOMAIN write.before
               /\ \E i \in DOMAIN write.before :
                    /\ write.before[i].id = write.asked
                    /\ write.index \in 1 .. Len(write.before[i].text) + 1
                    /\ write.until \in 1 .. Len(write.before[i].text) + 1
                    /\ doc_tabs'[i] = [write.before[i] EXCEPT !.text = Cut(@, write.index, write.until)]
                    /\ \A j \in DOMAIN write.before \ {i} :
                         doc_tabs'[j] = write.before[j] /\ doc_tabs'[j].id # write.asked
    <3>1. write.before = doc_tabs BY <1>3, <2>1, <2>6 DEF DocInv, ReplaceFits
    <3>2. addressed(write.target) = write.asked BY <2>5, <2>6 DEF addressed
    <3>3. PICK i \in DOMAIN doc_tabs :
            /\ doc_tabs[i].id = write.asked
            /\ write.index \in 1 .. Len(doc_tabs[i].text) + 1 /\ write.until \in 1 .. Len(doc_tabs[i].text) + 1
            /\ Rewritten(i, Cut(doc_tabs[i].text, write.index, write.until))
      BY <1>1, <3>2
    <3>4. \A j \in DOMAIN doc_tabs \ {i} : doc_tabs[j].id # write.asked BY <3>3 DEF DocInv, DocShape
    <3>5. \A j \in DOMAIN doc_tabs \ {i} : doc_tabs'[j] = doc_tabs[j] BY <3>3 DEF Rewritten
    <3>6. /\ DOMAIN doc_tabs' = DOMAIN doc_tabs
          /\ doc_tabs'[i] = [doc_tabs[i] EXCEPT !.text = Cut(@, write.index, write.until)]
      BY <3>3 DEF Rewritten
    <3> QED BY <3>1, <3>3, <3>4, <3>5, <3>6
  <2>7. ReplaceFits' BY <2>2, <2>5, <2>6 DEF ReplaceFits
  <2> QED BY <1>1, <2>3, <2>4, <2>7 DEF DocInv
<1> QED BY <1>2, <1>3 DEF SendDeleteRange

LEMMA SendReplacementFits ==
  ASSUME DocInv, SendReplacement
  PROVE  DocInv'
<1>1. write.piece \in Pieces BY DEF DocInv, WriteShape, SendReplacement
<1>2. DocShape' BY <1>1, Inserted DEF SendReplacement, DocInv, location
<1> QED BY <1>2, QuietFits DEF SendReplacement, DocInv, WriteFits

LEMMA ReplaceTextFits ==
  ASSUME DocInv, NEW find, NEW replacement \in Pieces, replace_text(find, replacement)
  PROVE  DocInv'
<1>1. PICK n \in Nat : DOMAIN doc_tabs = 1 .. n BY DEF DocInv, DocShape
<1>2. PICK text : text = [i \in DOMAIN doc_tabs |->
                            [k \in DOMAIN doc_tabs[i].text |->
                               IF doc_tabs[i].text[k] = find THEN replacement ELSE doc_tabs[i].text[k]]]
  OBVIOUS
<1>3. ASSUME NEW i \in DOMAIN doc_tabs PROVE text[i] \in Seq(Pieces)
  <2>1. doc_tabs[i] \in DocTab BY DEF DocInv, DocShape
  <2>2. PICK old \in Seq(Pieces) : old = doc_tabs[i].text BY <2>1 DEF DocTab
  <2>3. PICK m \in Nat : DOMAIN old = 1 .. m /\ m = Len(old) BY <2>2
  <2>4. \A k \in 1 .. m : old[k] \in Pieces BY <2>3
  <2>5. text[i] = [k \in 1 .. m |-> IF old[k] = find THEN replacement ELSE old[k]] BY <1>2, <2>2, <2>3
  <2>6. text[i] \in [1 .. m -> Pieces] BY <2>4, <2>5
  <2> QED BY <2>6
<1>4. doc_tabs' = [i \in DOMAIN doc_tabs |-> [doc_tabs[i] EXCEPT !.text = text[i]]]
  BY <1>2 DEF replace_text
<1>5. \A i \in DOMAIN doc_tabs : doc_tabs[i] \in DocTab BY DEF DocInv, DocShape
<1>6. \A i \in DOMAIN doc_tabs : doc_tabs'[i] \in DocTab /\ doc_tabs'[i].id = doc_tabs[i].id
  BY <1>3, <1>4, <1>5 DEF DocTab
<1>7. doc_tabs' \in [1 .. n -> DocTab] BY <1>1, <1>4, <1>6
<1>8. doc_tabs' \in Seq(DocTab) /\ DOMAIN doc_tabs' = DOMAIN doc_tabs BY <1>1, <1>7
<1>9. DocShape'
  <2>1. last_tab' = last_tab BY DEF replace_text
  <2>2. DocShape BY DEF DocInv
  <2>3. \A i \in DOMAIN doc_tabs' : doc_tabs'[i].id = doc_tabs[i].id /\ i \in DOMAIN doc_tabs
    BY <1>6, <1>8
  <2> QED BY <1>8, <2>1, <2>2, <2>3 DEF DocShape
<1> QED BY <1>9, KnowsNoMore DEF DocInv, WriteFits, replace_text

LEMMA TabsComeAndGo ==
  ASSUME DocInv, NEW id, NEW parent \in DocIds(doc_tabs) \cup {0},
         add_tab \/ delete_tab(id) \/ TheyDeleteDocTab(id) \/ TheyAddDocTab(parent)
  PROVE  DocInv'
<1>1. \A p \in DocIds(doc_tabs) \cup {0} : p \in Nat
  <2>1. \A i \in DOMAIN doc_tabs : doc_tabs[i] \in DocTab BY DEF DocInv, DocShape
  <2> QED BY <2>1 DEF DocIds, DocTab
<1>2. last_tab \in Nat BY DEF DocInv, DocShape
<1>3. ASSUME NEW p \in DocIds(doc_tabs) \cup {0}, last_tab' = last_tab + 1,
             \/ doc_tabs' = Append(doc_tabs, [id |-> last_tab + 1, parent |-> p, text |-> <<>>])
             \/ doc_tabs' = <<[id |-> last_tab + 1, parent |-> p, text |-> <<>>]>> \o doc_tabs
      PROVE  DocShape'
  <2>1. PICK new : new = [id |-> last_tab + 1, parent |-> p, text |-> <<>>] OBVIOUS
  <2>2. new \in DocTab /\ new.id = last_tab + 1 BY <1>1, <1>2, <2>1 DEF DocTab
  <2> QED BY <1>3, <2>1, <2>2, DocTabComes DEF DocInv
<1>4. CASE add_tab
  <2>1. DocShape' BY <1>3, <1>4 DEF add_tab
  <2> QED BY <1>4, <2>1, KnowsNoMore DEF DocInv, WriteFits, add_tab
<1>5. CASE delete_tab(id)
  <2>1. DocShape' BY <1>5, TabsGo DEF delete_tab, DocInv
  <2> QED BY <1>5, <2>1, KnowsNoMore DEF DocInv, WriteFits, delete_tab
<1>6. CASE TheyDeleteDocTab(id)
  <2>1. DocShape' BY <1>6, TabsGo DEF TheyDeleteDocTab, DocInv
  <2>2. write' = write /\ meddled'.since BY <1>6 DEF TheyDeleteDocTab, Meddle
  <2> QED BY <2>1, <2>2, KnowsNoMore DEF DocInv, WriteFits
<1>7. CASE TheyAddDocTab(parent)
  <2>1. DocShape' BY <1>3, <1>7 DEF TheyAddDocTab
  <2>2. write' = write /\ meddled'.since BY <1>7 DEF TheyAddDocTab, Meddle
  <2> QED BY <2>1, <2>2, KnowsNoMore DEF DocInv, WriteFits
<1> QED BY <1>4, <1>5, <1>6, <1>7

LEMMA TheyTypeFits ==
  ASSUME DocInv, NEW id, NEW index, NEW piece \in Pieces, TheyType(id, index, piece)
  PROVE  DocInv'
<1>1. DocShape' BY Inserted DEF TheyType, DocInv
<1>2. write' = write /\ meddled'.since BY DEF TheyType, Meddle
<1> QED BY <1>1, <1>2, KnowsNoMore DEF DocInv, WriteFits

LEMMA DocStep ==
  ASSUME DocInv, ReadsEveryTab, [DocNext]_docVars
  PROVE  DocInv'
<1>1. MaxText \in Nat BY DocAssumption
<1>2. CASE UNCHANGED docVars
  BY <1>2 DEF docVars, DocInv, DocShape, WriteShape, AppendFits, ReplaceFits
<1>3. CASE WriteStep
  <2>1. CASE Refused
    <3>1. DocShape' BY <2>1 DEF Refused, DocInv, DocShape
    <3> QED BY <2>1, <3>1, QuietFits DEF Refused, DocInv, WriteFits
  <2> QED BY <1>3, <2>1, ReadEndsFits, SendInsertFits, SendDeleteRangeFits, SendReplacementFits DEF WriteStep
<1>4. ASSUME NEW tab \in DocIds(doc_tabs) \cup {0}, NEW s \in 1 .. MaxText + 1, NEW e \in 1 .. MaxText + 1,
             delete_range(s, e, tab)
      PROVE  DocInv'
  BY <1>1, <1>4, WritesBegin
<1> QED
  BY <1>1, <1>2, <1>3, <1>4, WritesBegin, ReplaceTextFits, TabsComeAndGo, TheyTypeFits DEF DocNext

\* Every step keeps the nesting.
LEMMA NestingStep ==
  ASSUME DocInv, TabsNest, [DocNext]_docVars
  PROVE  TabsNest'
<1>1. DocShape BY DEF DocInv
<1>2. CASE doc_tabs' = doc_tabs BY <1>2, NestingStays
<1>3. CASE WriteStep
  <2>1. CASE SendInsert
    <3>1. write.piece \in Pieces BY <2>1 DEF DocInv, WriteShape, SendInsert
    <3>2. \E i \in DOMAIN doc_tabs : Rewritten(i, Put(doc_tabs[i].text, write.index, write.piece))
      BY <1>1, <2>1, <3>1, Inserted DEF SendInsert
    <3> QED BY <1>1, <3>2, RewritingNests
  <2>2. CASE SendDeleteRange
    <3>1. \E i \in DOMAIN doc_tabs : Rewritten(i, Cut(doc_tabs[i].text, write.index, write.until))
      BY <1>1, <2>2, Deleted DEF SendDeleteRange
    <3> QED BY <1>1, <3>1, RewritingNests
  <2>3. CASE SendReplacement
    <3>1. write.piece \in Pieces BY <2>3 DEF DocInv, WriteShape, SendReplacement
    <3>2. \E i \in DOMAIN doc_tabs : Rewritten(i, Put(doc_tabs[i].text, write.index, write.piece))
      BY <1>1, <2>3, <3>1, Inserted DEF SendReplacement, location
    <3> QED BY <1>1, <3>2, RewritingNests
  <2>4. CASE ReadEnds \/ Refused BY <1>2, <2>4 DEF ReadEnds, Refused
  <2> QED BY <1>3, <2>1, <2>2, <2>3, <2>4 DEF WriteStep
<1>4. ASSUME NEW find, NEW replacement \in Pieces, replace_text(find, replacement)
      PROVE  TabsNest'
  <2>1. PICK f : f = [i \in DOMAIN doc_tabs |->
          [k \in DOMAIN doc_tabs[i].text |->
             IF doc_tabs[i].text[k] = find THEN replacement ELSE doc_tabs[i].text[k]]]
    OBVIOUS
  <2>2. doc_tabs' = [i \in DOMAIN doc_tabs |-> [doc_tabs[i] EXCEPT !.text = f[i]]]
    BY <1>4, <2>1 DEF replace_text
  <2>3. \A i \in DOMAIN doc_tabs : doc_tabs[i] \in DocTab BY <1>1 DEF DocShape
  <2>4. \A i \in DOMAIN doc_tabs : doc_tabs'[i].id = doc_tabs[i].id /\ doc_tabs'[i].parent = doc_tabs[i].parent
    BY <2>2, <2>3 DEF DocTab
  <2>5. DOMAIN doc_tabs' = DOMAIN doc_tabs BY <2>2
  <2> QED BY <2>4, <2>5, NestingStays
<1>5. ASSUME NEW p \in DocIds(doc_tabs) \cup {0},
             \/ doc_tabs' = Append(doc_tabs, [id |-> last_tab + 1, parent |-> p, text |-> <<>>])
             \/ doc_tabs' = <<[id |-> last_tab + 1, parent |-> p, text |-> <<>>]>> \o doc_tabs
      PROVE  TabsNest'
  <2>1. PICK new : new = [id |-> last_tab + 1, parent |-> p, text |-> <<>>] OBVIOUS
  <2>2. last_tab \in Nat /\ p \in Nat
    <3>1. \A i \in DOMAIN doc_tabs : doc_tabs[i] \in DocTab BY <1>1 DEF DocShape
    <3> QED BY <1>1, <3>1 DEF DocIds, DocTab, DocShape
  <2>3. new \in DocTab /\ new.id = last_tab + 1 /\ new.parent = p BY <2>1, <2>2 DEF DocTab
  <2> QED BY <1>1, <1>5, <2>1, <2>3, NewTabNests
<1>6. CASE add_tab BY <1>5, <1>6 DEF add_tab
<1>7. ASSUME NEW id \in DocIds(doc_tabs), delete_tab(id) \/ TheyDeleteDocTab(id) PROVE TabsNest'
  BY <1>1, <1>7, TheRestNests DEF delete_tab, TheyDeleteDocTab
<1>8. ASSUME NEW p \in DocIds(doc_tabs) \cup {0}, TheyAddDocTab(p) PROVE TabsNest'
  BY <1>5, <1>8 DEF TheyAddDocTab
<1>9. ASSUME NEW id, NEW index, NEW piece \in Pieces, TheyType(id, index, piece) PROVE TabsNest'
  <2>1. \E i \in DOMAIN doc_tabs : Rewritten(i, Put(doc_tabs[i].text, index, piece))
    BY <1>1, <1>9, Inserted DEF TheyType
  <2> QED BY <1>1, <2>1, RewritingNests
<1>10. ASSUME NEW piece, NEW tab, NEW s, NEW e,
              \/ append_text(piece, tab) \/ insert_text(piece, s, tab)
              \/ ReplaceRange(piece, s, e, tab) \/ delete_range(s, e, tab)
       PROVE  TabsNest'
  BY <1>2, <1>10 DEF append_text, insert_text, ReplaceRange, delete_range, Begin
<1>11. CASE UNCHANGED docVars BY <1>2, <1>11 DEF docVars
<1> QED BY <1>3, <1>4, <1>6, <1>7, <1>8, <1>9, <1>10, <1>11 DEF DocNext

\* What holds of a Doc and the write under way at every step, the nesting included, for
\* it is what makes a reading whole and so an append go where it should.
LEMMA DocInvariant == DocSpec => [](DocInv /\ TabsNest)
<1>1. DocInit => DocInv /\ TabsNest
  <2>1. DocInit => TabsNest BY DEF DocInit, TabsNest
  <2> QED BY <2>1, StartsFit
<1>2. DocInv /\ TabsNest => ReadsEveryTab BY TheTabsAreAForest, ReadingIsWhole DEF DocInv
<1>3. DocInv /\ TabsNest /\ [DocNext]_docVars => (DocInv /\ TabsNest)'
  BY <1>2, DocStep, NestingStep
<1> QED BY <1>1, <1>3, PTL DEF DocSpec

\* However tabs were added, nested and deleted, by whomever and however many, a reading
\* covers every tab once, a tab is followed by all that is nested in it, and siblings
\* keep their order (_content.py:50-62, 103-112; doc.py:166-177).
THEOREM EveryTabIsRead == DocSpec => []ReadsEveryTab
<1>1. DocInv /\ TabsNest => ReadsEveryTab BY TheTabsAreAForest, ReadingIsWhole DEF DocInv
<1> QED BY <1>1, DocInvariant, PTL

-----------------------------------------------------------------------------
(* Where the text lands. *)

\* The writes that put a piece into the document and end.
LEMMA OnlyTheseWrite ==
  ASSUME DocInv, [DocNext]_docVars, write.at \in {"send", "insert"}, write'.at = "idle",
         doc_tabs' # doc_tabs
  PROVE  SendInsert \/ SendDeleteRange \/ SendReplacement
<1>1. write' # write
  <2>1. write'.at # write.at OBVIOUS
  <2> QED BY <2>1
<1>2. ~UNCHANGED docVars BY <1>1 DEF docVars
<1>3. write.at # "idle" /\ write.at # "read" OBVIOUS
<1>4. /\ \A p, t : ~append_text(p, t)
      /\ \A p, t, s : ~insert_text(p, s, t)
      /\ \A t, s, e : ~delete_range(s, e, t)
      /\ \A p, t, s, e : ~ReplaceRange(p, s, e, t)
  BY <1>3 DEF append_text, insert_text, delete_range, ReplaceRange, Begin
<1>5. ~ReadEnds /\ ~Refused BY <1>3 DEF ReadEnds, Refused
<1>6. /\ \A f, r : ~replace_text(f, r)
      /\ ~add_tab
      /\ \A t : ~delete_tab(t) /\ ~TheyDeleteDocTab(t) /\ ~TheyAddDocTab(t)
      /\ \A t, s, p : ~TheyType(t, s, p)
  BY <1>1, <1>3 DEF replace_text, add_tab, delete_tab, TheyDeleteDocTab, TheyAddDocTab, TheyType, Meddle
<1> QED BY <1>2, <1>4, <1>5, <1>6 DEF DocNext, WriteStep

\* When one tab is rewritten, a document that agrees with the old one in the other
\* tabs agrees with the new one there.
LEMMA TheRestStays ==
  ASSUME NEW ts, NEW us, NEW id, NEW i \in DOMAIN ts, DOMAIN us = DOMAIN ts,
         ts[i].id = id, us[i].id = id, \A j \in DOMAIN ts \ {i} : us[j] = ts[j]
  PROVE  Others(ts, us, id)
<1>1. \A t : (\E j \in DOMAIN ts : t = ts[j]) /\ t.id # id => \E j \in DOMAIN us : t = us[j]
  <2> SUFFICES ASSUME NEW j \in DOMAIN ts, ts[j].id # id PROVE \E k \in DOMAIN us : ts[j] = us[k]
    OBVIOUS
  <2>1. j # i OBVIOUS
  <2> QED BY <2>1
<1>2. \A t : (\E j \in DOMAIN us : t = us[j]) /\ t.id # id => \E j \in DOMAIN ts : t = ts[j]
  <2> SUFFICES ASSUME NEW j \in DOMAIN us, us[j].id # id PROVE \E k \in DOMAIN ts : us[j] = ts[k]
    OBVIOUS
  <2>1. j # i OBVIOUS
  <2> QED BY <2>1
<1> QED BY <1>1, <1>2 DEF Others

\* What an append changes, and how.
LEMMA AppendLands ==
  ASSUME DocInv, DocInv', [DocNext]_docVars, Appends
  PROVE  /\ ~meddled.since =>
              TabOf(doc_tabs', write.only).text = TabOf(doc_tabs, write.only).text \o <<write.piece>>
         /\ Others(doc_tabs, doc_tabs', write.only) /\ write.asked \in {0, write.only}
<1>1. SendInsert
  <2>1. ~SendDeleteRange /\ ~SendReplacement BY DEF Appends, SendDeleteRange, SendReplacement
  <2> QED BY <2>1, OnlyTheseWrite DEF Appends
<1>2. /\ write.only # 0 /\ write.target = write.only /\ write.asked \in {0, write.only}
      /\ ~meddled.since => \E i \in DOMAIN doc_tabs :
           doc_tabs[i].id = write.only /\ write.index = Len(doc_tabs[i].text) + 1
  BY DEF Appends, DocInv, AppendFits
<1>3. write.piece \in Pieces BY <1>1 DEF SendInsert, DocInv, WriteShape
<1>4. addressed(write.target) = write.only BY <1>2 DEF addressed
<1>5. PICK i \in DOMAIN doc_tabs :
        /\ doc_tabs[i].id = write.only
        /\ Rewritten(i, Put(doc_tabs[i].text, write.index, write.piece))
  BY <1>1, <1>3, <1>4, Inserted DEF SendInsert, DocInv
<1>6. doc_tabs[i] \in DocTab BY DEF DocInv, DocShape
<1>7. PICK text \in Seq(Pieces) : text = doc_tabs[i].text BY <1>6 DEF DocTab
<1>8. doc_tabs'[i].id = write.only /\ doc_tabs'[i].text = Put(text, write.index, write.piece)
  BY <1>5, <1>6, <1>7 DEF Rewritten, DocTab
<1>9. Others(doc_tabs, doc_tabs', write.only)
  <2>1. DOMAIN doc_tabs' = DOMAIN doc_tabs /\ \A j \in DOMAIN doc_tabs \ {i} : doc_tabs'[j] = doc_tabs[j]
    BY <1>5 DEF Rewritten
  <2> QED BY <1>5, <1>8, <2>1, TheRestStays
<1>10. ASSUME ~meddled.since
       PROVE  TabOf(doc_tabs', write.only).text = TabOf(doc_tabs, write.only).text \o <<write.piece>>
  <2>1. write.index = Len(text) + 1 BY <1>2, <1>5, <1>7, <1>10 DEF DocInv, DocShape
  <2>2. TabOf(doc_tabs, doc_tabs[i].id) = doc_tabs[i] BY OnlyTab DEF DocInv, DocShape
  <2>3. TabOf(doc_tabs', doc_tabs'[i].id) = doc_tabs'[i]
    <3>1. i \in DOMAIN doc_tabs' BY <1>5 DEF Rewritten
    <3>2. \A j, k \in DOMAIN doc_tabs' : doc_tabs'[j].id = doc_tabs'[k].id => j = k BY DEF DocInv, DocShape
    <3> QED BY <3>1, <3>2, OnlyTab
  <2>4. Put(text, Len(text) + 1, write.piece) = text \o <<write.piece>>
    <3>1. PICK n \in Nat : n = Len(text) OBVIOUS
    <3>2. SubSeq(text, 1, n + 1 - 1) = text BY <3>1
    <3>3. SubSeq(text, n + 1, n) = <<>> BY <3>1
    <3>4. PICK more \in Seq(Pieces) : more = text \o <<write.piece>>
      <4>1. <<write.piece>> \in Seq(Pieces) BY <1>3
      <4> QED BY <4>1, ConcatProperties
    <3>5. more \o <<>> = more BY <3>4
    <3>6. Put(text, n + 1, write.piece)
            = SubSeq(text, 1, n + 1 - 1) \o <<write.piece>> \o SubSeq(text, n + 1, n)
      BY <3>1 DEF Put
    <3>7. Put(text, n + 1, write.piece) = more \o <<>> BY <3>2, <3>3, <3>4, <3>6, Zenon
    <3> QED BY <3>1, <3>4, <3>5, <3>7, Zenon
  <2> QED BY <1>5, <1>7, <1>8, <2>1, <2>2, <2>3, <2>4
<1> QED BY <1>2, <1>9, <1>10

\* What the second half of a replacement leaves.
LEMMA ReplacementLands ==
  ASSUME DocInv, DocInv', [DocNext]_docVars, write.at = "insert", doc_tabs' # doc_tabs,
         write'.at = "idle", ~meddled.since, write.asked # 0
  PROVE  LET text == TabOf(write.before, write.asked).text
         IN  /\ Others(write.before, doc_tabs', write.asked)
             /\ TabOf(doc_tabs', write.asked).text =
                  SubSeq(text, 1, write.index - 1) \o <<write.piece>>
                  \o SubSeq(text, write.until, Len(text))
<1>1. SendReplacement
  <2>1. ~SendDeleteRange /\ ~SendInsert BY DEF SendDeleteRange, SendInsert
  <2> QED BY <2>1, OnlyTheseWrite
<1>2. write \in WriteOf /\ write.op = "replace" /\ write.piece \in Pieces BY DEF DocInv, WriteShape
<1>3. /\ write.target = write.asked /\ DOMAIN doc_tabs = DOMAIN write.before
      /\ \E i \in DOMAIN write.before :
           /\ write.before[i].id = write.asked
           /\ write.index \in 1 .. Len(write.before[i].text) + 1
           /\ write.until \in 1 .. Len(write.before[i].text) + 1
           /\ doc_tabs[i] = [write.before[i] EXCEPT !.text = Cut(@, write.index, write.until)]
           /\ \A j \in DOMAIN write.before \ {i} :
                doc_tabs[j] = write.before[j] /\ doc_tabs[j].id # write.asked
  BY <1>2 DEF DocInv, ReplaceFits
<1>4. PICK i \in DOMAIN write.before :
        /\ write.before[i].id = write.asked
        /\ write.index \in 1 .. Len(write.before[i].text) + 1
        /\ write.until \in 1 .. Len(write.before[i].text) + 1
        /\ doc_tabs[i] = [write.before[i] EXCEPT !.text = Cut(@, write.index, write.until)]
        /\ \A j \in DOMAIN write.before \ {i} :
             doc_tabs[j] = write.before[j] /\ doc_tabs[j].id # write.asked
  BY <1>3
<1>5. addressed(location(write.target)) = write.asked BY <1>3 DEF addressed, location
<1>6. PICK k \in DOMAIN doc_tabs :
        /\ doc_tabs[k].id = write.asked
        /\ Rewritten(k, Put(doc_tabs[k].text, write.index, write.piece))
  BY <1>1, <1>2, <1>5, Inserted DEF SendReplacement, DocInv
<1>7. k = i BY <1>3, <1>4, <1>6
<1>8. write.before[i] \in DocTab /\ doc_tabs[i] \in DocTab
  <2>1. write.before \in Seq(DocTab) BY <1>2 DEF WriteOf
  <2>2. doc_tabs \in Seq(DocTab) BY DEF DocInv, DocShape
  <2> QED BY <1>6, <1>7, <2>1, <2>2
<1>9. PICK text \in Seq(Pieces) : text = write.before[i].text BY <1>8 DEF DocTab
<1>10. PICK a \in Seq(Pieces), b \in Seq(Pieces) :
         a = SubSeq(text, 1, write.index - 1) /\ b = SubSeq(text, write.until, Len(text))
  BY <1>4, <1>9, CutText
<1>11. Len(a) = write.index - 1 /\ write.index \in Nat BY <1>4, <1>9, <1>10, CutText
<1>12. doc_tabs[i].text = a \o b BY <1>4, <1>8, <1>9, <1>10 DEF Cut, DocTab
<1>13. Put(doc_tabs[i].text, write.index, write.piece) = a \o <<write.piece>> \o b
  <2>1. PICK s \in Nat : s = write.index BY <1>11
  <2>2. SubSeq(a \o b, 1, s - 1) = a /\ SubSeq(a \o b, s, Len(a \o b)) = b
    BY <1>11, <2>1, FilledCut
  <2> QED BY <1>12, <2>1, <2>2, Zenon DEF Put
<1>14. doc_tabs'[i].id = write.asked /\ doc_tabs'[i].text = a \o <<write.piece>> \o b
  BY <1>6, <1>7, <1>8, <1>13 DEF Rewritten, DocTab
<1>15. TabOf(write.before, write.asked) = write.before[i]
  <2>1. \A j \in DOMAIN write.before : write.before[j].id = write.asked => j = i BY <1>4
  <2>2. (CHOOSE j \in DOMAIN write.before : write.before[j].id = write.asked) = i BY <1>4, <2>1
  <2> QED BY <2>2 DEF TabOf
<1>16. TabOf(doc_tabs', doc_tabs'[i].id) = doc_tabs'[i]
  <2>1. i \in DOMAIN doc_tabs' BY <1>6, <1>7 DEF Rewritten
  <2>2. \A j, l \in DOMAIN doc_tabs' : doc_tabs'[j].id = doc_tabs'[l].id => j = l BY DEF DocInv, DocShape
  <2> QED BY <2>1, <2>2, OnlyTab
<1>17. Others(write.before, doc_tabs', write.asked)
  <2>1. DOMAIN doc_tabs' = DOMAIN write.before BY <1>3, <1>6 DEF Rewritten
  <2>2. \A j \in DOMAIN write.before \ {i} : doc_tabs'[j] = write.before[j]
    BY <1>3, <1>4, <1>6, <1>7 DEF Rewritten
  <2> QED BY <1>4, <1>14, <2>1, <2>2, TheRestStays
<1> QED BY <1>9, <1>10, <1>14, <1>15, <1>16, <1>17

\* Text lands where the caller said, whatever the tabs and the people in them do, in a
\* document of any size: what is appended comes last in the tab that was named or was
\* the only one, and no other tab changes; what is replaced is replaced in the named
\* tab alone (documents/doc.py:64-144).
THEOREM TextLandsWhereSaid == DocSpec => LandsWhereSaid
<1>1. DocInv /\ DocInv' /\ [DocNext]_docVars =>
        [Appends /\ ~meddled.since =>
           TabOf(doc_tabs', write.only).text = TabOf(doc_tabs, write.only).text \o <<write.piece>>]_docVars
  BY AppendLands
<1>2. DocInv /\ DocInv' /\ [DocNext]_docVars =>
        [Appends => Others(doc_tabs, doc_tabs', write.only) /\ write.asked \in {0, write.only}]_docVars
  BY AppendLands
<1>3. DocInv /\ DocInv' /\ [DocNext]_docVars =>
        [write.at = "insert" /\ doc_tabs' # doc_tabs /\ write'.at = "idle" /\ ~meddled.since
           /\ write.asked # 0 =>
           LET text == TabOf(write.before, write.asked).text
           IN  /\ Others(write.before, doc_tabs', write.asked)
               /\ TabOf(doc_tabs', write.asked).text =
                    SubSeq(text, 1, write.index - 1) \o <<write.piece>>
                    \o SubSeq(text, write.until, Len(text))]_docVars
  BY ReplacementLands
<1>4. DocSpec => AppendsAtTheEnd
  BY <1>1, DocInvariant, PTL DEF DocSpec, AppendsAtTheEnd
<1>5. DocSpec => AppendsNowhereElse
  BY <1>2, DocInvariant, PTL DEF DocSpec, AppendsNowhereElse
<1>6. DocSpec => ReplacesInOneTab
  BY <1>3, DocInvariant, PTL DEF DocSpec, ReplacesInOneTab
<1> QED BY <1>4, <1>5, <1>6 DEF LandsWhereSaid

-----------------------------------------------------------------------------
(* The bounds of the Doc. *)

\* No text is longer than m.
Within(ts, m) == \A i \in DOMAIN ts : Len(ts[i].text) <= m

\* A piece is put where there was room when the write began, and what other people type
\* meanwhile leaves room for it; a span ends after it begins.
DocBounded ==
  /\ doc_tabs # <<>> /\ last_tab \in 1 .. MaxTabId
  /\ write.index \in 0 .. MaxText + 1
  /\ write.op \in {"delete", "replace"} => write.index < write.until
  /\ write.op \in {"insert", "append", "replace"} => Within(doc_tabs, MaxText)
  /\ Within(doc_tabs, MaxText + 1)

\* What other people did.
MeddledOf == [steps : Nat, since : BOOLEAN]

LEMMA MeddledTyped ==
  ASSUME meddled \in MeddledOf, [DocNext]_docVars
  PROVE  meddled' \in MeddledOf
<1>1. CASE meddled' = meddled BY <1>1
<1>2. CASE meddled' = [meddled EXCEPT !.since = FALSE] BY <1>2 DEF MeddledOf
<1>3. CASE meddled' = [steps |-> meddled.steps + 1, since |-> TRUE] BY <1>3 DEF MeddledOf
<1>4. WriteStep => meddled' = meddled \/ meddled' = [meddled EXCEPT !.since = FALSE]
  BY DEF WriteStep, ReadEnds, SendInsert, SendDeleteRange, SendReplacement, Refused
<1>5. ASSUME NEW piece, NEW tab, NEW s, NEW e,
             \/ append_text(piece, tab) \/ insert_text(piece, s, tab)
             \/ ReplaceRange(piece, s, e, tab) \/ delete_range(s, e, tab)
      PROVE  meddled' = [meddled EXCEPT !.since = FALSE]
  BY <1>5 DEF append_text, insert_text, ReplaceRange, delete_range, Begin
<1>6. ASSUME NEW find, NEW replacement, replace_text(find, replacement) PROVE meddled' = meddled
  BY <1>6 DEF replace_text
<1>7. add_tab => meddled' = meddled BY DEF add_tab
<1>8. ASSUME NEW id, delete_tab(id) PROVE meddled' = meddled BY <1>8 DEF delete_tab
<1>9. ASSUME NEW id, NEW index, NEW piece,
             TheyDeleteDocTab(id) \/ TheyType(id, index, piece) \/ TheyAddDocTab(id)
      PROVE  meddled' = [steps |-> meddled.steps + 1, since |-> TRUE]
  BY <1>9 DEF TheyDeleteDocTab, TheyType, TheyAddDocTab, Meddle
<1>10. UNCHANGED docVars => meddled' = meddled BY DEF docVars
<1> QED BY <1>1, <1>2, <1>3, <1>4, <1>5, <1>6, <1>7, <1>8, <1>9, <1>10 DEF DocNext

LEMMA PutLonger ==
  ASSUME NEW text \in Seq(Pieces), NEW s \in 1 .. Len(text) + 1, NEW piece \in Pieces
  PROVE  Len(Put(text, s, piece)) = Len(text) + 1
<1>1. PICK a, b : a = SubSeq(text, 1, s - 1) /\ b = SubSeq(text, s, Len(text)) OBVIOUS
<1>2. /\ a \in Seq(Pieces) /\ Len(a) = s - 1
      /\ b \in Seq(Pieces) /\ Len(b) = Len(text) - s + 1
  BY <1>1, CutText
<1>3. PICK one \in Seq(Pieces) : one = <<piece>> /\ Len(one) = 1
  <2>1. <<piece>> \in Seq(Pieces) /\ Len(<<piece>>) = 1 OBVIOUS
  <2> QED BY <2>1
<1>4. a \o one \in Seq(Pieces) /\ Len(a \o one) = s - 1 + 1 BY <1>2, <1>3, ConcatProperties
<1>5. PICK ao \in Seq(Pieces) : ao = a \o one BY <1>4
<1>6. Len(ao \o b) = Len(ao) + Len(b) BY <1>2, <1>5, ConcatProperties
<1>7. Len(ao) = s - 1 + 1 BY <1>4, <1>5
<1>8. Len(ao \o b) = Len(text) + 1
  <2>1. PICK x \in Nat, y \in Nat : x = Len(ao) /\ y = Len(b)
    <3>1. Len(ao) \in Nat /\ Len(b) \in Nat BY <1>2
    <3> QED BY <3>1
  <2>2. PICK n \in Nat : n = Len(text) OBVIOUS
  <2> QED BY <1>2, <1>6, <1>7, <2>1, <2>2
<1>9. Put(text, s, piece) = ao \o b BY <1>1, <1>3, <1>5 DEF Put
<1> QED BY <1>8, <1>9

LEMMA CutShorter ==
  ASSUME NEW text \in Seq(Pieces), NEW s \in 1 .. Len(text) + 1, NEW e \in 1 .. Len(text) + 1, s < e
  PROVE  Len(Cut(text, s, e)) <= Len(text)
<1>1. PICK a, b : a = SubSeq(text, 1, s - 1) /\ b = SubSeq(text, e, Len(text)) OBVIOUS
<1>2. /\ a \in Seq(Pieces) /\ Len(a) = s - 1
      /\ b \in Seq(Pieces) /\ Len(b) = Len(text) - e + 1
  BY <1>1, CutText
<1>3. Len(a \o b) = Len(a) + Len(b) BY <1>2, ConcatProperties
<1>4. PICK n \in Nat : n = Len(text) OBVIOUS
<1>5. Len(a) + Len(b) <= n BY <1>2, <1>4
<1>6. Cut(text, s, e) = a \o b BY <1>1 DEF Cut
<1> QED BY <1>3, <1>4, <1>5, <1>6

LEMMA RewrittenWithin ==
  ASSUME DocShape, NEW i, NEW text, Rewritten(i, text), NEW m \in Nat, Within(doc_tabs, m),
         Len(text) <= m
  PROVE  doc_tabs' # <<>> /\ Within(doc_tabs', m)
<1>1. doc_tabs[i] \in DocTab BY DEF DocShape, Rewritten
<1>2. doc_tabs'[i].text = text BY <1>1 DEF Rewritten, DocTab
<1>3. \A j \in DOMAIN doc_tabs : Len(doc_tabs'[j].text) <= m BY <1>2 DEF Rewritten, Within
<1>4. doc_tabs' # <<>>
  <2>1. i \in DOMAIN doc_tabs' BY DEF Rewritten
  <2> QED BY <2>1
<1> QED BY <1>3, <1>4 DEF Rewritten, Within

\* A piece is put into a tab that has room.
LEMMA PutWithin ==
  ASSUME DocShape, NEW id, NEW index, NEW piece \in Pieces, Accepts(id, index),
         doc_tabs' = insertText(id, index, piece), last_tab' = last_tab,
         NEW m \in Nat, Within(doc_tabs, m)
  PROVE  doc_tabs' # <<>> /\ Within(doc_tabs', m + 1)
<1>1. PICK i \in DOMAIN doc_tabs :
        /\ index \in 1 .. Len(doc_tabs[i].text) + 1
        /\ Rewritten(i, Put(doc_tabs[i].text, index, piece))
  BY Inserted
<1>2. doc_tabs[i].text \in Seq(Pieces) /\ Len(doc_tabs[i].text) \in Nat
  <2>1. doc_tabs[i] \in DocTab BY DEF DocShape
  <2> QED BY <2>1 DEF DocTab
<1>3. Len(Put(doc_tabs[i].text, index, piece)) <= m + 1
  BY <1>1, <1>2, PutLonger DEF Within
<1>4. \A j \in DOMAIN doc_tabs : Len(doc_tabs[j].text) \in Nat
  <2>1. \A j \in DOMAIN doc_tabs : doc_tabs[j] \in DocTab BY DEF DocShape
  <2> QED BY <2>1 DEF DocTab
<1>5. Within(doc_tabs, m + 1) BY <1>4 DEF Within
<1> QED BY <1>1, <1>3, <1>5, RewrittenWithin

LEMMA NoTextIsLonger ==
  ASSUME DocShape, NEW m \in Nat, Within(doc_tabs, m)
  PROVE  Within(doc_tabs, m + 1)
<1>1. \A j \in DOMAIN doc_tabs : Len(doc_tabs[j].text) \in Nat
  <2>1. \A j \in DOMAIN doc_tabs : doc_tabs[j] \in DocTab BY DEF DocShape
  <2> QED BY <2>1 DEF DocTab
<1> QED BY <1>1 DEF Within

LEMMA TabsGoWithin ==
  ASSUME NEW id, doc_tabs' \in Without(doc_tabs, id), NEW m, Within(doc_tabs, m)
  PROVE  Within(doc_tabs', m)
<1>1. PICK left : left = {i \in DOMAIN doc_tabs : doc_tabs[i].id \notin Nested(doc_tabs, id)} OBVIOUS
<1>2. PICK order \in [1 .. Cardinality(left) -> left] : doc_tabs' = [k \in DOMAIN order |-> doc_tabs[order[k]]]
  BY <1>1 DEF Without
<1>3. \A k \in DOMAIN doc_tabs' : order[k] \in DOMAIN doc_tabs /\ doc_tabs'[k] = doc_tabs[order[k]]
  BY <1>1, <1>2
<1> QED BY <1>3 DEF Within

LEMMA TabComesWithin ==
  ASSUME DocShape, NEW p \in Nat, NEW m \in Nat, Within(doc_tabs, m),
         NEW new, new = [id |-> last_tab + 1, parent |-> p, text |-> <<>>],
         doc_tabs' = Append(doc_tabs, new) \/ doc_tabs' = <<new>> \o doc_tabs
  PROVE  doc_tabs' # <<>> /\ Within(doc_tabs', m)
<1>1. doc_tabs \in Seq(DocTab) /\ last_tab \in Nat BY DEF DocShape
<1>2. new \in DocTab /\ Len(new.text) = 0 BY <1>1 DEF DocTab
<1>3. PICK n \in Nat : n = Len(doc_tabs) /\ DOMAIN doc_tabs = 1 .. n BY <1>1
<1>4. CASE doc_tabs' = Append(doc_tabs, new)
  <2>1. /\ DOMAIN doc_tabs' = 1 .. n + 1 /\ doc_tabs'[n + 1] = new
        /\ \A i \in 1 .. n : doc_tabs'[i] = doc_tabs[i]
    BY <1>1, <1>2, <1>3, <1>4
  <2>2. \A i \in 1 .. n + 1 : i = n + 1 \/ i \in 1 .. n BY <1>3
  <2>3. doc_tabs' # <<>>
    <3>1. n + 1 \in DOMAIN doc_tabs' BY <1>3, <2>1
    <3> QED BY <3>1
  <2> QED BY <1>2, <1>3, <2>1, <2>2, <2>3 DEF Within
<1>5. CASE doc_tabs' = <<new>> \o doc_tabs
  <2>1. PICK one \in Seq(DocTab) : one = <<new>>
    <3>1. <<new>> \in Seq(DocTab) BY <1>2
    <3> QED BY <3>1
  <2>2. Len(one) = 1 /\ one[1] = new BY <2>1
  <2>3. /\ doc_tabs' \in Seq(DocTab) /\ Len(doc_tabs') = 1 + n
        /\ \A i \in 1 .. 1 + n : doc_tabs'[i] = IF i <= 1 THEN one[i] ELSE doc_tabs[i - 1]
    BY <1>1, <1>3, <1>5, <2>1, <2>2, ConcatProperties
  <2>4. DOMAIN doc_tabs' = 1 .. 1 + n BY <2>3
  <2>5. \A i \in 1 .. 1 + n : \/ i = 1 /\ doc_tabs'[i] = new
                              \/ i - 1 \in 1 .. n /\ doc_tabs'[i] = doc_tabs[i - 1]
    BY <1>3, <2>2, <2>3
  <2>6. doc_tabs' # <<>>
    <3>1. 1 \in DOMAIN doc_tabs' BY <1>3, <2>4
    <3> QED BY <3>1
  <2>7. \A i \in 1 .. n : Len(doc_tabs[i].text) <= m BY <1>3 DEF Within
  <2>8. Len(new.text) <= m BY <1>2
  <2>9. \A i \in 1 .. 1 + n : Len(doc_tabs'[i].text) <= m BY <2>5, <2>7, <2>8
  <2> QED BY <2>4, <2>6, <2>9 DEF Within
<1> QED BY <1>4, <1>5

\* Texts that change word for word stay as long.
LEMMA ReplaceTextWithin ==
  ASSUME DocShape, NEW find, NEW replacement, replace_text(find, replacement), NEW m, Within(doc_tabs, m)
  PROVE  Within(doc_tabs', m) /\ (doc_tabs # <<>> => doc_tabs' # <<>>)
<1>1. PICK text : text = [i \in DOMAIN doc_tabs |->
                            [k \in DOMAIN doc_tabs[i].text |->
                               IF doc_tabs[i].text[k] = find THEN replacement ELSE doc_tabs[i].text[k]]]
  OBVIOUS
<1>2. doc_tabs' = [i \in DOMAIN doc_tabs |-> [doc_tabs[i] EXCEPT !.text = text[i]]]
  BY <1>1 DEF replace_text
<1>3. \A i \in DOMAIN doc_tabs : doc_tabs[i] \in DocTab BY DEF DocShape
<1>4. ASSUME NEW i \in DOMAIN doc_tabs PROVE Len(text[i]) = Len(doc_tabs[i].text)
  <2>1. PICK old \in Seq(Pieces) : old = doc_tabs[i].text BY <1>3 DEF DocTab
  <2>2. PICK l \in Nat : DOMAIN old = 1 .. l /\ l = Len(old) BY <2>1
  <2>3. text[i] = [k \in 1 .. l |-> IF old[k] = find THEN replacement ELSE old[k]] BY <1>1, <2>1, <2>2
  <2>4. Len(text[i]) = l BY <2>3
  <2> QED BY <2>1, <2>2, <2>4
<1>5. \A i \in DOMAIN doc_tabs : doc_tabs'[i].text = text[i] BY <1>2, <1>3 DEF DocTab
<1>6. DOMAIN doc_tabs' = DOMAIN doc_tabs BY <1>2
<1>7. doc_tabs # <<>> => doc_tabs' # <<>>
  <2>1. doc_tabs \in Seq(DocTab) BY DEF DocShape
  <2>2. ASSUME doc_tabs # <<>> PROVE 1 \in DOMAIN doc_tabs BY <2>1, <2>2
  <2>3. ASSUME doc_tabs # <<>> PROVE doc_tabs' # <<>>
    <3>1. 1 \in DOMAIN doc_tabs' BY <1>6, <2>2, <2>3
    <3> QED BY <3>1
  <2> QED BY <2>3
<1> QED BY <1>4, <1>5, <1>6, <1>7 DEF Within

\* A write that begins begins within the bounds.
LEMMA WritesBeginBounded ==
  ASSUME DocInv, DocBounded, NEW piece, NEW tab, NEW s \in 1 .. MaxText + 1, NEW e \in 1 .. MaxText + 1,
         \/ s < e /\ delete_range(s, e, tab)
         \/ /\ Roomy
            /\ \/ append_text(piece, tab) \/ insert_text(piece, s, tab)
               \/ s < e /\ ReplaceRange(piece, s, e, tab)
  PROVE  DocBounded'
<1>1. MaxText \in Nat /\ s \in 0 .. MaxText + 1 /\ 0 \in 0 .. MaxText + 1 BY DocAssumption
<1>2. doc_tabs' = doc_tabs /\ last_tab' = last_tab
  BY DEF delete_range, append_text, insert_text, ReplaceRange, Begin
<1>3. Roomy => Within(doc_tabs, MaxText)
  <2>1. \A j \in DOMAIN doc_tabs : doc_tabs[j] \in DocTab BY DEF DocInv, DocShape
  <2> QED BY <1>1, <2>1 DEF Roomy, Within, DocTab
<1>4. CASE s < e /\ delete_range(s, e, tab)
  <2>1. write'.op = "delete" /\ write'.index = s /\ write'.until = e
    BY <1>4 DEF delete_range, Begin, Quiet
  <2> QED BY <1>1, <1>2, <1>4, <2>1 DEF DocBounded
<1>5. CASE Roomy /\ append_text(piece, tab)
  <2>1. write'.op = "append" /\ write'.index = 0 BY <1>5 DEF append_text, Begin, Quiet
  <2> QED BY <1>1, <1>2, <1>3, <1>5, <2>1 DEF DocBounded
<1>6. CASE Roomy /\ insert_text(piece, s, tab)
  <2>1. write'.op = "insert" /\ write'.index = s BY <1>6 DEF insert_text, Begin, Quiet
  <2> QED BY <1>1, <1>2, <1>3, <1>6, <2>1 DEF DocBounded
<1>7. CASE Roomy /\ s < e /\ ReplaceRange(piece, s, e, tab)
  <2>1. write'.op = "replace" /\ write'.index = s /\ write'.until = e
    BY <1>7 DEF ReplaceRange, Begin, Quiet
  <2> QED BY <1>1, <1>2, <1>3, <1>7, <2>1 DEF DocBounded
<1> QED BY <1>4, <1>5, <1>6, <1>7

\* A write that goes on or ends stays within them.
LEMMA WriteStepBounded ==
  ASSUME DocInv, DocBounded, meddled \in MeddledOf, WriteStep, DocInv'
  PROVE  DocBounded'
<1>1. MaxText \in Nat BY DocAssumption
<1>2. DocShape /\ WriteShape BY DEF DocInv
<1>3. Quiet.op = "none" /\ Quiet.index = 0 BY DEF Quiet
<1>4. ASSUME write' = Quiet, last_tab' = last_tab, doc_tabs' # <<>>, Within(doc_tabs', MaxText + 1)
      PROVE  DocBounded'
  BY <1>1, <1>3, <1>4 DEF DocBounded
<1>5. CASE ReadEnds
  <2>1. doc_tabs' = doc_tabs /\ last_tab' = last_tab BY <1>5 DEF ReadEnds
  <2>2. CASE write' = Quiet BY <1>4, <2>1, <2>2 DEF DocBounded
  <2>3. CASE write' # Quiet
    <3>1. write.op = "append" BY <1>2, <1>5 DEF WriteShape, ReadEnds
    <3>2. write'.at = "send" /\ write'.op = "append"
      <4> DEFINE ends == doc_tab_end_indices(doc_tabs)
                 match == {k \in DOMAIN ends : write.asked = ends[k].id
                                               \/ (write.asked = 0 /\ Len(ends) = 1)}
                 end == ends[CHOOSE k \in match : TRUE]
      <4>0. write' = [write EXCEPT !.at = "send", !.target = tab_to_append_to(end),
                                   !.index = index_to_append_at(end), !.only = end.id]
        BY <1>5, <2>3 DEF ReadEnds
      <4>1. PICK t, x, o : write' = [write EXCEPT !.at = "send", !.target = t, !.index = x, !.only = o]
        BY <4>0
      <4>2. write \in WriteOf BY <1>2 DEF WriteShape
      <4> QED BY <3>1, <4>1, <4>2 DEF WriteOf
    <3>3. ~meddled'.since
      <4>1. meddled' = [meddled EXCEPT !.since = FALSE] BY <1>5 DEF ReadEnds
      <4> QED BY <4>1 DEF MeddledOf
    <3>4. PICK i \in DOMAIN doc_tabs : write'.index = Len(doc_tabs[i].text) + 1
      BY <2>1, <3>2, <3>3 DEF DocInv, AppendFits
    <3>5. doc_tabs[i] \in DocTab BY <1>2 DEF DocShape
    <3>6. Within(doc_tabs, MaxText) BY <3>1 DEF DocBounded
    <3>7. Len(doc_tabs[i].text) \in Nat /\ Len(doc_tabs[i].text) <= MaxText
      BY <3>5, <3>6 DEF DocTab, Within
    <3>8. write'.index \in 0 .. MaxText + 1 BY <1>1, <3>4, <3>7
    <3> QED BY <2>1, <3>2, <3>6, <3>8 DEF DocBounded
  <2> QED BY <2>2, <2>3
<1>6. CASE SendInsert
  <2>1. /\ write.piece \in Pieces /\ write.op \in {"insert", "append"} /\ write' = Quiet
        /\ last_tab' = last_tab
    BY <1>2, <1>6 DEF WriteShape, SendInsert
  <2>2. Within(doc_tabs, MaxText) BY <2>1 DEF DocBounded
  <2>3. doc_tabs' # <<>> /\ Within(doc_tabs', MaxText + 1)
    BY <1>1, <1>2, <1>6, <2>1, <2>2, PutWithin DEF SendInsert
  <2> QED BY <1>4, <2>1, <2>3
<1>7. CASE SendDeleteRange
  <2>1. write.op \in {"delete", "replace"} /\ write.index < write.until /\ last_tab' = last_tab
    BY <1>7 DEF SendDeleteRange, DocBounded
  <2>2. PICK i \in DOMAIN doc_tabs :
          /\ write.index \in 1 .. Len(doc_tabs[i].text) + 1 /\ write.until \in 1 .. Len(doc_tabs[i].text) + 1
          /\ Rewritten(i, Cut(doc_tabs[i].text, write.index, write.until))
    BY <1>2, <1>7, Deleted DEF SendDeleteRange
  <2>3. doc_tabs[i].text \in Seq(Pieces)
    <3>1. doc_tabs[i] \in DocTab BY <1>2 DEF DocShape
    <3> QED BY <3>1 DEF DocTab
  <2>4. PICK new : new = Cut(doc_tabs[i].text, write.index, write.until) OBVIOUS
  <2>5. Len(new) <= Len(doc_tabs[i].text) /\ Len(new) \in Nat /\ Len(doc_tabs[i].text) \in Nat
    BY <2>1, <2>2, <2>3, <2>4, CutShorter, CutText
  <2>6. ASSUME NEW m \in Nat, Within(doc_tabs, m) PROVE doc_tabs' # <<>> /\ Within(doc_tabs', m)
    <3>1. Len(new) <= m BY <2>5, <2>6 DEF Within
    <3> QED BY <1>2, <2>2, <2>4, <2>6, <3>1, RewrittenWithin
  <2>7. doc_tabs' # <<>> /\ Within(doc_tabs', MaxText + 1) BY <1>1, <2>6 DEF DocBounded
  <2>8. CASE write' = Quiet BY <1>4, <2>1, <2>7, <2>8
  <2>9. CASE write.op = "replace" /\ write' = [write EXCEPT !.at = "insert"]
    <3>1. write'.op = "replace" /\ write'.index = write.index /\ write'.until = write.until
      <4>1. write \in WriteOf BY <1>2 DEF WriteShape
      <4> QED BY <2>9, <4>1 DEF WriteOf
    <3>2. Within(doc_tabs', MaxText) BY <1>1, <2>6, <2>9 DEF DocBounded
    <3> QED BY <2>1, <2>7, <3>1, <3>2 DEF DocBounded
  <2> QED BY <1>7, <2>8, <2>9 DEF SendDeleteRange
<1>8. CASE SendReplacement
  <2>1. write.piece \in Pieces /\ write.op = "replace" /\ write' = Quiet /\ last_tab' = last_tab
    BY <1>2, <1>8 DEF WriteShape, SendReplacement
  <2>2. Within(doc_tabs, MaxText) BY <2>1 DEF DocBounded
  <2>3. doc_tabs' # <<>> /\ Within(doc_tabs', MaxText + 1)
    BY <1>1, <1>2, <1>8, <2>1, <2>2, PutWithin DEF SendReplacement, location
  <2> QED BY <1>4, <2>1, <2>3
<1>9. CASE Refused
  <2>1. write' = Quiet /\ doc_tabs' = doc_tabs /\ last_tab' = last_tab BY <1>9 DEF Refused
  <2> QED BY <1>4, <2>1 DEF DocBounded
<1> QED BY <1>5, <1>6, <1>7, <1>8, <1>9 DEF WriteStep

\* So does everything else that happens to a Doc.
LEMMA BoundedStep ==
  ASSUME DocInv, DocBounded, meddled \in MeddledOf, DocInv', [DocNext]_docVars
  PROVE  DocBounded'
<1>1. MaxText \in Nat /\ MaxText + 1 \in Nat /\ MaxTabId \in Nat BY DocAssumption
<1>2. DocShape BY DEF DocInv
<1>3. last_tab \in 1 .. MaxTabId /\ doc_tabs # <<>> BY DEF DocBounded
<1>4. ASSUME write' = write, last_tab' \in 1 .. MaxTabId, doc_tabs' # <<>>,
             \A m \in {MaxText, MaxText + 1} : Within(doc_tabs, m) => Within(doc_tabs', m)
      PROVE  DocBounded'
  BY <1>4 DEF DocBounded
<1>5. ASSUME NEW find, NEW replacement, replace_text(find, replacement) PROVE DocBounded'
  <2>1. write' = write /\ last_tab' = last_tab BY <1>5 DEF replace_text
  <2>2. \A m \in {MaxText, MaxText + 1} : Within(doc_tabs, m) => Within(doc_tabs', m)
    BY <1>2, <1>5, ReplaceTextWithin
  <2>3. doc_tabs' # <<>>
    <3>1. Within(doc_tabs, MaxText + 1) BY DEF DocBounded
    <3> QED BY <1>2, <1>3, <1>5, <3>1, ReplaceTextWithin
  <2> QED BY <1>3, <1>4, <2>1, <2>2, <2>3
<1>6. ASSUME NEW p \in DocIds(doc_tabs) \cup {0}, write' = write,
             last_tab < MaxTabId, last_tab' = last_tab + 1,
             \/ doc_tabs' = Append(doc_tabs, [id |-> last_tab + 1, parent |-> p, text |-> <<>>])
             \/ doc_tabs' = <<[id |-> last_tab + 1, parent |-> p, text |-> <<>>]>> \o doc_tabs
      PROVE  DocBounded'
  <2>1. p \in Nat
    <3>1. \A i \in DOMAIN doc_tabs : doc_tabs[i] \in DocTab BY <1>2 DEF DocShape
    <3> QED BY <3>1 DEF DocIds, DocTab
  <2>2. \A m \in {MaxText, MaxText + 1} : Within(doc_tabs, m) => doc_tabs' # <<>> /\ Within(doc_tabs', m)
    BY <1>1, <1>2, <1>6, <2>1, TabComesWithin
  <2>3. doc_tabs' # <<>> BY <2>2 DEF DocBounded
  <2>4. last_tab' \in 1 .. MaxTabId BY <1>1, <1>3, <1>6
  <2> QED BY <1>4, <1>6, <2>2, <2>3, <2>4
<1>7. CASE add_tab
  <2>1. /\ last_tab < MaxTabId /\ last_tab' = last_tab + 1 /\ write' = write
        /\ doc_tabs' = Append(doc_tabs, [id |-> last_tab + 1, parent |-> 0, text |-> <<>>])
    BY <1>7 DEF add_tab
  <2> QED BY <1>6, <2>1
<1>8. ASSUME NEW p \in DocIds(doc_tabs) \cup {0}, TheyAddDocTab(p) PROVE DocBounded'
  <2>1. /\ last_tab < MaxTabId /\ last_tab' = last_tab + 1 /\ write' = write
        /\ doc_tabs' = <<[id |-> last_tab + 1, parent |-> p, text |-> <<>>]>> \o doc_tabs
    BY <1>8 DEF TheyAddDocTab, Meddle
  <2> QED BY <1>6, <2>1
<1>9. ASSUME NEW id, delete_tab(id) \/ TheyDeleteDocTab(id) PROVE DocBounded'
  <2>1. doc_tabs' \in Without(doc_tabs, id) /\ doc_tabs' # <<>> /\ write' = write /\ last_tab' = last_tab
    BY <1>9 DEF delete_tab, TheyDeleteDocTab, Meddle
  <2>2. \A m \in {MaxText, MaxText + 1} : Within(doc_tabs, m) => Within(doc_tabs', m)
    BY <2>1, TabsGoWithin
  <2> QED BY <1>3, <1>4, <2>1, <2>2
<1>10. ASSUME NEW id, NEW index, NEW piece \in Pieces, Roomy, TheyType(id, index, piece) PROVE DocBounded'
  <2>1. /\ Accepts(id, index) /\ doc_tabs' = insertText(id, index, piece)
        /\ write' = write /\ last_tab' = last_tab
    BY <1>10 DEF TheyType, Meddle
  <2>2. PICK m \in Nat : m = MaxText - 1
    <3>1. MaxText - 1 \in Nat BY DocAssumption
    <3> QED BY <3>1
  <2>3. Within(doc_tabs, m)
    <3>1. \A i \in DOMAIN doc_tabs : doc_tabs[i] \in DocTab BY <1>2 DEF DocShape
    <3>2. \A i \in DOMAIN doc_tabs : Len(doc_tabs[i].text) \in Nat BY <3>1 DEF DocTab
    <3> QED BY <1>1, <1>10, <2>2, <3>2 DEF Roomy, Within
  <2>4. doc_tabs' # <<>> /\ Within(doc_tabs', m + 1) BY <1>2, <2>1, <2>3, PutWithin
  <2>5. Within(doc_tabs', MaxText) BY <1>1, <2>2, <2>4
  <2>6. DocShape' BY DEF DocInv
  <2>7. Within(doc_tabs', MaxText + 1)
    <3>1. \A i \in DOMAIN doc_tabs' : doc_tabs'[i] \in DocTab BY <2>6 DEF DocShape
    <3>2. \A i \in DOMAIN doc_tabs' : Len(doc_tabs'[i].text) \in Nat BY <3>1 DEF DocTab
    <3> QED BY <1>1, <2>5, <3>2 DEF Within
  <2> QED BY <1>3, <1>4, <2>1, <2>4, <2>5, <2>7
<1>11. ASSUME NEW piece, NEW tab, NEW at \in 1 .. MaxText, insert_text(piece, at, tab), Roomy
       PROVE  DocBounded'
  <2>1. at \in 1 .. MaxText + 1 BY <1>1
  <2> QED BY <1>11, <2>1, WritesBeginBounded
<1>12. ASSUME NEW piece, NEW tab, append_text(piece, tab), Roomy PROVE DocBounded'
  <2>1. 1 \in 1 .. MaxText + 1 BY <1>1
  <2> QED BY <1>12, <2>1, WritesBeginBounded
<1>13. ASSUME NEW piece, NEW tab, NEW s \in 1 .. MaxText + 1, NEW e \in 1 .. MaxText + 1, s < e,
              (Roomy /\ ReplaceRange(piece, s, e, tab)) \/ delete_range(s, e, tab)
       PROVE  DocBounded'
  BY <1>13, WritesBeginBounded
<1>14. CASE UNCHANGED docVars BY <1>3, <1>4, <1>14 DEF docVars
<1> QED BY <1>5, <1>7, <1>8, <1>9, <1>10, <1>11, <1>12, <1>13, <1>14, WriteStepBounded DEF DocNext

\* Whatever the callers and other people do, a Doc keeps a tab, every tab is nested in an
\* older one that is still there or in none, no write names an index beyond the longest
\* text there can be, and an append is about to be sent to the end of a tab that is there
\* unless somebody else has changed the document since its reading (doc.py:64-144, 180-198).
THEOREM DocTypes == DocSpec => []DocTypeOK
<1>1. DocInit => DocBounded /\ meddled \in MeddledOf
  <2> SUFFICES ASSUME DocInit PROVE DocBounded /\ meddled \in MeddledOf OBVIOUS
  <2>1. MaxTabId \in Nat \ {0} /\ MaxText \in Nat BY DocAssumption
  <2>2. PICK first : first = [id |-> 1, parent |-> 0, text |-> <<>>] OBVIOUS
  <2>3. doc_tabs = <<first>> /\ last_tab = 1 /\ write = Quiet BY <2>2 DEF DocInit
  <2>4. Len(first.text) = 0 BY <2>2
  <2>5. DOMAIN doc_tabs = {1} /\ doc_tabs[1] = first /\ doc_tabs # <<>> BY <2>3
  <2>6. Within(doc_tabs, MaxText + 1) BY <2>1, <2>4, <2>5 DEF Within
  <2>7. Quiet.op = "none" /\ Quiet.index = 0 BY DEF Quiet
  <2>8. meddled \in MeddledOf BY DEF DocInit, MeddledOf
  <2> QED BY <2>1, <2>3, <2>5, <2>6, <2>7, <2>8 DEF DocBounded
<1>2. DocSpec => [](DocBounded /\ meddled \in MeddledOf)
  <2>1. /\ DocBounded /\ meddled \in MeddledOf /\ DocInv /\ DocInv' /\ [DocNext]_docVars
        => (DocBounded /\ meddled \in MeddledOf)'
    BY BoundedStep, MeddledTyped
  <2> QED BY <1>1, <2>1, DocInvariant, PTL DEF DocSpec
<1>3. DocInv /\ TabsNest /\ DocBounded => DocTypeOK
  <2> SUFFICES ASSUME DocInv, TabsNest, DocBounded PROVE DocTypeOK OBVIOUS
  <2>1. \A i \in DOMAIN doc_tabs : doc_tabs[i] \in DocTab /\ doc_tabs[i].id <= last_tab
    BY DEF DocInv, DocShape
  <2>2. last_tab \in Nat /\ last_tab \in 1 .. MaxTabId /\ doc_tabs # <<>> BY DEF DocInv, DocShape, DocBounded
  <2>3. \A i \in DOMAIN doc_tabs : doc_tabs[i].id \in 1 .. last_tab /\ doc_tabs[i].text \in Seq(Pieces)
    BY <2>1, <2>2 DEF DocTab
  <2>4. write.at \in {"idle", "read", "send", "insert"} BY DEF DocInv, WriteShape, WriteOf
  <2>5. write.index \in 0 .. MaxText + 1 BY DEF DocBounded
  <2>6. write.op = "append" /\ write.at = "send" /\ ~meddled.since =>
          \E i \in DOMAIN doc_tabs :
            doc_tabs[i].id = write.target /\ write.index = Len(doc_tabs[i].text) + 1
    BY DEF DocInv, AppendFits
  <2> QED BY <2>2, <2>3, <2>4, <2>5, <2>6 DEF DocTypeOK, TabsNest
<1> QED BY <1>2, <1>3, DocInvariant, PTL
=============================================================================
