------------------------------- MODULE DataTab --------------------------------
(***************************************************************************)
(* The data view of a table (DbDataTab.tsx, the same for MySQL, PostgreSQL *)
(* and SQLite): pages, filters and sort orders, the answers of the         *)
(* database that arrive in any order, and the changes the user makes to    *)
(* rows that may be replaced under the editor.                             *)
(*                                                                         *)
(* A row of the table is a key and the value of one column.  A change is a *)
(* number: 0 is what the table held at first, and every text the user      *)
(* types has a number of its own, and so has a NULL set from the menu of a *)
(* row.  What is typed into a new row is left out.  A handler works with   *)
(* the state of the render it was made in (rows, query), which its calls   *)
(* carry along.                                                            *)
(***************************************************************************)
EXTENDS Naturals, Sequences, FiniteSets, SequencesExt

CONSTANTS
  FirstKeys,  \* keys of the table at the start, 1 .. FirstKeys
  PageSize,
  Wheres,     \* filters: sets of keys that match
  None,
  MaxEdits,   \* bound: texts typed
  MaxNews,    \* bound: rows added
  MaxMoves,   \* bound: queries, deletions
  MaxActions, \* bound: texts, rows and moves together
  MaxSaves,   \* bound: calls of handleSaveAll
  MaxFails    \* bound: calls of the database that fail

ASSUME BoundsAssumption ==
  {FirstKeys, PageSize, MaxEdits, MaxNews, MaxMoves, MaxActions, MaxSaves, MaxFails} \subseteq Nat

Edits == 1 .. MaxEdits
News == 1 .. MaxNews
AllKeys == 1 .. FirstKeys + 2 * MaxNews

ASSUME WheresAssumption == AllKeys \in Wheres /\ \A w \in Wheres : w \subseteq AllKeys
ASSUME NoneAssumption == None \notin AllKeys

VARIABLES
  table,    \* the database: key -> value, for the rows there are
  added,    \* the database: key -> the new row it comes from
  pk,       \* structure has been loaded: pkList is not empty
  query,    \* page, filter and sort order
  rows,     \* the rows shown
  total,    \* totalRows
  loading, counting, saving,
  req,      \* loadDataReqIdRef
  loads,    \* adapter.loadData calls under way
  counts,   \* adapter.countData calls under way
  editing,  \* editingCell, with the row it was opened on
  menu,     \* contextMenu of a stored row, with the row it was opened on
  drafts,   \* rowDrafts: index -> change
  newRows,
  made,     \* what a new row holds
  saves,    \* handleSaveAll calls under way
  dialog,   \* the deletion to be confirmed
  deletes,  \* adapter.deleteRow calls under way
  nextSave, \* number of the next handleSaveAll
  budget,   \* edits, new rows, moves and failures so far
  ghost     \* history: the row each change was typed for, the changes typed in
            \* an editor or a menu whose row was replaced, those made in a quiet moment
            \* and not given up, the new rows saved by two handlers, the last
            \* query sent, and whether a call failed after it

view == <<query, rows, total, loading, counting>>
input == <<editing, drafts, newRows, saving>>
calls == <<req, loads, counts, saves, dialog, deletes, nextSave>>
vars == <<table, added, pk, made, menu, view, input, calls, budget, ghost>>

Keys == DOMAIN table
Row == [key : AllKeys, val : 0 .. MaxEdits]
Query == [page : {1, 2}, where : Wheres, desc : BOOLEAN]

Budget == {"edits", "news", "moves", "fails"}

isRows(r) == DOMAIN r \subseteq 1 .. PageSize /\ \A i \in DOMAIN r : r[i] \in Row
Update == [key : AllKeys, val : Edits]

TypeOK ==
  /\ Keys \subseteq AllKeys /\ \A k \in Keys : table[k] \in 0 .. MaxEdits
  /\ DOMAIN added \subseteq AllKeys /\ \A k \in DOMAIN added : added[k] \in News
  /\ query \in Query /\ isRows(rows)
  /\ total \in 0 .. Cardinality(AllKeys)
  /\ {pk, loading, counting, saving} \subseteq BOOLEAN
  /\ req \in Nat
  /\ \A l \in loads : l.id \in 1 .. req /\ l.q \in Query /\ isRows(l.got)
  /\ \A c \in counts : c.id \in 1 .. req /\ c.where \in Wheres
  /\ editing # None => editing.idx \in 1 .. PageSize /\ editing.key \in AllKeys \cup {None}
  /\ menu # None => menu.idx \in 1 .. PageSize /\ menu.key \in AllKeys
  /\ made \in [News -> 0 .. MaxEdits]
  /\ DOMAIN drafts \subseteq 1 .. PageSize /\ \A i \in DOMAIN drafts : drafts[i] \in Edits
  /\ newRows \in Seq(News)
  /\ \A s \in saves : s.q \in Query /\ s.ins \in Seq(News) /\ s.ups \in Seq(Update)
  /\ dialog # None => dialog.key \in AllKeys /\ dialog.q \in Query
  /\ \A d \in deletes : d.key \in AllKeys /\ d.q \in Query
  /\ nextSave \in 1 .. MaxSaves + 1
  /\ budget \in [Budget -> Nat]
  /\ budget["edits"] <= MaxEdits /\ budget["news"] <= MaxNews
  /\ ghost \in [meant : [Edits -> AllKeys \cup {None}], strayed : SUBSET Edits,
                kept : SUBSET Edits, risky : SUBSET News, shown : Query, stale : BOOLEAN]

(* The rows an answer to q has: those of its page, each in its place, with *)
(* so many others before it.                                               *)
matching(where) == Keys \cap where
offset(q) == (q.page - 1) * PageSize
before(q, k) == {j \in matching(q.where) : IF q.desc THEN j > k ELSE j < k}
places(q) == {i \in 1 .. PageSize : offset(q) + i <= Cardinality(matching(q.where))}
answers(q) ==
  {[i \in places(q) |-> [key |-> f[i], val |-> table[f[i]]]] :
     f \in {g \in [places(q) -> matching(q.where)] :
             \A i \in places(q) : Cardinality(before(q, g[i])) = offset(q) + i - 1}}

emptyFn == [i \in {} |-> 0]
firstQuery == [page |-> 1, where |-> AllKeys, desc |-> FALSE]
spent(x) == [budget EXCEPT ![x] = @ + 1]
mayDo(x, max) ==
  budget[x] < max /\ budget["edits"] + budget["news"] + budget["moves"] < MaxActions
canFail == budget["fails"] < MaxFails

(* The effect of the first render: the structure and the first page.       *)
Init ==
  /\ table = [k \in 1 .. FirstKeys |-> 0] /\ added = emptyFn
  /\ pk = FALSE
  /\ query = firstQuery /\ rows = <<>> /\ total = 0
  /\ loading = TRUE /\ counting = FALSE /\ saving = FALSE
  /\ req = 1 /\ loads = {[id |-> 1, q |-> firstQuery, read |-> FALSE, got |-> <<>>]}
  /\ counts = {}
  /\ editing = None /\ menu = None /\ drafts = emptyFn
  /\ newRows = <<>> /\ made = [n \in News |-> 0]
  /\ saves = {} /\ dialog = None /\ deletes = {} /\ nextSave = 1
  /\ budget = [x \in Budget |-> 0]
  /\ ghost = [meant |-> [e \in Edits |-> None], strayed |-> {}, kept |-> {}, risky |-> {},
              shown |-> firstQuery, stale |-> FALSE]

-----------------------------------------------------------------------------
(* loadData: only the answer to the last request counts.                   *)

issue(q) ==
  /\ req' = req + 1
  /\ loads' = loads \cup {[id |-> req + 1, q |-> q, read |-> FALSE, got |-> <<>>]}
  /\ loading' = TRUE

LoadRead(l) ==
  /\ l \in loads /\ ~l.read
  /\ \E got \in answers(l.q) :
       loads' = (loads \ {l}) \cup {[id |-> l.id, q |-> l.q, read |-> TRUE, got |-> got]}
  /\ UNCHANGED <<table, added, pk, made, menu, view, input, req, counts, saves,
                 dialog, deletes, nextSave, budget, ghost>>

(* The editor of a cell stays open at its index; it is made anew when its  *)
(* index had no row for a while.                                           *)
editorOn(got) ==
  IF editing = None THEN None
  ELSE [idx |-> editing.idx,
        key |-> IF editing.idx \notin DOMAIN got THEN None
                ELSE IF editing.key = None THEN got[editing.idx].key ELSE editing.key]

(* MUTANT: an answer is shown whenever it comes.                           *)
LoadReturnAny(l) ==
  /\ l \in loads /\ l.read
  /\ loads' = loads \ {l}
  /\ rows' = l.got /\ drafts' = emptyFn /\ newRows' = <<>>
  /\ counting' = TRUE /\ loading' = (loading /\ l.id # req)
  /\ counts' = counts \cup {[id |-> l.id, where |-> l.q.where]}
  /\ editing' = editorOn(l.got)
  /\ UNCHANGED <<table, added, pk, made, menu, query, total, saving, req, saves,
                 dialog, deletes, nextSave, budget, ghost>>

(* MUTANT: the drafts survive the rows they were made for.                 *)
LoadReturnDrafts(l) ==
  /\ l \in loads /\ l.read
  /\ loads' = loads \ {l}
  /\ IF l.id = req
       THEN /\ rows' = l.got
            /\ drafts' = [n \in DOMAIN drafts \cap DOMAIN l.got |-> drafts[n]]
            /\ counting' = TRUE /\ loading' = FALSE
            /\ counts' = counts \cup {[id |-> l.id, where |-> l.q.where]}
            /\ editing' = editorOn(l.got)
       ELSE UNCHANGED <<rows, counting, loading, counts, editing, drafts>>
  /\ UNCHANGED <<table, added, pk, made, menu, query, total, saving, req, saves,
                 dialog, deletes, nextSave, budget, ghost, newRows>>

LoadReturn(l) ==
  /\ l \in loads /\ l.read
  /\ loads' = loads \ {l}
  /\ IF l.id = req
       THEN /\ rows' = l.got /\ drafts' = emptyFn /\ newRows' = <<>>
            /\ counting' = TRUE /\ loading' = FALSE
            /\ counts' = counts \cup {[id |-> l.id, where |-> l.q.where]}
            /\ editing' = editorOn(l.got)
       ELSE UNCHANGED <<rows, drafts, newRows, counting, loading, counts, editing>>
  /\ UNCHANGED <<table, added, pk, made, menu, query, total, saving, req, saves,
                 dialog, deletes, nextSave, budget, ghost>>

LoadFail(l) ==
  /\ l \in loads /\ canFail
  /\ loads' = loads \ {l}
  /\ loading' = (loading /\ l.id # req)
  /\ budget' = spent("fails")
  /\ ghost' = [ghost EXCEPT !.stale = @ \/ l.id = req]
  /\ UNCHANGED <<table, added, pk, made, menu, query, rows, total, counting, input,
                 req, counts, saves, dialog, deletes, nextSave>>

CountReturn(c) ==
  /\ c \in counts
  /\ counts' = counts \ {c}
  /\ IF c.id = req THEN total' = Cardinality(matching(c.where)) /\ counting' = FALSE
                   ELSE UNCHANGED <<total, counting>>
  /\ UNCHANGED <<table, added, pk, made, menu, query, rows, loading, input, req,
                 loads, saves, dialog, deletes, nextSave, budget, ghost>>

CountFail(c) ==
  /\ c \in counts /\ canFail
  /\ counts' = counts \ {c}
  /\ counting' = (counting /\ c.id # req)
  /\ budget' = spent("fails")
  /\ ghost' = [ghost EXCEPT !.stale = @ \/ c.id = req]
  /\ UNCHANGED <<table, added, pk, made, menu, query, rows, total, loading, input,
                 req, loads, saves, dialog, deletes, nextSave>>

(* loadStructure: there are keys to update by.                             *)
StructureReturn ==
  /\ ~pk /\ pk' = TRUE
  /\ UNCHANGED <<table, added, made, menu, view, input, calls, budget, ghost>>

(* Every query of the user is one of these; its answer takes the drafts.   *)
Ask(q) ==
  /\ dialog = None
  /\ mayDo("moves", MaxMoves) /\ budget' = spent("moves")
  /\ query' = q /\ issue(q)
  /\ ghost' = [ghost EXCEPT !.kept = {}, !.shown = q, !.stale = FALSE]
  /\ UNCHANGED <<table, added, pk, made, menu, rows, total, counting, input, counts,
                 saves, dialog, deletes, nextSave>>

Page(p) == ~loading /\ Ask([query EXCEPT !.page = p])

(* Unsorted, ascending, descending, unsorted; the first two are one order. *)
handleHeaderSort ==
  \E desc \in BOOLEAN :
    ~(query.desc /\ desc) /\ Ask([query EXCEPT !.page = 1, !.desc = desc])

handleFilterChange(w) == w # query.where /\ Ask([query EXCEPT !.page = 1, !.where = w])
Refresh == ~loading /\ Ask(query)

-----------------------------------------------------------------------------
(* The editor of a cell, which commits when it loses the focus, and the    *)
(* menu of a row, which keeps its index while rows come and go.  While the *)
(* menu is there no editor is opened.                                      *)

cell == IF menu = None THEN editing ELSE menu
cellShown ==
  IF cell = None THEN FALSE ELSE cell.key # None /\ cell.idx \in DOMAIN rows
open == dialog = None /\ cellShown
editorOpen == open /\ menu = None

(* MUTANT: the editor is opened on the row before.                         *)
editorOffByOne(i) ==
  /\ dialog = None /\ i \in DOMAIN rows /\ menu = None /\ ~cellShown
  /\ editing' = [idx |-> i - 1, key |-> rows[i].key]
  /\ UNCHANGED <<table, added, pk, made, menu, view, drafts, newRows, saving, calls,
                 budget, ghost>>

OpenEditor(i) ==
  /\ dialog = None /\ i \in DOMAIN rows
  /\ menu = None /\ ~cellShown
  /\ editing' = [idx |-> i, key |-> rows[i].key]
  /\ UNCHANGED <<table, added, pk, made, menu, view, drafts, newRows, saving, calls,
                 budget, ghost>>

CancelEditor ==
  /\ editorOpen /\ editing' = None
  /\ UNCHANGED <<table, added, pk, made, menu, view, drafts, newRows, saving, calls,
                 budget, ghost>>

handleCellContextMenu(i) ==
  /\ dialog = None /\ i \in DOMAIN rows
  /\ menu = None /\ ~cellShown
  /\ menu' = [idx |-> i, key |-> rows[i].key]
  /\ UNCHANGED <<table, added, pk, made, view, input, calls, budget, ghost>>

CloseMenu ==
  /\ menu # None /\ menu' = None
  /\ UNCHANGED <<table, added, pk, made, view, input, calls, budget, ghost>>

quietNow == saves = {} /\ deletes = {} /\ \A l \in loads : l.id # req

(* A new text in the open editor, or NULL from the menu: the change, and   *)
(* the drafts with it.                                                     *)
typed == budget["edits"] + 1
draftsWith(e) ==
  [i \in DOMAIN drafts \cup {cell.idx} |-> IF i = cell.idx THEN e ELSE drafts[i]]

noteTyped ==
  LET here == {cell.key, rows[cell.idx].key}
      moved == cell.key # rows[cell.idx].key
  IN [ghost EXCEPT
       !.meant = [@ EXCEPT ![typed] = cell.key],
       !.strayed = IF moved THEN @ \cup {typed} ELSE @,
       !.kept = {e \in @ : ghost.meant[e] \notin here}
                  \cup (IF quietNow /\ ~moved THEN {typed} ELSE {})]

handleCommitCell ==
  /\ open /\ mayDo("edits", MaxEdits)
  /\ budget' = spent("edits")
  /\ drafts' = draftsWith(typed) /\ editing' = None /\ menu' = None
  /\ ghost' = noteTyped
  /\ UNCHANGED <<table, added, pk, made, view, newRows, saving, calls>>

(* The value of the row itself is typed, or it is NULL already: its draft  *)
(* goes.                                                                   *)
CommitSame ==
  /\ open
  /\ drafts' = [i \in DOMAIN drafts \ {cell.idx} |-> drafts[i]]
  /\ editing' = None /\ menu' = None
  /\ ghost' = [ghost EXCEPT !.kept =
                 {e \in @ : ghost.meant[e] \notin {cell.key, rows[cell.idx].key}}]
  /\ UNCHANGED <<table, added, pk, made, view, newRows, saving, calls, budget>>

handleDiscardAll ==
  /\ dialog = None /\ ~saving /\ (drafts # emptyFn \/ newRows # <<>>)
  /\ drafts' = emptyFn /\ newRows' = <<>> /\ editing' = None
  /\ ghost' = [ghost EXCEPT !.kept = {}]
  /\ UNCHANGED <<table, added, pk, made, menu, view, saving, calls, budget>>

newRow(front, val) ==
  /\ dialog = None /\ mayDo("news", MaxNews)
  /\ budget' = spent("news")
  /\ LET n == budget["news"] + 1
     IN /\ newRows' = IF front THEN <<n>> \o newRows ELSE Append(newRows, n)
        /\ made' = [made EXCEPT ![n] = val]
  /\ UNCHANGED <<table, added, pk, menu, view, editing, drafts, saving, calls, ghost>>

handleAddNewRow == ~loading /\ ~saving /\ newRow(FALSE, 0)

(* The draft at the index goes into the copy, also where the row that is   *)
(* copied is a new one and the draft another row's.                        *)
copied(i, val) == IF i \in DOMAIN drafts THEN drafts[i] ELSE val
CloneRow(i) ==
  \/ i \in DOMAIN rows /\ newRow(TRUE, copied(i, rows[i].val))
  \/ i \in DOMAIN newRows /\ newRow(TRUE, copied(i, made[newRows[i]]))

RemoveDraft(i) ==
  /\ dialog = None /\ i \in DOMAIN newRows
  /\ newRows' = RemoveAt(newRows, i)
  /\ UNCHANGED <<table, added, pk, made, menu, view, editing, drafts, saving, calls,
                 budget, ghost>>

-----------------------------------------------------------------------------
(* handleSaveAll: the drafts are written to the keys of the rows they were *)
(* made on, one after the other, and then the new rows.                    *)

inOrder(D) ==
  LET n == Cardinality(D)
  IN {f \in [1 .. n -> D] : \A i, j \in 1 .. n : i < j => f[i] < f[j]}

start(d, n) ==
  /\ d # emptyFn \/ n # <<>>
  /\ d # emptyFn => pk
  /\ nextSave <= MaxSaves
  /\ \E at \in inOrder(DOMAIN d) :
       saves' = saves \cup
         {[no |-> nextSave, q |-> query, ins |-> n,
           ups |-> [i \in DOMAIN at |-> [key |-> rows[at[i]].key, val |-> d[at[i]]]]]}
  /\ nextSave' = nextSave + 1
  /\ saving' = TRUE

(* New rows that a handler may save although another one has.              *)
again(n) == IF saves = {} THEN ghost.risky ELSE ghost.risky \cup ToSet(n)

SaveButton ==
  /\ ~saving
  /\ start(drafts, newRows)
  /\ ghost' = [ghost EXCEPT !.risky = again(newRows)]
  /\ UNCHANGED <<table, added, pk, made, menu, view, editing, drafts, newRows, req,
                 loads, counts, dialog, deletes, budget>>

(* Ctrl+S in the editor, which does not look at saving.                    *)
handleSaveCellInline ==
  /\ editorOpen /\ mayDo("edits", MaxEdits)
  /\ budget' = spent("edits")
  /\ drafts' = draftsWith(typed) /\ editing' = None
  /\ \/ start(drafts', newRows)
     \/ ~pk /\ UNCHANGED <<saves, nextSave, saving>>
  /\ ghost' = [noteTyped EXCEPT !.risky = again(newRows)]
  /\ UNCHANGED <<table, added, pk, made, menu, view, newRows, req, loads, counts,
                 dialog, deletes>>

(* The same with nothing typed, or the text of the row itself.             *)
SaveCellSame ==
  LET others == [i \in DOMAIN drafts \ {cell.idx} |-> drafts[i]] IN
  /\ editorOpen
  /\ editing' = None
  /\ \/ drafts' = drafts /\ ghost' = [ghost EXCEPT !.risky = again(newRows)]
     \/ /\ drafts' = others /\ others # drafts
        /\ ghost' = [ghost EXCEPT
             !.risky = again(newRows),
             !.kept = {e \in @ : ghost.meant[e] \notin {cell.key, rows[cell.idx].key}}]
  /\ start(drafts', newRows)
  /\ UNCHANGED <<table, added, pk, made, menu, view, newRows, req, loads, counts,
                 dialog, deletes, budget>>

handleSaveNewCellInline ==
  /\ dialog = None /\ newRows # <<>>
  /\ start(drafts, newRows)
  /\ ghost' = [ghost EXCEPT !.risky = again(newRows)]
  /\ UNCHANGED <<table, added, pk, made, menu, view, editing, drafts, newRows, req,
                 loads, counts, dialog, deletes, budget>>

SaveStep(s) ==
  /\ s \in saves
  /\ \/ /\ s.ups # <<>>
        /\ LET u == Head(s.ups)
           IN table' = IF u.key \in Keys THEN [table EXCEPT ![u.key] = u.val] ELSE table
        /\ saves' = (saves \ {s}) \cup
                      {[no |-> s.no, q |-> s.q, ins |-> s.ins, ups |-> Tail(s.ups)]}
        /\ UNCHANGED added
     \/ /\ s.ups = <<>> /\ s.ins # <<>>
        /\ LET k == FirstKeys + Cardinality(DOMAIN added) + 1
           IN /\ k \in AllKeys
              /\ table' = [j \in Keys \cup {k} |-> IF j = k THEN made[Head(s.ins)] ELSE table[j]]
              /\ added' = [j \in DOMAIN added \cup {k} |->
                             IF j = k THEN Head(s.ins) ELSE added[j]]
        /\ saves' = (saves \ {s}) \cup
                      {[no |-> s.no, q |-> s.q, ins |-> Tail(s.ins), ups |-> s.ups]}
  /\ UNCHANGED <<pk, made, menu, view, input, req, loads, counts, dialog, deletes,
                 nextSave, budget, ghost>>

(* MUTANT: a failed call is passed over.                                   *)
SaveFailSkips(s) ==
  /\ s \in saves /\ canFail /\ s.ups # <<>>
  /\ saves' = (saves \ {s}) \cup {[s EXCEPT !.ups = Tail(@)]}
  /\ budget' = spent("fails")
  /\ UNCHANGED <<table, added, pk, made, menu, view, input, req, loads, counts,
                 dialog, deletes, nextSave, ghost>>

(* MUTANT: saving is reset only after a success.                           *)
SaveFailStuck(s) ==
  /\ s \in saves /\ canFail /\ (s.ups # <<>> \/ s.ins # <<>>)
  /\ saves' = saves \ {s}
  /\ budget' = spent("fails")
  /\ UNCHANGED <<table, added, pk, made, menu, view, input, req, loads, counts,
                 dialog, deletes, nextSave, ghost>>

(* A call fails: what was written stays, and so do all the drafts.         *)
SaveFail(s) ==
  /\ s \in saves /\ canFail /\ (s.ups # <<>> \/ s.ins # <<>>)
  /\ saves' = saves \ {s} /\ saving' = FALSE
  /\ budget' = spent("fails")
  /\ ghost' = [ghost EXCEPT
       !.stale = TRUE,
       !.risky = @ \cup ({added[k] : k \in DOMAIN added} \cap ToSet(newRows))]
  /\ UNCHANGED <<table, added, pk, made, menu, view, editing, drafts, newRows, req,
                 loads, counts, dialog, deletes, nextSave>>

(* MUTANT: the new rows are left in the view.                              *)
SaveDoneKeeps(s) ==
  /\ s \in saves /\ s.ups = <<>> /\ s.ins = <<>>
  /\ saves' = saves \ {s} /\ saving' = FALSE
  /\ drafts' = emptyFn /\ editing' = None
  /\ issue(s.q)
  /\ ghost' = [ghost EXCEPT !.shown = s.q, !.stale = FALSE]
  /\ UNCHANGED <<table, added, pk, made, menu, query, rows, total, counting, counts,
                 dialog, deletes, nextSave, budget, newRows>>

SaveDone(s) ==
  /\ s \in saves /\ s.ups = <<>> /\ s.ins = <<>>
  /\ saves' = saves \ {s} /\ saving' = FALSE
  /\ drafts' = emptyFn /\ newRows' = <<>> /\ editing' = None
  /\ issue(s.q)
  /\ ghost' = [ghost EXCEPT !.shown = s.q, !.stale = FALSE]
  /\ UNCHANGED <<table, added, pk, made, menu, query, rows, total, counting, counts,
                 dialog, deletes, nextSave, budget>>

-----------------------------------------------------------------------------
(* handleDeleteRow, after a dialog that names the row.                     *)

DeleteDialog(i) ==
  /\ dialog = None /\ pk /\ i \in DOMAIN rows
  /\ mayDo("moves", MaxMoves) /\ budget' = spent("moves")
  /\ dialog' = [key |-> rows[i].key, q |-> query]
  /\ UNCHANGED <<table, added, pk, made, menu, view, input, req, loads, counts, saves,
                 deletes, nextSave, ghost>>

CancelDelete ==
  /\ dialog # None /\ dialog' = None
  /\ UNCHANGED <<table, added, pk, made, menu, view, input, req, loads, counts, saves,
                 deletes, nextSave, budget, ghost>>

ConfirmDelete ==
  /\ dialog # None /\ dialog' = None
  /\ deletes' = deletes \cup {dialog}
  /\ ghost' = [ghost EXCEPT !.kept = {}]
  /\ UNCHANGED <<table, added, pk, made, menu, view, input, req, loads, counts, saves,
                 nextSave, budget>>

DeleteDone(d) ==
  /\ d \in deletes /\ deletes' = deletes \ {d}
  /\ table' = [k \in Keys \ {d.key} |-> table[k]]
  /\ issue(d.q)
  /\ ghost' = [ghost EXCEPT !.kept = {}, !.shown = d.q, !.stale = FALSE]
  /\ UNCHANGED <<added, pk, made, menu, query, rows, total, counting, input, counts,
                 saves, dialog, nextSave, budget>>

DeleteFail(d) ==
  /\ d \in deletes /\ canFail /\ deletes' = deletes \ {d}
  /\ budget' = spent("fails")
  /\ UNCHANGED <<table, added, pk, made, menu, view, input, req, loads, counts, saves,
                 dialog, nextSave, ghost>>

-----------------------------------------------------------------------------
Answers ==
  \/ \E l \in loads : LoadRead(l) \/ LoadReturn(l)
  \/ \E c \in counts : CountReturn(c)
  \/ \E s \in saves : SaveStep(s) \/ SaveDone(s)
  \/ \E d \in deletes : DeleteDone(d)

Failures ==
  \/ \E l \in loads : LoadFail(l)
  \/ \E c \in counts : CountFail(c)
  \/ \E s \in saves : SaveFail(s)
  \/ \E d \in deletes : DeleteFail(d)

User ==
  \/ \E p \in {1, 2} : Page(p)
  \/ \E w \in Wheres : handleFilterChange(w)
  \/ handleHeaderSort \/ Refresh
  \/ \E i \in 1 .. PageSize : OpenEditor(i) \/ handleCellContextMenu(i) \/ DeleteDialog(i)
  \/ CancelEditor \/ CloseMenu \/ handleCommitCell \/ CommitSame \/ handleDiscardAll
  \/ handleAddNewRow \/ \E i \in 1 .. PageSize + MaxNews : CloneRow(i)
  \/ \E i \in 1 .. MaxNews : RemoveDraft(i)
  \/ SaveButton \/ handleSaveCellInline \/ SaveCellSame \/ handleSaveNewCellInline
  \/ CancelDelete \/ ConfirmDelete

Next == Answers \/ Failures \/ StructureReturn \/ User

Spec == Init /\ [][Next]_vars

-----------------------------------------------------------------------------
(* RIGHT ROW.  A change is written to the row it was typed for, though     *)
(* drafts are kept by index and rows may be replaced between the typing    *)
(* and the save; unless the rows were replaced under the open editor or    *)
(* the menu.  Elsewhere it is only what a cloned row was made with.        *)
RightRow ==
  \A k \in Keys :
    table[k] # 0 /\ table[k] \notin ghost.strayed =>
      \/ ghost.meant[table[k]] = k
      \/ k \in DOMAIN added /\ table[k] = made[added[k]]

(* CALM EDITS LAND.  A change made while nothing was under way stays a     *)
(* draft or has been written, whatever calls of a save fail, until the     *)
(* user gives it up: by another text, a discard, another query or the      *)
(* deletion of a row.                                                      *)
CalmEditsLand ==
  \A e \in ghost.kept :
    LET k == ghost.meant[e] IN
    (\E i \in DOMAIN drafts : drafts[i] = e) \/ (k \in Keys => table[k] = e)

(* INSERT ONCE.  A new row is inserted once, unless a save failed after it *)
(* had been or a second save began while the first was under way.          *)
InsertOnce ==
  \A n \in News \ ghost.risky : Cardinality({k \in DOMAIN added : added[k] = n}) <= 1

(* FRESH VIEW.  When all calls have returned and none failed, the rows and *)
(* the total are the present answer to the last query sent, in whatever    *)
(* order the answers came.                                                 *)
FreshView ==
  loads = {} /\ counts = {} /\ saves = {} /\ deletes = {} /\ ~ghost.stale =>
    /\ rows \in answers(ghost.shown)
    /\ total = Cardinality(matching(ghost.shown.where))

(* SPINNERS HONEST.  The view is loading exactly while the last request is *)
(* under way, and saving only while a save is: its buttons are not locked  *)
(* for good, whatever fails or overtakes what.                             *)
SpinnersHonest ==
  /\ loading <=> \E l \in loads : l.id = req
  /\ saving => saves # {}

=============================================================================
