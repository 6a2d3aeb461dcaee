--------------------------- MODULE DataTab_proofs ----------------------------
(***************************************************************************)
(* Theorems about DataTab, for any table, page size, filters and bounds:   *)
(* its spinners are honest, the view is fresh once all is quiet, changes   *)
(* are written to the row they were typed for, calm ones are not lost, and *)
(* a new row is inserted once.                                             *)
(*                                                                         *)
(* The types rest on ShapeInv: drafts are at places that have a row. That  *)
(* the spinner and the view are right rests on the ids of the requests     *)
(* (RequestInv, FreshInv): one call has the last id, it asks for the query *)
(* that was sent last, and while no save is under way nothing has changed  *)
(* since it read.  The right row follows a change from the draft into the  *)
(* save and into the table (RowInv); what a new row was made with does not *)
(* change, as its number is not given again (InsertInv).  For calm edits   *)
(* the keys on a page must differ and must not be given out again          *)
(* (KeyInv), and a save that is under way has still to write a kept change *)
(* or has written it (CalmInv).  A new row that is not risky is in one     *)
(* place (InsertInv).                                                      *)
(***************************************************************************)
EXTENDS DataTab, SequenceTheorems, FiniteSetTheorems, TLAPS

ShapeInv == DOMAIN drafts \subseteq DOMAIN rows

RequestInv ==
  /\ SpinnersHonest
  /\ \A l, m \in loads : l.id = m.id => l = m

AskInv ==
  /\ \A l \in loads : l.id = req => l.q = ghost.shown
  /\ \A c \in counts : c.id = req => c.where = ghost.shown.where

GotInv ==
  /\ \A l \in loads : l.id = req /\ l.read => l.got \in answers(ghost.shown)
  /\ (\A l \in loads : l.id # req) =>
       /\ rows \in answers(ghost.shown)
       /\ \/ \E c \in counts : c.id = req
          \/ total = Cardinality(matching(ghost.shown.where))

FreshInv == AskInv /\ (saves = {} /\ ~ghost.stale => GotInv)

right(e, k) == e <= budget["edits"] /\ (e \in ghost.strayed \/ ghost.meant[e] = k)

cloned(k) == k \in DOMAIN added /\ table[k] = made[added[k]]

RowInv ==
  /\ \A i \in DOMAIN drafts : right(drafts[i], rows[i].key)
  /\ \A s \in saves : \A j \in DOMAIN s.ups : right(s.ups[j].val, s.ups[j].key)
  /\ \A k \in Keys : table[k] # 0 => right(table[k], k) \/ cloned(k)

last == FirstKeys + Cardinality(DOMAIN added)

isPage(r) ==
  /\ \A i \in DOMAIN r : r[i].key <= last
  /\ \A i, j \in DOMAIN r : r[i].key = r[j].key => i = j

KeyInv ==
  /\ DOMAIN added = FirstKeys + 1 .. last
  /\ \A k \in Keys : k <= last
  /\ isPage(rows) /\ \A l \in loads : isPage(l.got)

landed(e) == ghost.meant[e] \in Keys => table[ghost.meant[e]] = e

known(e) ==
  /\ e <= budget["edits"] /\ e \notin ghost.strayed
  /\ ghost.meant[e] # None /\ ghost.meant[e] <= last

drafted(e) ==
  /\ landed(e) \/ \E i \in DOMAIN drafts : drafts[i] = e
  /\ \A i \in DOMAIN drafts : rows[i].key = ghost.meant[e] => drafts[i] = e

carried(e) ==
  \A s \in saves :
    /\ landed(e) \/ \E j \in DOMAIN s.ups : s.ups[j].val = e
    /\ \A j \in DOMAIN s.ups : s.ups[j].key = ghost.meant[e] => s.ups[j].val = e

CalmInv ==
  /\ \A e \in ghost.strayed : e <= budget["edits"]
  /\ \A e \in ghost.kept :
       /\ known(e) /\ drafted(e) /\ carried(e)
       /\ (\E l \in loads : l.id = req) => landed(e)

inserted == {added[k] : k \in DOMAIN added}
once(n) == \A i, j \in DOMAIN n : n[i] = n[j] => i = j

fitting ==
  /\ \A n \in inserted \cup ToSet(newRows) : n <= budget["news"]
  /\ \A s \in saves : \A n \in ToSet(s.ins) : n <= budget["news"]

single(n) ==
  /\ \A j, k \in DOMAIN added : added[j] = n /\ added[k] = n => j = k
  /\ \A s \in saves : n \in ToSet(s.ins) =>
       n \notin inserted /\ \A t \in saves : n \in ToSet(t.ins) => t = s
  /\ n \in ToSet(newRows) /\ n \in inserted => saves # {}

InsertInv ==
  /\ fitting
  /\ once(newRows) /\ \A s \in saves : once(s.ins)
  /\ \A n \in News \ ghost.risky : single(n)

-----------------------------------------------------------------------------
(* What the operators of the model return.                                 *)

Ghost ==
  [meant : [Edits -> AllKeys \cup {None}], strayed : SUBSET Edits,
   kept : SUBSET Edits, risky : SUBSET News, shown : Query, stale : BOOLEAN]

(* The bounds are natural numbers.                                         *)
LEMMA Bounds ==
  /\ FirstKeys \in Nat /\ PageSize \in Nat /\ MaxEdits \in Nat /\ MaxNews \in Nat
  /\ MaxSaves \in Nat
BY BoundsAssumption

(* The rows of an answer are rows of the table, each of them once.         *)
LEMMA AnswerType ==
  ASSUME TypeOK, NEW q \in Query, NEW got \in answers(q)
  PROVE  /\ isRows(got)
         /\ \A i \in DOMAIN got : got[i].key \in Keys
         /\ \A i, j \in DOMAIN got : got[i].key = got[j].key => i = j
<1>1. PICK f \in [places(q) -> matching(q.where)] :
        /\ got = [i \in places(q) |-> [key |-> f[i], val |-> table[f[i]]]]
        /\ \A i \in places(q) : Cardinality(before(q, f[i])) = offset(q) + i - 1
  BY DEF answers
<1>2. places(q) \subseteq 1 .. PageSize /\ offset(q) \in Int
  BY Bounds DEF places, offset, Query
<1>3. \A i \in places(q) : f[i] \in Keys /\ f[i] \in AllKeys /\ table[f[i]] \in 0 .. MaxEdits
  BY <1>1 DEF matching, TypeOK
<1>4. DOMAIN got = places(q) /\ \A i \in places(q) : got[i] = [key |-> f[i], val |-> table[f[i]]]
  BY <1>1
<1>5. isRows(got)
  BY <1>2, <1>3, <1>4 DEF isRows, Row
<1>6. \A i \in DOMAIN got : got[i].key = f[i]
  BY <1>4
<1>7. ASSUME NEW i \in places(q), NEW j \in places(q), f[i] = f[j]
      PROVE  i = j
  <2>1. offset(q) + i - 1 = offset(q) + j - 1
    BY <1>1, <1>7
  <2>2. i \in Nat /\ j \in Nat
    BY <1>2
  <2>3. QED
    BY <1>2, <2>1, <2>2
<1>8. QED
  BY <1>3, <1>4, <1>5, <1>6, <1>7

(* The writes of a save are the drafts, each of them once.                 *)
LEMMA InOrder ==
  ASSUME NEW D, D \subseteq 1 .. PageSize, NEW at \in inOrder(D)
  PROVE  /\ Cardinality(D) \in Nat /\ at \in [1 .. Cardinality(D) -> D]
         /\ \A i \in D : \E j \in DOMAIN at : at[j] = i
<1>1. IsFiniteSet(D) /\ Cardinality(D) \in Nat
  <2>1. IsFiniteSet(1 .. PageSize) /\ D \in SUBSET (1 .. PageSize)
    BY Bounds, FS_Interval
  <2>2. IsFiniteSet(D)
    BY <2>1, FS_Subset
  <2>3. QED
    BY <2>2, FS_CardinalityType
<1> DEFINE n == Cardinality(D)
<1>2. at \in [1 .. n -> D] /\ \A i, j \in 1 .. n : i < j => at[i] < at[j]
  BY DEF inOrder
<1>3. ASSUME NEW i \in 1 .. n, NEW j \in 1 .. n, at[i] = at[j]
      PROVE  i = j
  <2>1. at[i] \in Nat /\ at[j] \in Nat
    <3>1. \A d \in D : d \in Nat
      BY Bounds
    <3>2. at[i] \in D /\ at[j] \in D
      BY <1>2, <1>3
    <3>3. QED
      BY <3>1, <3>2
  <2>2. ~(i < j) /\ ~(j < i)
    BY <1>2, <1>3, <2>1
  <2>3. QED
    BY <1>1, <2>2
<1>4. at \in Injection(1 .. n, D)
  BY <1>2, <1>3 DEF Injection, IsInjective
<1>5. IsFiniteSet(1 .. n) /\ Cardinality(1 .. n) = n
  BY <1>1, FS_Interval
<1>6. at \in Surjection(1 .. n, D)
  BY <1>1, <1>4, <1>5, FS_Injection
<1>7. QED
  BY <1>1, <1>2, <1>6 DEF Surjection

(* One more action of a kind is counted, and no other.                     *)
LEMMA SpentType ==
  ASSUME TypeOK, NEW x \in Budget
  PROVE  /\ spent(x) \in [Budget -> Nat]
         /\ spent(x)[x] = budget[x] + 1
         /\ \A y \in Budget \ {x} : spent(x)[y] = budget[y]
BY DEF TypeOK, spent

(* A save takes the drafts it is given, with the keys of their rows.       *)
Takes(s, d) ==
  /\ \A j \in DOMAIN s.ups : \E i \in DOMAIN d :
       s.ups[j].key = rows[i].key /\ s.ups[j].val = d[i]
  /\ \A i \in DOMAIN d : \E j \in DOMAIN s.ups :
       s.ups[j].key = rows[i].key /\ s.ups[j].val = d[i]

(* A save that begins takes the drafts and the new rows it is given.       *)
LEMMA StartStep ==
  ASSUME TypeOK, NEW d, DOMAIN d \subseteq DOMAIN rows, \A i \in DOMAIN d : d[i] \in Edits,
         NEW n, start(d, n)
  PROVE  /\ saving' = TRUE /\ nextSave' \in 1 .. MaxSaves + 1
         /\ \E s : /\ saves' = saves \cup {s} /\ s.q = query /\ s.ins = n
                   /\ s.ups \in Seq(Update) /\ Takes(s, d)
<1>1. DOMAIN d \subseteq 1 .. PageSize /\ \A i \in DOMAIN d : rows[i].key \in AllKeys
  BY DEF TypeOK, isRows, Row
<1>2. PICK at \in inOrder(DOMAIN d) :
        saves' = saves \cup
         {[no |-> nextSave, q |-> query, ins |-> n,
           ups |-> [i \in DOMAIN at |-> [key |-> rows[at[i]].key, val |-> d[at[i]]]]]}
  BY DEF start
<1> DEFINE ups == [i \in DOMAIN at |-> [key |-> rows[at[i]].key, val |-> d[at[i]]]]
           c == Cardinality(DOMAIN d)
           s == [no |-> nextSave, q |-> query, ins |-> n, ups |-> ups]
<1>3. /\ c \in Nat /\ at \in [1 .. c -> DOMAIN d]
      /\ \A i \in DOMAIN d : \E j \in DOMAIN at : at[j] = i
  BY <1>1, <1>2, InOrder
<1>4. DOMAIN ups = 1 .. c /\ DOMAIN at = 1 .. c
  BY <1>3
<1>5. \A j \in 1 .. c : ups[j] = [key |-> rows[at[j]].key, val |-> d[at[j]]]
  BY <1>4
<1>6. \A j \in 1 .. c : at[j] \in DOMAIN d /\ ups[j].key = rows[at[j]].key /\ ups[j].val = d[at[j]]
  BY <1>3, <1>5
<1>7. ASSUME NEW j \in 1 .. c
      PROVE  ups[j] \in Update
  <2>1. rows[at[j]].key \in AllKeys /\ d[at[j]] \in Edits
    BY <1>1, <1>6
  <2>2. [key |-> rows[at[j]].key, val |-> d[at[j]]] \in Update
    BY <2>1 DEF Update
  <2>3. QED
    BY <1>5, <2>2, Zenon
<1>8. ups \in Seq(Update)
  <2>1. ups \in [1 .. c -> Update]
    BY <1>4, <1>7
  <2>2. QED
    BY <1>3, <2>1, SeqDef
<1>9. s.q = query /\ s.ins = n /\ s.ups = ups /\ saves' = saves \cup {s}
  BY <1>2
<1> HIDE DEF s, ups, c
<1>10. Takes(s, d)
  BY <1>3, <1>4, <1>6, <1>9 DEF Takes
<1>11. saving' = TRUE /\ nextSave' \in 1 .. MaxSaves + 1
  BY Bounds DEF start, TypeOK
<1>12. QED
  BY <1>8, <1>9, <1>10, <1>11

(* A text in the open editor.                                              *)
LEMMA TypedStep ==
  ASSUME TypeOK, ShapeInv, open, mayDo("edits", MaxEdits)
  PROVE  /\ typed \in Edits /\ cell.idx \in DOMAIN rows /\ cell.key \in AllKeys
         /\ DOMAIN draftsWith(typed) = DOMAIN drafts \cup {cell.idx}
         /\ draftsWith(typed)[cell.idx] = typed
         /\ \A i \in DOMAIN drafts \ {cell.idx} : draftsWith(typed)[i] = drafts[i]
         /\ noteTyped \in Ghost
         /\ spent("edits")["edits"] <= MaxEdits
<1>1. typed \in Edits /\ spent("edits")["edits"] <= MaxEdits
  <2>1. budget["edits"] \in Nat /\ budget["edits"] < MaxEdits
    BY DEF TypeOK, Budget, mayDo
  <2>2. spent("edits")["edits"] = budget["edits"] + 1
    BY SpentType DEF Budget
  <2>3. QED
    BY <2>1, <2>2, Bounds DEF typed, Edits
<1>2. cell.idx \in DOMAIN rows /\ cell.key \in AllKeys
  BY DEF open, cellShown, cell, TypeOK
<1>3. /\ DOMAIN draftsWith(typed) = DOMAIN drafts \cup {cell.idx}
      /\ draftsWith(typed)[cell.idx] = typed
      /\ \A i \in DOMAIN drafts \ {cell.idx} : draftsWith(typed)[i] = drafts[i]
  BY DEF draftsWith
<1>4. noteTyped \in Ghost
  <2> DEFINE here == {cell.key, rows[cell.idx].key}
             moved == cell.key # rows[cell.idx].key
             M == [ghost.meant EXCEPT ![typed] = cell.key]
             S == IF moved THEN ghost.strayed \cup {typed} ELSE ghost.strayed
             K == {e \in ghost.kept : ghost.meant[e] \notin here}
                    \cup (IF quietNow /\ ~moved THEN {typed} ELSE {})
  <2>1. ghost \in Ghost
    BY DEF TypeOK, Ghost
  <2>2. M \in [Edits -> AllKeys \cup {None}] /\ S \subseteq Edits /\ K \subseteq Edits
    BY <1>1, <1>2, <2>1 DEF Ghost
  <2>3. noteTyped = [ghost EXCEPT !.meant = M, !.strayed = S, !.kept = K]
    BY DEF noteTyped
  <2> HIDE DEF M, S, K
  <2>4. QED
    BY <2>1, <2>2, <2>3 DEF Ghost
<1>5. QED
  BY <1>1, <1>2, <1>3, <1>4

-----------------------------------------------------------------------------
(* The steps there are: a query of the user, whichever handler sends it,   *)
(* is an Ask, and a new row, added or cloned, a newRow.                    *)
Loading(l) == LoadRead(l) \/ LoadReturn(l) \/ LoadFail(l)
Counting(c) == CountReturn(c) \/ CountFail(c)
Saving(s) == SaveStep(s) \/ SaveDone(s) \/ SaveFail(s)
Deleting ==
  \/ \E d \in deletes : DeleteDone(d) \/ DeleteFail(d)
  \/ \E i \in 1 .. PageSize : DeleteDialog(i)
  \/ CancelDelete \/ ConfirmDelete
Editing ==
  \/ \E i \in 1 .. PageSize : OpenEditor(i) \/ handleCellContextMenu(i)
  \/ CancelEditor \/ CloseMenu \/ handleCommitCell \/ CommitSame \/ handleDiscardAll
NewRows ==
  \/ \E front \in BOOLEAN, val \in 0 .. MaxEdits : newRow(front, val)
  \/ \E i \in 1 .. MaxNews : RemoveDraft(i)
Begin == SaveButton \/ handleSaveCellInline \/ SaveCellSame \/ handleSaveNewCellInline

(* The steps, by the part of the view they belong to.                      *)
LEMMA DataStepKinds ==
  ASSUME TypeOK, [Next]_vars
  PROVE  \/ \E l \in loads : Loading(l)
         \/ \E c \in counts : Counting(c)
         \/ \E s \in saves : Saving(s)
         \/ Deleting \/ Editing \/ NewRows \/ Begin \/ StructureReturn
         \/ \E q \in Query : Ask(q)
         \/ UNCHANGED vars
<1>1. CASE Answers \/ Failures
  BY <1>1, Zenon DEF Answers, Failures, Loading, Counting, Saving, Deleting
<1>2. CASE User
  <2>1. query \in Query
    BY DEF TypeOK
  <2>2. ASSUME (\E p \in {1, 2} : Page(p)) \/ (\E w \in Wheres : handleFilterChange(w))
               \/ handleHeaderSort \/ Refresh
        PROVE  \E q \in Query : Ask(q)
    <3>1. CASE \E p \in {1, 2} : Page(p)
      <4>1. PICK p \in {1, 2} : Ask([query EXCEPT !.page = p])
        BY <3>1 DEF Page
      <4>2. [query EXCEPT !.page = p] \in Query
        BY <2>1 DEF Query
      <4>3. QED
        BY <4>1, <4>2
    <3>2. CASE \E w \in Wheres : handleFilterChange(w)
      <4>1. PICK w \in Wheres : Ask([query EXCEPT !.page = 1, !.where = w])
        BY <3>2 DEF handleFilterChange
      <4>2. [query EXCEPT !.page = 1, !.where = w] \in Query
        BY <2>1 DEF Query
      <4>3. QED
        BY <4>1, <4>2
    <3>3. CASE handleHeaderSort
      <4>1. PICK desc \in BOOLEAN : Ask([query EXCEPT !.page = 1, !.desc = desc])
        BY <3>3 DEF handleHeaderSort
      <4>2. [query EXCEPT !.page = 1, !.desc = desc] \in Query
        BY <2>1 DEF Query
      <4>3. QED
        BY <4>1, <4>2
    <3>4. CASE Refresh
      BY <2>1, <3>4 DEF Refresh
    <3>5. QED
      BY <2>2, <3>1, <3>2, <3>3, <3>4
  <2>3. ASSUME handleAddNewRow \/ \E i \in 1 .. PageSize + MaxNews : CloneRow(i)
        PROVE  NewRows
    <3>1. CASE handleAddNewRow
      <4>1. newRow(FALSE, 0)
        BY <3>1, Zenon DEF handleAddNewRow
      <4>2. 0 \in 0 .. MaxEdits
        BY Bounds
      <4>3. QED
        BY <4>1, <4>2 DEF NewRows
    <3>2. ASSUME NEW i, CloneRow(i) PROVE NewRows
      <4>1. \A val \in 0 .. MaxEdits : copied(i, val) \in 0 .. MaxEdits
        BY Bounds DEF TypeOK, copied, Edits
      <4>2. CASE i \in DOMAIN rows /\ newRow(TRUE, copied(i, rows[i].val))
        <5>1. rows[i].val \in 0 .. MaxEdits
          BY <4>2 DEF TypeOK, isRows, Row
        <5>2. QED
          BY <4>1, <4>2, <5>1 DEF NewRows
      <4>3. CASE i \in DOMAIN newRows /\ newRow(TRUE, copied(i, made[newRows[i]]))
        <5>1. newRows[i] \in News
          BY <4>3 DEF TypeOK
        <5>2. made[newRows[i]] \in 0 .. MaxEdits
          BY <5>1 DEF TypeOK
        <5>3. QED
          BY <4>1, <4>3, <5>2 DEF NewRows
      <4>4. QED
        BY <3>2, <4>2, <4>3 DEF CloneRow
    <3>3. QED
      BY <2>3, <3>1, <3>2
  <2>4. QED
    BY <1>2, <2>2, <2>3, Zenon DEF User, Deleting, Editing, NewRows, Begin
<1>3. QED
  BY <1>1, <1>2 DEF Next

(* Types of loads and counts.                                              *)
LEMMA DataTypeLoading ==
  ASSUME TypeOK, ShapeInv, NEW l \in loads, Loading(l)
  PROVE  TypeOK' /\ ShapeInv'
<1>1. l.id \in 1 .. req /\ l.q \in Query /\ isRows(l.got)
  BY DEF TypeOK
<1>2. CASE LoadRead(l)
  <2>1. PICK got \in answers(l.q) :
          loads' = (loads \ {l}) \cup {[id |-> l.id, q |-> l.q, read |-> TRUE, got |-> got]}
    BY <1>2 DEF LoadRead
  <2>2. isRows(got)
    BY <1>1, <2>1, AnswerType
  <2>3. \A m \in loads' : m.id \in 1 .. req /\ m.q \in Query /\ isRows(m.got)
    BY <1>1, <2>1, <2>2 DEF TypeOK
  <2>4. QED
    BY <1>2, <2>3 DEF LoadRead, TypeOK, ShapeInv, view, input, isRows, Keys
<1>3. CASE LoadReturn(l)
  <2>1. CASE l.id = req
    <3>1. /\ rows' = l.got /\ DOMAIN drafts' = {} /\ newRows' = <<>> /\ counting' = TRUE
          /\ loading' = FALSE /\ loads' = loads \ {l}
          /\ counts' = counts \cup {[id |-> l.id, where |-> l.q.where]}
          /\ editing' = editorOn(l.got)
      BY <1>3, <2>1 DEF LoadReturn, emptyFn
    <3>2. \A c \in counts' : c.id \in 1 .. req /\ c.where \in Wheres
      BY <1>1, <3>1 DEF TypeOK, Query
    <3>3. editing' # None => editing'.idx \in 1 .. PageSize /\ editing'.key \in AllKeys \cup {None}
      <4>1. CASE editing = None
        BY <3>1, <4>1 DEF editorOn
      <4>2. CASE editing # None
        <5> DEFINE k == IF editing.idx \notin DOMAIN l.got THEN None
                        ELSE IF editing.key = None THEN l.got[editing.idx].key ELSE editing.key
        <5>1. editing' = [idx |-> editing.idx, key |-> k]
          BY <3>1, <4>2 DEF editorOn
        <5>2. k \in AllKeys \cup {None}
          BY <1>1, <4>2 DEF TypeOK, isRows, Row
        <5> HIDE DEF k
        <5>3. editing'.idx = editing.idx /\ editing'.key = k
          BY <5>1
        <5>4. QED
          BY <4>2, <5>2, <5>3 DEF TypeOK
      <4>3. QED
        BY <4>1, <4>2
    <3>4. newRows' \in Seq(News)
      BY <3>1, EmptySeq
    <3>5. QED
      BY <1>1, <1>3, <3>1, <3>2, <3>3, <3>4 DEF LoadReturn, TypeOK, ShapeInv, isRows, Keys
  <2>2. CASE l.id # req
    BY <1>3, <2>2 DEF LoadReturn, TypeOK, ShapeInv, isRows, Keys
  <2>3. QED
    BY <2>1, <2>2
<1>4. CASE LoadFail(l)
  <2>1. budget' \in [Budget -> Nat] /\ budget'["edits"] <= MaxEdits /\ budget'["news"] <= MaxNews
    <3>1. budget' = spent("fails") /\ budget["edits"] <= MaxEdits /\ budget["news"] <= MaxNews
      BY <1>4 DEF LoadFail, TypeOK
    <3>2. QED
      BY <3>1, SpentType DEF Budget
  <2>2. ghost' \in Ghost
    BY <1>4 DEF LoadFail, TypeOK, Ghost
  <2>3. loading' \in BOOLEAN /\ loads' \subseteq loads
    BY <1>4 DEF LoadFail
  <2>4. QED
    BY <1>4, <2>1, <2>2, <2>3 DEF LoadFail, TypeOK, Ghost, ShapeInv, input, isRows, Keys
<1>5. QED
  BY <1>2, <1>3, <1>4 DEF Loading

(* Types: the count of a query.                                            *)
LEMMA DataTypeCounting ==
  ASSUME TypeOK, ShapeInv, NEW c \in counts, Counting(c)
  PROVE  TypeOK' /\ ShapeInv'
<1>1. CASE CountReturn(c)
  <2>1. total' \in 0 .. Cardinality(AllKeys) /\ counting' \in BOOLEAN
    <3>1. CASE c.id = req
      <4>1. IsFiniteSet(AllKeys) /\ matching(c.where) \in SUBSET AllKeys
        <5>1. FirstKeys + 2 * MaxNews \in Int
          BY Bounds
        <5>2. IsFiniteSet(AllKeys)
          BY <5>1, FS_Interval DEF AllKeys
        <5>3. matching(c.where) \subseteq AllKeys
          BY DEF matching, TypeOK
        <5>4. QED
          BY <5>2, <5>3
      <4>2. /\ Cardinality(AllKeys) \in Nat /\ Cardinality(matching(c.where)) \in Nat
            /\ Cardinality(matching(c.where)) <= Cardinality(AllKeys)
        BY <4>1, FS_Subset, FS_CardinalityType
      <4>3. total' = Cardinality(matching(c.where)) /\ counting' = FALSE
        BY <1>1, <3>1 DEF CountReturn
      <4>4. total' \in 0 .. Cardinality(AllKeys)
        BY <4>2, <4>3
      <4>5. counting' \in BOOLEAN
        BY <4>3
      <4>6. QED
        BY <4>4, <4>5
    <3>2. CASE c.id # req
      BY <1>1, <3>2 DEF CountReturn, TypeOK
    <3>3. QED
      BY <3>1, <3>2
  <2>2. QED
    BY <1>1, <2>1 DEF CountReturn, TypeOK, ShapeInv, input, isRows, Keys
<1>2. CASE CountFail(c)
  <2>1. budget' \in [Budget -> Nat] /\ budget'["edits"] <= MaxEdits /\ budget'["news"] <= MaxNews
    <3>1. budget' = spent("fails") /\ budget["edits"] <= MaxEdits /\ budget["news"] <= MaxNews
      BY <1>2 DEF CountFail, TypeOK
    <3>2. QED
      BY <3>1, SpentType DEF Budget
  <2>2. ghost' \in Ghost
    BY <1>2 DEF CountFail, TypeOK, Ghost
  <2>3. counting' \in BOOLEAN /\ counts' \subseteq counts
    BY <1>2 DEF CountFail
  <2>4. QED
    BY <1>2, <2>1, <2>2, <2>3 DEF CountFail, TypeOK, Ghost, ShapeInv, input, isRows, Keys
<1>3. QED
  BY <1>1, <1>2 DEF Counting

(* Types of saves.                                                         *)
LEMMA DataTypeSaveStep ==
  ASSUME TypeOK, ShapeInv, NEW s \in saves, SaveStep(s)
  PROVE  TypeOK' /\ ShapeInv'
<1>1. s.q \in Query /\ s.ins \in Seq(News) /\ s.ups \in Seq(Update)
  BY DEF TypeOK
<1>2. CASE s.ups # <<>>
  <2> DEFINE u == Head(s.ups)
             t == [no |-> s.no, q |-> s.q, ins |-> s.ins, ups |-> Tail(s.ups)]
  <2>1. u \in Update /\ Tail(s.ups) \in Seq(Update)
    BY <1>1, <1>2, HeadTailProperties
  <2>2. /\ table' = IF u.key \in Keys THEN [table EXCEPT ![u.key] = u.val] ELSE table
        /\ saves' = (saves \ {s}) \cup {t} /\ added' = added
    BY <1>2 DEF SaveStep
  <2>3. t.q \in Query /\ t.ins \in Seq(News) /\ t.ups \in Seq(Update)
    BY <1>1, <2>1
  <2>4. Keys' = Keys /\ \A k \in Keys : table'[k] \in 0 .. MaxEdits
    <3>1. u.val \in 0 .. MaxEdits /\ u.key \in AllKeys
      BY <2>1, Bounds DEF Update, Edits
    <3> HIDE DEF u
    <3>2. QED
      BY <2>2, <3>1 DEF Keys, TypeOK
  <2> HIDE DEF t
  <2>5. \A x \in saves' : x.q \in Query /\ x.ins \in Seq(News) /\ x.ups \in Seq(Update)
    BY <2>2, <2>3 DEF TypeOK
  <2>6. QED
    BY <2>2, <2>4, <2>5 DEF SaveStep, TypeOK, ShapeInv, view, input, isRows
<1>3. CASE s.ups = <<>>
  <2> DEFINE k == FirstKeys + Cardinality(DOMAIN added) + 1
             t == [no |-> s.no, q |-> s.q, ins |-> Tail(s.ins), ups |-> s.ups]
  <2>1. /\ s.ins # <<>> /\ k \in AllKeys
        /\ table' = [j \in Keys \cup {k} |-> IF j = k THEN made[Head(s.ins)] ELSE table[j]]
        /\ added' = [j \in DOMAIN added \cup {k} |-> IF j = k THEN Head(s.ins) ELSE added[j]]
        /\ saves' = (saves \ {s}) \cup {t}
    BY <1>3 DEF SaveStep
  <2>2. Head(s.ins) \in News /\ Tail(s.ins) \in Seq(News)
    BY <1>1, <2>1, HeadTailProperties
  <2>3. t.q \in Query /\ t.ins \in Seq(News) /\ t.ups \in Seq(Update)
    BY <1>1, <2>2
  <2> HIDE DEF t, k
  <2>4. \A x \in saves' : x.q \in Query /\ x.ins \in Seq(News) /\ x.ups \in Seq(Update)
    BY <2>1, <2>3 DEF TypeOK
  <2>5. Keys' = Keys \cup {k} /\ \A j \in Keys' : table'[j] \in 0 .. MaxEdits
    BY <2>1, <2>2 DEF Keys, TypeOK
  <2>6. DOMAIN added' = DOMAIN added \cup {k} /\ \A j \in DOMAIN added' : added'[j] \in News
    BY <2>1, <2>2 DEF TypeOK
  <2>7. QED
    BY <2>1, <2>4, <2>5, <2>6 DEF SaveStep, TypeOK, ShapeInv, view, input, isRows
<1>4. QED
  BY <1>2, <1>3

(* What a failed call or a move of the user costs.                         *)
LEMMA SpentSafely ==
  ASSUME TypeOK, NEW x \in {"fails", "moves"}
  PROVE  /\ spent(x) \in [Budget -> Nat]
         /\ spent(x)["edits"] = budget["edits"] /\ spent(x)["edits"] <= MaxEdits
         /\ spent(x)["news"] = budget["news"] /\ spent(x)["news"] <= MaxNews
<1>1. budget["edits"] <= MaxEdits /\ budget["news"] <= MaxNews
  BY DEF TypeOK
<1>2. QED
  BY <1>1, SpentType DEF Budget

(* What a request adds.                                                    *)
LEMMA IssueType ==
  ASSUME TypeOK, NEW q \in Query, issue(q)
  PROVE  /\ req' \in Nat /\ loading' = TRUE
         /\ \A l \in loads' : l.id \in 1 .. req' /\ l.q \in Query /\ isRows(l.got)
         /\ \A c \in counts : c.id \in 1 .. req' /\ c.where \in Wheres
<1> DEFINE m == [id |-> req + 1, q |-> q, read |-> FALSE, got |-> <<>>]
<1>1. req' = req + 1 /\ loads' = loads \cup {m} /\ loading' = TRUE /\ req \in Nat
  BY DEF issue, TypeOK
<1>2. isRows(<<>>)
  BY EmptySeq DEF isRows
<1>3. m.id = req + 1 /\ m.q = q /\ m.got = <<>>
  OBVIOUS
<1> HIDE DEF m
<1>4. \A l \in loads : l.id \in 1 .. req' /\ l.q \in Query /\ isRows(l.got)
  BY <1>1 DEF TypeOK
<1>5. \A c \in counts : c.id \in 1 .. req' /\ c.where \in Wheres
  BY <1>1 DEF TypeOK
<1>6. QED
  BY <1>1, <1>2, <1>3, <1>4, <1>5

(* Types: the calls of a save.                                             *)
LEMMA DataTypeSaving ==
  ASSUME TypeOK, ShapeInv, NEW s \in saves, Saving(s)
  PROVE  TypeOK' /\ ShapeInv'
<1>1. CASE SaveDone(s)
  <2>1. s.q \in Query /\ issue(s.q)
    BY <1>1 DEF TypeOK, SaveDone
  <2>2. /\ req' \in Nat /\ loading' = TRUE
        /\ \A l \in loads' : l.id \in 1 .. req' /\ l.q \in Query /\ isRows(l.got)
        /\ \A c \in counts : c.id \in 1 .. req' /\ c.where \in Wheres
    BY <2>1, IssueType
  <2>3. ghost' \in Ghost
    BY <1>1, <2>1 DEF SaveDone, TypeOK, Ghost
  <2>4. newRows' \in Seq(News) /\ DOMAIN drafts' = {} /\ editing' = None
    BY <1>1, EmptySeq DEF SaveDone, emptyFn
  <2>5. saves' \subseteq saves
    BY <1>1 DEF SaveDone
  <2>6. QED
    BY <1>1, <2>2, <2>3, <2>4, <2>5 DEF SaveDone, TypeOK, Ghost, ShapeInv, isRows, Keys
<1>2. CASE SaveFail(s)
  <2>1. /\ budget' \in [Budget -> Nat]
        /\ budget'["edits"] <= MaxEdits /\ budget'["news"] <= MaxNews
    <3>1. budget' = spent("fails")
      BY <1>2 DEF SaveFail
    <3>2. QED
      BY <3>1, SpentSafely
  <2>2. ghost' \in Ghost
    <3> DEFINE R == ghost.risky \cup ({added[k] : k \in DOMAIN added} \cap ToSet(newRows))
    <3>1. R \subseteq News
      BY DEF TypeOK
    <3>2. ghost' = [ghost EXCEPT !.stale = TRUE, !.risky = R]
      BY <1>2 DEF SaveFail
    <3> HIDE DEF R
    <3>3. QED
      BY <3>1, <3>2 DEF TypeOK, Ghost
  <2>3. saves' \subseteq saves /\ saving' = FALSE
    BY <1>2 DEF SaveFail
  <2>4. QED
    BY <1>2, <2>1, <2>2, <2>3 DEF SaveFail, TypeOK, Ghost, ShapeInv, view, isRows, Keys
<1>3. QED
  BY <1>1, <1>2, DataTypeSaveStep DEF Saving

(* Types: the dialog and the call of a deletion.                           *)
LEMMA DataTypeDeleting ==
  ASSUME TypeOK, ShapeInv, Deleting
  PROVE  TypeOK' /\ ShapeInv'
<1>1. ASSUME NEW d \in deletes, DeleteDone(d)
      PROVE  TypeOK' /\ ShapeInv'
  <2>1. d.q \in Query /\ issue(d.q)
    BY <1>1 DEF TypeOK, DeleteDone
  <2>2. /\ req' \in Nat /\ loading' = TRUE
        /\ \A l \in loads' : l.id \in 1 .. req' /\ l.q \in Query /\ isRows(l.got)
        /\ \A c \in counts : c.id \in 1 .. req' /\ c.where \in Wheres
    BY <2>1, IssueType
  <2>3. ghost' \in Ghost
    BY <1>1, <2>1 DEF DeleteDone, TypeOK, Ghost
  <2>4. Keys' \subseteq Keys /\ \A k \in Keys' : table'[k] \in 0 .. MaxEdits
    BY <1>1 DEF DeleteDone, Keys, TypeOK
  <2>5. deletes' \subseteq deletes
    BY <1>1 DEF DeleteDone
  <2>6. QED
    BY <1>1, <2>2, <2>3, <2>4, <2>5 DEF DeleteDone, TypeOK, Ghost, ShapeInv, input, isRows
<1>2. ASSUME NEW d \in deletes, DeleteFail(d)
      PROVE  TypeOK' /\ ShapeInv'
  <2>1. budget' = spent("fails") /\ deletes' \subseteq deletes
    BY <1>2 DEF DeleteFail
  <2>2. /\ budget' \in [Budget -> Nat]
        /\ budget'["edits"] <= MaxEdits /\ budget'["news"] <= MaxNews
    BY <2>1, SpentSafely
  <2>3. QED
    BY <1>2, <2>1, <2>2 DEF DeleteFail, TypeOK, ShapeInv, view, input, isRows, Keys
<1>3. ASSUME NEW i \in 1 .. PageSize, DeleteDialog(i)
      PROVE  TypeOK' /\ ShapeInv'
  <2>1. budget' = spent("moves") /\ dialog' = [key |-> rows[i].key, q |-> query] /\ i \in DOMAIN rows
    BY <1>3 DEF DeleteDialog
  <2>2. /\ budget' \in [Budget -> Nat]
        /\ budget'["edits"] <= MaxEdits /\ budget'["news"] <= MaxNews
    BY <2>1, SpentSafely
  <2>3. dialog'.key \in AllKeys /\ dialog'.q \in Query
    BY <2>1 DEF TypeOK, isRows, Row
  <2>4. QED
    BY <1>3, <2>2, <2>3 DEF DeleteDialog, TypeOK, ShapeInv, view, input, isRows, Keys
<1>4. CASE CancelDelete
  BY <1>4 DEF CancelDelete, TypeOK, ShapeInv, view, input, isRows, Keys
<1>5. CASE ConfirmDelete
  <2>1. ghost' \in Ghost
    BY <1>5 DEF ConfirmDelete, TypeOK, Ghost
  <2>2. dialog' = None /\ \A d \in deletes' : d.key \in AllKeys /\ d.q \in Query
    BY <1>5 DEF ConfirmDelete, TypeOK
  <2>3. QED
    BY <1>5, <2>1, <2>2 DEF ConfirmDelete, TypeOK, Ghost, ShapeInv, view, input, isRows, Keys
<1>6. QED
  BY <1>1, <1>2, <1>3, <1>4, <1>5, Zenon DEF Deleting

(* What a draft more leaves of the drafts.                                 *)
LEMMA TypedDrafts ==
  ASSUME TypeOK, ShapeInv, open, mayDo("edits", MaxEdits), drafts' = draftsWith(typed)
  PROVE  /\ DOMAIN drafts' \subseteq DOMAIN rows /\ DOMAIN drafts' \subseteq 1 .. PageSize
         /\ \A i \in DOMAIN drafts' : drafts'[i] \in Edits
<1>1. /\ typed \in Edits /\ cell.idx \in DOMAIN rows
      /\ DOMAIN draftsWith(typed) = DOMAIN drafts \cup {cell.idx}
      /\ draftsWith(typed)[cell.idx] = typed
      /\ \A i \in DOMAIN drafts \ {cell.idx} : draftsWith(typed)[i] = drafts[i]
  BY TypedStep
<1>2. DOMAIN drafts \subseteq DOMAIN rows /\ DOMAIN rows \subseteq 1 .. PageSize
  BY DEF ShapeInv, TypeOK, isRows
<1>3. \A i \in DOMAIN drafts : drafts[i] \in Edits
  BY DEF TypeOK
<1>4. QED
  BY <1>1, <1>2, <1>3

(* A typed text has a number of its own, and is noted.                     *)
LEMMA TypedGhost ==
  ASSUME TypeOK, ShapeInv, open, mayDo("edits", MaxEdits)
  PROVE  /\ noteTyped \in Ghost
         /\ spent("edits") \in [Budget -> Nat] /\ spent("edits")["edits"] = typed
         /\ spent("edits")["edits"] <= MaxEdits
         /\ spent("edits")["news"] = budget["news"] /\ spent("edits")["news"] <= MaxNews
<1>1. noteTyped \in Ghost /\ spent("edits")["edits"] <= MaxEdits
  BY TypedStep
<1>2. budget["news"] <= MaxNews
  BY DEF TypeOK
<1>3. QED
  BY <1>1, <1>2, SpentType DEF Budget, typed

(* The kept changes of the other rows.                                     *)
KeptElsewhere == {e \in ghost.kept : ghost.meant[e] \notin {cell.key, rows[cell.idx].key}}

(* Types: the editor.                                                      *)
LEMMA DataTypeEditing ==
  ASSUME TypeOK, ShapeInv, Editing
  PROVE  TypeOK' /\ ShapeInv'
<1>1. ASSUME NEW i \in 1 .. PageSize, OpenEditor(i)
      PROVE  TypeOK' /\ ShapeInv'
  <2>1. editing' = [idx |-> i, key |-> rows[i].key] /\ i \in DOMAIN rows
    BY <1>1 DEF OpenEditor
  <2>2. editing'.idx = i /\ editing'.key \in AllKeys
    BY <2>1 DEF TypeOK, isRows, Row
  <2>3. QED
    BY <1>1, <2>1, <2>2 DEF OpenEditor, TypeOK, ShapeInv, view, calls, isRows, Keys
<1>m. ASSUME NEW i \in 1 .. PageSize, handleCellContextMenu(i)
      PROVE  TypeOK' /\ ShapeInv'
  <2>1. menu' = [idx |-> i, key |-> rows[i].key] /\ i \in DOMAIN rows
    BY <1>m DEF handleCellContextMenu
  <2>2. menu'.idx = i /\ menu'.key \in AllKeys
    BY <2>1 DEF TypeOK, isRows, Row
  <2>3. QED
    BY <1>m, <2>1, <2>2
    DEF handleCellContextMenu, TypeOK, ShapeInv, view, input, calls, isRows, Keys
<1>n. CASE CloseMenu
  BY <1>n DEF CloseMenu, TypeOK, ShapeInv, view, input, calls, isRows, Keys
<1>2. CASE CancelEditor
  BY <1>2 DEF CancelEditor, TypeOK, ShapeInv, view, calls, isRows, Keys
<1>3. CASE handleCommitCell
  <2>1. /\ open /\ mayDo("edits", MaxEdits) /\ budget' = spent("edits")
        /\ editing' = None /\ menu' = None
        /\ drafts' = draftsWith(typed) /\ ghost' = noteTyped
    BY <1>3 DEF handleCommitCell
  <2>2. /\ ghost' \in Ghost /\ budget' \in [Budget -> Nat]
        /\ budget'["edits"] <= MaxEdits /\ budget'["news"] <= MaxNews
    BY <2>1, TypedGhost
  <2>3. /\ DOMAIN drafts' \subseteq DOMAIN rows /\ DOMAIN drafts' \subseteq 1 .. PageSize
        /\ \A i \in DOMAIN drafts' : drafts'[i] \in Edits
    BY <2>1, TypedDrafts
  <2>4. UNCHANGED <<table, added, pk, made, view, newRows, saving, calls>>
    BY <1>3 DEF handleCommitCell
  <2>5. QED
    BY <2>1, <2>2, <2>3, <2>4 DEF TypeOK, Ghost, ShapeInv, view, calls, isRows, Keys
<1>4. CASE CommitSame
  <2>1. ghost' \in Ghost
    <3>1. ghost' = [ghost EXCEPT !.kept = KeptElsewhere]
      BY <1>4 DEF CommitSame, KeptElsewhere
    <3>2. KeptElsewhere \subseteq Edits
      BY DEF KeptElsewhere, TypeOK
    <3>3. QED
      BY <3>1, <3>2 DEF TypeOK, Ghost
  <2>2. /\ editing' = None /\ DOMAIN drafts' \subseteq DOMAIN drafts
        /\ \A i \in DOMAIN drafts' : drafts'[i] = drafts[i]
    BY <1>4 DEF CommitSame
  <2>3. QED
    BY <1>4, <2>1, <2>2 DEF CommitSame, TypeOK, Ghost, ShapeInv, view, calls, isRows, Keys
<1>5. CASE handleDiscardAll
  <2>1. ghost' \in Ghost
    BY <1>5 DEF handleDiscardAll, TypeOK, Ghost
  <2>2. editing' = None /\ DOMAIN drafts' = {} /\ newRows' \in Seq(News)
    BY <1>5, EmptySeq DEF handleDiscardAll, emptyFn
  <2>3. QED
    BY <1>5, <2>1, <2>2 DEF handleDiscardAll, TypeOK, Ghost, ShapeInv, view, calls, isRows, Keys
<1>6. QED
  BY <1>1, <1>m, <1>n, <1>2, <1>3, <1>4, <1>5, Zenon DEF Editing

(* A new row is fresh, at one end; one removed is gone.                    *)
LEMMA NewRowStep ==
  ASSUME TypeOK, NEW front \in BOOLEAN, NEW val \in 0 .. MaxEdits, newRow(front, val)
  PROVE  LET n == budget["news"] + 1
         IN /\ budget' = spent("news") /\ budget'["news"] = n /\ n \in News
            /\ newRows' = (IF front THEN <<n>> \o newRows ELSE Append(newRows, n))
            /\ newRows' \in Seq(News) /\ made' \in [News -> 0 .. MaxEdits]
            /\ made' = [made EXCEPT ![n] = val]
<1> DEFINE n == budget["news"] + 1
<1>1. n \in News
  <2>1. budget["news"] \in Nat /\ budget["news"] < MaxNews
    BY DEF newRow, mayDo, TypeOK, Budget
  <2>2. QED
    BY <2>1, Bounds DEF News
<1>2. budget' = spent("news") /\ budget'["news"] = n
  BY SpentType DEF newRow, Budget
<1>3. newRows' = (IF front THEN <<n>> \o newRows ELSE Append(newRows, n)) /\ newRows \in Seq(News)
  BY DEF newRow, TypeOK
<1> HIDE DEF n
<1>4. newRows' \in Seq(News)
  <2>1. CASE front
    <3>1. <<n>> \in Seq(News)
      BY <1>1
    <3>2. newRows' = <<n>> \o newRows
      BY <1>3, <2>1
    <3>3. QED
      BY <1>3, <3>1, <3>2, ConcatProperties
  <2>2. CASE ~front
    BY <1>1, <1>3, <2>2, AppendProperties
  <2>3. QED
    BY <2>1, <2>2
<1>5. made' = [made EXCEPT ![n] = val] /\ made' \in [News -> 0 .. MaxEdits]
  BY <1>1 DEF newRow, n, TypeOK
<1>6. QED
  BY <1>1, <1>2, <1>3, <1>4, <1>5 DEF n

(* A new row is taken out; the ones after it move up.                      *)
LEMMA RemoveDraftStep ==
  ASSUME TypeOK, NEW i \in 1 .. MaxNews, RemoveDraft(i)
  PROVE  /\ newRows' \in Seq(News) /\ Len(newRows') = Len(newRows) - 1
         /\ \A j \in 1 .. Len(newRows') :
              newRows'[j] = IF j < i THEN newRows[j] ELSE newRows[j + 1]
         /\ i \in 1 .. Len(newRows)
<1>1. i \in 1 .. Len(newRows) /\ newRows \in Seq(News) /\ Len(newRows) \in Nat
  BY DEF RemoveDraft, TypeOK
<1> DEFINE a == SubSeq(newRows, 1, i - 1)
           b == SubSeq(newRows, i + 1, Len(newRows))
<1>2. newRows' = a \o b
  BY DEF RemoveDraft, RemoveAt
<1>3. a \in Seq(News) /\ Len(a) = i - 1 /\ \A j \in 1 .. i - 1 : a[j] = newRows[j]
  BY <1>1
<1>4. /\ b \in Seq(News) /\ Len(b) = Len(newRows) - i
      /\ \A j \in 1 .. Len(newRows) - i : b[j] = newRows[i + j]
  BY <1>1
<1> HIDE DEF a, b
<1>5. newRows' \in Seq(News) /\ Len(newRows') = Len(newRows) - 1
  <2>1. a \o b \in Seq(News) /\ Len(a \o b) = Len(a) + Len(b)
    BY <1>3, <1>4, ConcatProperties
  <2>2. QED
    BY <1>1, <1>2, <1>3, <1>4, <2>1
<1>6. ASSUME NEW j \in 1 .. Len(newRows')
      PROVE  newRows'[j] = IF j < i THEN newRows[j] ELSE newRows[j + 1]
  <2>1. CASE j < i
    BY <1>1, <1>2, <1>3, <1>4, <1>5, <2>1
  <2>2. CASE ~(j < i)
    <3>1. newRows'[j] = b[j - (i - 1)] /\ j - (i - 1) \in 1 .. Len(newRows) - i
      BY <1>1, <1>2, <1>3, <1>4, <1>5, <2>2
    <3>2. b[j - (i - 1)] = newRows[i + (j - (i - 1))] /\ i + (j - (i - 1)) = j + 1
      BY <1>1, <1>4, <3>1
    <3>3. QED
      BY <2>2, <3>1, <3>2
  <2>3. QED
    BY <2>1, <2>2
<1>7. QED
  BY <1>1, <1>5, <1>6

(* Types: new rows are added and taken out.                                *)
LEMMA DataTypeNewRows ==
  ASSUME TypeOK, ShapeInv, NewRows
  PROVE  TypeOK' /\ ShapeInv'
<1>1. ASSUME NEW front \in BOOLEAN, NEW val \in 0 .. MaxEdits, newRow(front, val)
      PROVE  TypeOK' /\ ShapeInv'
  <2>1. /\ newRows' \in Seq(News) /\ made' \in [News -> 0 .. MaxEdits]
        /\ budget'["news"] \in News /\ budget' = spent("news")
    BY <1>1, NewRowStep
  <2>2. /\ budget' \in [Budget -> Nat] /\ budget'["edits"] = budget["edits"]
        /\ budget'["news"] <= MaxNews
    BY <2>1, SpentType DEF Budget, News
  <2>3. budget'["edits"] <= MaxEdits
    BY <2>2 DEF TypeOK
  <2>4. UNCHANGED <<table, added, pk, menu, view, editing, drafts, saving, calls, ghost>>
    BY <1>1 DEF newRow
  <2>5. QED
    BY <2>1, <2>2, <2>3, <2>4 DEF TypeOK, ShapeInv, view, calls, isRows, Keys
<1>2. ASSUME NEW i \in 1 .. MaxNews, RemoveDraft(i)
      PROVE  TypeOK' /\ ShapeInv'
  <2>1. newRows' \in Seq(News)
    BY <1>2, RemoveDraftStep
  <2>2. UNCHANGED <<table, added, pk, made, menu, view, editing, drafts, saving, calls, budget, ghost>>
    BY <1>2 DEF RemoveDraft
  <2>3. QED
    BY <2>1, <2>2 DEF TypeOK, ShapeInv, view, calls, isRows, Keys
<1>3. QED
  BY <1>1, <1>2 DEF NewRows

(* What becomes of the drafts when a text is typed, when the text of the   *)
(* row itself is, and otherwise; and of the saves when one begins.         *)
Typed ==
  /\ open /\ mayDo("edits", MaxEdits) /\ budget' = spent("edits")
  /\ drafts' = draftsWith(typed)
  /\ ghost'.meant = noteTyped.meant /\ ghost'.strayed = noteTyped.strayed
  /\ ghost'.kept = noteTyped.kept
Undone ==
  /\ open /\ budget' = budget
  /\ drafts' = [i \in DOMAIN drafts \ {cell.idx} |-> drafts[i]]
  /\ ghost'.meant = ghost.meant /\ ghost'.strayed = ghost.strayed
  /\ ghost'.kept = KeptElsewhere
Left ==
  /\ budget' = budget /\ drafts' = drafts
  /\ ghost'.meant = ghost.meant /\ ghost'.strayed = ghost.strayed /\ ghost'.kept = ghost.kept

Started(s) ==
  /\ saves' = saves \cup {s} /\ saving' = TRUE
  /\ s.q = query /\ s.ins = newRows /\ s.ups \in Seq(Update) /\ Takes(s, drafts')

(* The drafts a save may begin with.                                       *)
LEMMA DraftsType ==
  ASSUME TypeOK, ShapeInv, Typed \/ Undone \/ Left
  PROVE  /\ DOMAIN drafts' \subseteq DOMAIN rows /\ DOMAIN drafts' \subseteq 1 .. PageSize
         /\ \A i \in DOMAIN drafts' : drafts'[i] \in Edits
<1>1. CASE Typed
  BY <1>1, TypedDrafts DEF Typed
<1>2. CASE Undone \/ Left
  BY <1>2 DEF Undone, Left, TypeOK, ShapeInv
<1>3. QED
  BY <1>1, <1>2

(* A save begins with the drafts as the editor has left them.              *)
LEMMA StartedStep ==
  ASSUME TypeOK, ShapeInv, Typed \/ Undone \/ Left, start(drafts', newRows)
  PROVE  nextSave' \in 1 .. MaxSaves + 1 /\ \E s : Started(s)
<1>1. PICK d : d = drafts'
  OBVIOUS
<1>2. DOMAIN d \subseteq DOMAIN rows /\ \A i \in DOMAIN d : d[i] \in Edits
  BY <1>1, DraftsType
<1>3. start(d, newRows)
  BY <1>1
<1>4. PICK n : n = newRows
  OBVIOUS
<1>5. start(d, n)
  BY <1>3, <1>4
<1>6. /\ saving' = TRUE /\ nextSave' \in 1 .. MaxSaves + 1
      /\ \E s : /\ saves' = saves \cup {s} /\ s.q = query /\ s.ins = n
                /\ s.ups \in Seq(Update) /\ Takes(s, d)
  BY <1>2, <1>5, StartStep, Zenon
<1>7. PICK s : /\ saves' = saves \cup {s} /\ s.q = query /\ s.ins = n
               /\ s.ups \in Seq(Update) /\ Takes(s, d)
  BY <1>6
<1>8. Started(s)
  BY <1>1, <1>4, <1>6, <1>7 DEF Started
<1>9. QED
  BY <1>6, <1>8

(* What the ways to begin a save have in common.                           *)
LEMMA BeginStep ==
  ASSUME TypeOK, ShapeInv, Begin
  PROVE  /\ UNCHANGED <<table, added, pk, made, menu, view, newRows, req, loads, counts, dialog, deletes>>
         /\ Typed \/ Undone \/ Left
         /\ editing' = None \/ editing' = editing
         /\ ghost' \in Ghost /\ ghost'.risky = again(newRows)
         /\ ghost'.shown = ghost.shown /\ ghost'.stale = ghost.stale
         /\ nextSave' \in 1 .. MaxSaves + 1
         /\ (\E s : Started(s)) \/ (saves' = saves /\ saving' = saving)
<1>1. ghost \in Ghost /\ nextSave \in 1 .. MaxSaves + 1
  BY DEF TypeOK, Ghost
<1>2. again(newRows) \subseteq News
  <2>1. ToSet(newRows) \subseteq News
    <3>1. newRows \in Seq(News)
      BY DEF TypeOK
    <3>2. QED
      BY <3>1 DEF ToSet
  <2>2. QED
    BY <1>1, <2>1 DEF again, Ghost
<1>3. ASSUME ghost' = [ghost EXCEPT !.risky = again(newRows)]
      PROVE  /\ ghost' \in Ghost /\ ghost'.risky = again(newRows)
             /\ ghost'.shown = ghost.shown /\ ghost'.stale = ghost.stale
             /\ ghost'.meant = ghost.meant /\ ghost'.strayed = ghost.strayed
             /\ ghost'.kept = ghost.kept
  BY <1>1, <1>2, <1>3 DEF Ghost
<1>4. CASE SaveButton \/ handleSaveNewCellInline
  <2>1. /\ start(drafts', newRows) /\ drafts' = drafts /\ budget' = budget /\ editing' = editing
        /\ ghost' = [ghost EXCEPT !.risky = again(newRows)]
        /\ UNCHANGED <<table, added, pk, made, menu, view, newRows, req, loads, counts, dialog, deletes>>
    <3>1. drafts' = drafts /\ start(drafts, newRows)
      BY <1>4 DEF SaveButton, handleSaveNewCellInline
    <3>2. start(drafts', newRows)
      BY <3>1
    <3>3. QED
      BY <1>4, <3>1, <3>2 DEF SaveButton, handleSaveNewCellInline
  <2>2. Left
    BY <1>3, <2>1 DEF Left
  <2>3. QED
    BY <1>3, <2>1, <2>2, StartedStep
<1>5. CASE handleSaveCellInline
  <2>1. /\ open /\ mayDo("edits", MaxEdits) /\ budget' = spent("edits") /\ editing' = None
        /\ drafts' = draftsWith(typed)
        /\ ghost' = [noteTyped EXCEPT !.risky = again(newRows)]
        /\ UNCHANGED <<table, added, pk, made, menu, view, newRows, req, loads, counts, dialog, deletes>>
        /\ start(drafts', newRows) \/ UNCHANGED <<saves, nextSave, saving>>
    BY <1>5 DEF handleSaveCellInline, editorOpen
  <2>2. noteTyped \in Ghost /\ noteTyped.shown = ghost.shown /\ noteTyped.stale = ghost.stale
    <3>1. noteTyped \in Ghost
      BY <2>1, TypedGhost
    <3>2. noteTyped.shown = ghost.shown /\ noteTyped.stale = ghost.stale
      BY <1>1 DEF noteTyped, Ghost
    <3>3. QED
      BY <3>1, <3>2
  <2>3. /\ ghost' \in Ghost /\ ghost'.risky = again(newRows)
        /\ ghost'.shown = ghost.shown /\ ghost'.stale = ghost.stale
        /\ ghost'.meant = noteTyped.meant /\ ghost'.strayed = noteTyped.strayed
        /\ ghost'.kept = noteTyped.kept
    BY <1>2, <2>1, <2>2 DEF Ghost
  <2>4. Typed
    BY <2>1, <2>3 DEF Typed
  <2>5. QED
    BY <1>1, <2>1, <2>3, <2>4, StartedStep
<1>6. CASE SaveCellSame
  <2> DEFINE others == [i \in DOMAIN drafts \ {cell.idx} |-> drafts[i]]
  <2>1. /\ open /\ budget' = budget /\ editing' = None /\ start(drafts', newRows)
        /\ \/ drafts' = drafts /\ ghost' = [ghost EXCEPT !.risky = again(newRows)]
           \/ /\ drafts' = others
              /\ ghost' = [ghost EXCEPT !.risky = again(newRows), !.kept = KeptElsewhere]
        /\ UNCHANGED <<table, added, pk, made, menu, view, newRows, req, loads, counts, dialog, deletes>>
    BY <1>6 DEF SaveCellSame, KeptElsewhere, editorOpen
  <2>2. CASE ghost' = [ghost EXCEPT !.risky = again(newRows)] /\ drafts' = drafts
    <3>1. Left
      BY <1>3, <2>1, <2>2 DEF Left
    <3>2. QED
      BY <1>3, <2>1, <2>2, <3>1, StartedStep
  <2>3. CASE /\ ghost' = [ghost EXCEPT !.risky = again(newRows), !.kept = KeptElsewhere]
             /\ drafts' = others
    <3>1. KeptElsewhere \subseteq Edits
      BY <1>1 DEF KeptElsewhere, Ghost
    <3>2. /\ ghost' \in Ghost /\ ghost'.risky = again(newRows)
          /\ ghost'.shown = ghost.shown /\ ghost'.stale = ghost.stale
          /\ ghost'.meant = ghost.meant /\ ghost'.strayed = ghost.strayed
          /\ ghost'.kept = KeptElsewhere
      BY <1>1, <1>2, <2>3, <3>1 DEF Ghost
    <3>3. Undone
      BY <2>1, <2>3, <3>2 DEF Undone
    <3>4. QED
      BY <2>1, <3>2, <3>3, StartedStep
  <2>4. QED
    BY <2>1, <2>2, <2>3
<1>7. QED
  BY <1>4, <1>5, <1>6 DEF Begin

(* Types: a save begins.                                                   *)
LEMMA DataTypeBegin ==
  ASSUME TypeOK, ShapeInv, Begin
  PROVE  TypeOK' /\ ShapeInv'
<1>1. /\ UNCHANGED <<table, added, pk, made, menu, view, newRows, req, loads, counts, dialog, deletes>>
      /\ Typed \/ Undone \/ Left
      /\ editing' = None \/ editing' = editing
      /\ ghost' \in Ghost /\ nextSave' \in 1 .. MaxSaves + 1
      /\ (\E s : Started(s)) \/ (saves' = saves /\ saving' = saving)
  BY BeginStep
<1>2. /\ DOMAIN drafts' \subseteq DOMAIN rows /\ DOMAIN drafts' \subseteq 1 .. PageSize
      /\ \A i \in DOMAIN drafts' : drafts'[i] \in Edits
  BY <1>1, DraftsType
<1>3. /\ budget' \in [Budget -> Nat]
      /\ budget'["edits"] <= MaxEdits /\ budget'["news"] <= MaxNews
  <2>1. CASE Typed
    BY <2>1, TypedGhost DEF Typed
  <2>2. CASE Undone \/ Left
    BY <2>2 DEF Undone, Left, TypeOK
  <2>3. QED
    BY <1>1, <2>1, <2>2
<1>4. /\ saving' \in BOOLEAN
      /\ \A s \in saves' : s.q \in Query /\ s.ins \in Seq(News) /\ s.ups \in Seq(Update)
  <2>1. ASSUME NEW s, Started(s)
        PROVE  /\ saving' \in BOOLEAN
               /\ \A t \in saves' : t.q \in Query /\ t.ins \in Seq(News) /\ t.ups \in Seq(Update)
    BY <2>1 DEF Started, TypeOK
  <2>2. CASE saves' = saves /\ saving' = saving
    BY <2>2 DEF TypeOK
  <2>3. QED
    BY <1>1, <2>1, <2>2
<1>5. QED
  BY <1>1, <1>2, <1>3, <1>4 DEF TypeOK, Ghost, ShapeInv, view, isRows, Keys

(* Types: the user asks another query.                                     *)
LEMMA DataTypeAsk ==
  ASSUME TypeOK, ShapeInv, NEW q \in Query, Ask(q)
  PROVE  TypeOK' /\ ShapeInv'
<1>1. budget' = spent("moves") /\ query' = q /\ issue(q)
  BY DEF Ask
<1>2. /\ budget' \in [Budget -> Nat]
      /\ budget'["edits"] <= MaxEdits /\ budget'["news"] <= MaxNews
  BY <1>1, SpentSafely
<1>3. /\ req' \in Nat /\ loading' = TRUE
      /\ \A l \in loads' : l.id \in 1 .. req' /\ l.q \in Query /\ isRows(l.got)
      /\ \A c \in counts : c.id \in 1 .. req' /\ c.where \in Wheres
  BY <1>1, IssueType
<1>4. ghost' \in Ghost
  BY DEF Ask, TypeOK, Ghost
<1>5. UNCHANGED <<table, added, pk, made, menu, rows, total, counting, input, counts, saves, dialog,
                  deletes, nextSave>>
  BY DEF Ask
<1>6. QED
  BY <1>1, <1>2, <1>3, <1>4, <1>5 DEF TypeOK, Ghost, ShapeInv, input, isRows, Keys

Types == TypeOK /\ ShapeInv

(* Types: the first state.                                                 *)
LEMMA DataTypeInit ==
  ASSUME Init
  PROVE  Types
<1>1. firstQuery \in Query
  BY WheresAssumption DEF firstQuery, Query
<1>2. Keys \subseteq AllKeys /\ \A k \in Keys : table[k] \in 0 .. MaxEdits
  BY Bounds DEF Init, Keys, AllKeys
<1>3. isRows(rows) /\ rows = <<>> /\ newRows \in Seq(News)
  BY EmptySeq DEF Init, isRows
<1>4. total \in 0 .. Cardinality(AllKeys)
  <2>1. FirstKeys + 2 * MaxNews \in Int
    BY Bounds
  <2>2. IsFiniteSet(AllKeys)
    BY <2>1, FS_Interval DEF AllKeys
  <2>3. Cardinality(AllKeys) \in Nat
    BY <2>2, FS_CardinalityType
  <2>4. QED
    BY <2>3 DEF Init
<1>5. {pk, loading, counting, saving} \subseteq BOOLEAN /\ req \in Nat
  BY DEF Init
<1>6. \A l \in loads : l.id \in 1 .. req /\ l.q \in Query /\ isRows(l.got)
  BY <1>1, <1>3 DEF Init
<1>7. DOMAIN added = {} /\ DOMAIN drafts = {} /\ editing = None /\ menu = None
      /\ dialog = None /\ made \in [News -> 0 .. MaxEdits]
  BY Bounds DEF Init, emptyFn
<1>8. /\ budget \in [Budget -> Nat] /\ nextSave \in 1 .. MaxSaves + 1
      /\ budget["edits"] <= MaxEdits /\ budget["news"] <= MaxNews
  BY Bounds DEF Init, Budget
<1>9. ghost \in Ghost
  BY <1>1 DEF Init, Ghost
<1>10. counts = {} /\ saves = {} /\ deletes = {} /\ query \in Query
  BY <1>1 DEF Init
<1>11. QED
  BY <1>2, <1>3, <1>4, <1>5, <1>6, <1>7, <1>8, <1>9, <1>10
  DEF Types, TypeOK, Ghost, ShapeInv

(* Every step keeps the types.                                             *)
LEMMA DataTypeNext ==
  ASSUME Types, [Next]_vars
  PROVE  Types'
<1>1. TypeOK /\ ShapeInv
  BY DEF Types
<1>2. CASE StructureReturn
  BY <1>1, <1>2 DEF StructureReturn, Types, TypeOK, ShapeInv, view, input, calls, isRows, Keys
<1>3. CASE UNCHANGED vars
  BY <1>1, <1>3 DEF vars, Types, TypeOK, ShapeInv, view, input, calls, isRows, Keys
<1>4. QED
  BY <1>1, <1>2, <1>3, DataStepKinds, DataTypeLoading, DataTypeCounting, DataTypeSaving,
     DataTypeDeleting, DataTypeEditing, DataTypeNewRows, DataTypeBegin, DataTypeAsk
  DEF Types

(* The types hold in every state.                                          *)
LEMMA DataTypes ==
  Spec => []Types
<1>1. Init => Types
  BY DataTypeInit
<1>2. Types /\ [Next]_vars => Types'
  BY DataTypeNext
<1>3. QED
  BY <1>1, <1>2, PTL DEF Spec

(* Types: every index has its row and every key its table, whatever        *)
(* replaces the rows of loadData under the drafts and the open editor.     *)
THEOREM DataTypeCorrect ==
  Spec => []TypeOK
<1>1. Types => TypeOK
  BY DEF Types
<1>2. QED
  BY <1>1, DataTypes, PTL

-----------------------------------------------------------------------------
(* The requests.                                                           *)
LEMMA IssueRequest ==
  ASSUME Types, RequestInv, NEW q \in Query, issue(q)
  PROVE  /\ req' = req + 1 /\ req \in Nat
         /\ loading' <=> \E l \in loads' : l.id = req'
         /\ \A l, m \in loads' : l.id = m.id => l = m
         /\ \A l \in loads' : l.id = req' => l.q = q /\ ~l.read /\ l.got = <<>>
         /\ \A c \in counts : c.id # req'
<1> DEFINE m == [id |-> req + 1, q |-> q, read |-> FALSE, got |-> <<>>]
<1>1. req' = req + 1 /\ loads' = loads \cup {m} /\ loading' = TRUE
  BY DEF issue
<1>2. m.id = req + 1 /\ m.q = q /\ ~m.read /\ m.got = <<>>
  OBVIOUS
<1> HIDE DEF m
<1>3. req \in Nat /\ (\A l \in loads : l.id \in 1 .. req) /\ \A c \in counts : c.id \in 1 .. req
  BY DEF Types, TypeOK
<1>4. (\A l \in loads : l.id # req + 1) /\ \A c \in counts : c.id # req + 1
  BY <1>3
<1>5. \A l, n \in loads : l.id = n.id => l = n
  BY DEF RequestInv
<1>6. \A l, n \in loads' : l.id = n.id => l = n
  BY <1>1, <1>2, <1>4, <1>5
<1>7. loading' <=> \E l \in loads' : l.id = req'
  BY <1>1, <1>2
<1>8. \A l \in loads' : l.id = req' => l.q = q /\ ~l.read /\ l.got = <<>>
  BY <1>1, <1>2, <1>4
<1>9. QED
  BY <1>1, <1>3, <1>4, <1>6, <1>7, <1>8

(* What happens to a call of loadData.                                     *)
LEMMA RequestLoading ==
  ASSUME Types, RequestInv, NEW l \in loads, Loading(l)
  PROVE  RequestInv'
<1>1. /\ loading <=> \E m \in loads : m.id = req
      /\ saving => saves # {}
      /\ \A m, n \in loads : m.id = n.id => m = n
  BY DEF RequestInv, SpinnersHonest
<1>2. req' = req /\ saving' = saving /\ saves' = saves
  BY DEF Loading, LoadRead, LoadReturn, LoadFail, input
<1>3. CASE LoadRead(l)
  <2>1. PICK got : loads' = (loads \ {l}) \cup {[id |-> l.id, q |-> l.q, read |-> TRUE, got |-> got]}
    BY <1>3 DEF LoadRead
  <2> DEFINE k == [id |-> l.id, q |-> l.q, read |-> TRUE, got |-> got]
  <2>2. k.id = l.id /\ loads' = (loads \ {l}) \cup {k} /\ loading' = loading
    BY <1>3, <2>1 DEF LoadRead, view
  <2> HIDE DEF k
  <2>3. \A m, n \in loads' : m.id = n.id => m = n
    BY <1>1, <2>2
  <2>4. (\E m \in loads' : m.id = req) <=> (\E m \in loads : m.id = req)
    BY <2>2
  <2>5. QED
    BY <1>1, <1>2, <2>2, <2>3, <2>4 DEF RequestInv, SpinnersHonest
<1>4. CASE LoadReturn(l) \/ LoadFail(l)
  <2>1. loads' = loads \ {l} /\ (loading' <=> loading /\ l.id # req)
    <3>1. CASE LoadFail(l)
      BY <3>1 DEF LoadFail
    <3>2. CASE LoadReturn(l)
      BY <3>2 DEF LoadReturn
    <3>3. QED
      BY <1>4, <3>1, <3>2
  <2>2. loading' <=> \E m \in loads' : m.id = req
    BY <1>1, <2>1
  <2>3. QED
    BY <1>1, <1>2, <2>1, <2>2 DEF RequestInv, SpinnersHonest
<1>5. QED
  BY <1>3, <1>4 DEF Loading

(* The other steps leave the requests alone or send one.                   *)
LEMMA RequestKept ==
  ASSUME RequestInv, UNCHANGED <<req, loads, loading>>, saving' => saves' # {}
  PROVE  RequestInv'
BY DEF RequestInv, SpinnersHonest

(* A request that is sent keeps RequestInv: its number is new.             *)
LEMMA RequestSent ==
  ASSUME Types, RequestInv, NEW q \in Query, issue(q), saving' => saves' # {}
  PROVE  RequestInv'
BY IssueRequest DEF RequestInv, SpinnersHonest

(* RequestInv holds at first.                                              *)
LEMMA RequestInit ==
  ASSUME Init
  PROVE  RequestInv
<1> DEFINE m == [id |-> 1, q |-> firstQuery, read |-> FALSE, got |-> <<>>]
<1>1. loads = {m} /\ req = 1 /\ loading = TRUE /\ saving = FALSE
  BY DEF Init
<1>2. m.id = 1
  OBVIOUS
<1> HIDE DEF m
<1>3. QED
  BY <1>1, <1>2 DEF RequestInv, SpinnersHonest

(* Every step keeps RequestInv.                                            *)
LEMMA RequestNext ==
  ASSUME Types, RequestInv, [Next]_vars
  PROVE  RequestInv'
<1>1. TypeOK /\ ShapeInv
  BY DEF Types
<1>2. saving => saves # {}
  BY DEF RequestInv, SpinnersHonest
<1>3. ASSUME NEW s \in saves, Saving(s)
      PROVE  RequestInv'
  <2>1. CASE SaveStep(s)
    <3>1. UNCHANGED <<req, loads, loading>> /\ saves' # {}
      BY <2>1 DEF SaveStep, view
    <3>2. QED
      BY <3>1, RequestKept
  <2>2. CASE SaveDone(s)
    <3>1. s.q \in Query /\ issue(s.q) /\ saving' = FALSE
      BY <1>1, <2>2 DEF SaveDone, TypeOK
    <3>2. QED
      BY <3>1, RequestSent
  <2>3. CASE SaveFail(s)
    BY <2>3, RequestKept DEF SaveFail, view
  <2>4. QED
    BY <1>3, <2>1, <2>2, <2>3 DEF Saving
<1>4. CASE Deleting
  <2>1. saving' = saving /\ saves' = saves
    BY <1>4 DEF Deleting, DeleteDone, DeleteFail, DeleteDialog, CancelDelete, ConfirmDelete,
       input
  <2>2. ASSUME NEW d \in deletes, DeleteDone(d)
        PROVE  RequestInv'
    <3>1. d.q \in Query /\ issue(d.q)
      BY <1>1, <2>2 DEF DeleteDone, TypeOK
    <3>2. QED
      BY <1>2, <2>1, <3>1, RequestSent
  <2>3. CASE UNCHANGED <<req, loads, loading>>
    BY <1>2, <2>1, <2>3, RequestKept
  <2>4. (\E d \in deletes : DeleteDone(d)) \/ UNCHANGED <<req, loads, loading>>
    BY <1>4 DEF Deleting, DeleteFail, DeleteDialog, CancelDelete, ConfirmDelete, view
  <2>5. QED
    BY <2>2, <2>3, <2>4
<1>5. CASE Begin
  <2>1. UNCHANGED <<req, loads, loading>>
    BY <1>1, <1>5, BeginStep DEF view
  <2>2. (\E s : Started(s)) \/ (saves' = saves /\ saving' = saving)
    BY <1>1, <1>5, BeginStep
  <2>3. saving' => saves' # {}
    BY <1>2, <2>2 DEF Started
  <2>4. QED
    BY <2>1, <2>3, RequestKept
<1>6. ASSUME NEW q \in Query, Ask(q)
      PROVE  RequestInv'
  <2>1. issue(q) /\ saving' = saving /\ saves' = saves
    BY <1>6 DEF Ask, input
  <2>2. QED
    BY <1>2, <2>1, RequestSent
<1>7. CASE UNCHANGED <<req, loads, loading, saving, saves>>
  BY <1>2, <1>7, RequestKept
<1>8. ASSUME (\E c \in counts : Counting(c)) \/ Editing \/ NewRows \/ StructureReturn \/ UNCHANGED vars
      PROVE  UNCHANGED <<req, loads, loading, saving, saves>>
  BY <1>8 DEF Counting, CountReturn, CountFail, Editing, OpenEditor, CancelEditor,
     handleCellContextMenu, CloseMenu,
     handleCommitCell, CommitSame, handleDiscardAll, NewRows, newRow, RemoveDraft,
     StructureReturn,
     vars, view, input, calls
<1>9. QED
  BY <1>1, <1>3, <1>4, <1>5, <1>6, <1>7, <1>8, DataStepKinds, RequestLoading

(* RequestInv holds in every state.                                        *)
LEMMA Requests ==
  Spec => [](Types /\ RequestInv)
<1>1. Init => RequestInv
  BY RequestInit
<1>2. Types /\ RequestInv /\ [Next]_vars => RequestInv'
  BY RequestNext
<1>3. QED
  BY <1>1, <1>2, DataTypes, PTL DEF Spec

(* Spinners honest: loadDataReqIdRef gives one call the right to end the   *)
(* spinner, and that call is under way exactly while it turns; setSaving   *)
(* is reset by every end of handleSaveAll.                                 *)
THEOREM DataSpinnersHonest ==
  Spec => []SpinnersHonest
<1>1. RequestInv => SpinnersHonest
  BY DEF RequestInv
<1>2. QED
  BY <1>1, Requests, PTL

-----------------------------------------------------------------------------
(* The fresh view.                                                         *)
LEMMA AnswersKept ==
  ASSUME table' = table, ghost'.shown = ghost.shown
  PROVE  /\ answers(ghost.shown)' = answers(ghost.shown)
         /\ matching(ghost.shown.where)' = matching(ghost.shown.where)
<1>1. Keys' = Keys
  BY DEF Keys
<1>2. matching(ghost.shown.where)' = matching(ghost.shown.where)
  BY <1>1 DEF matching
<1>3. offset(ghost.shown)' = offset(ghost.shown)
  BY DEF offset
<1>4. places(ghost.shown)' = places(ghost.shown)
  BY <1>2, <1>3 DEF places
<1>5. \A k : before(ghost.shown, k)' = before(ghost.shown, k)
  BY <1>2 DEF before
<1>6. QED
  BY <1>2, <1>3, <1>4, <1>5 DEF answers

(* FreshInv, when no answer comes and no request is sent.                  *)
LEMMA FreshKept ==
  ASSUME FreshInv, UNCHANGED <<req, loads, counts>>, ghost'.shown = ghost.shown,
         \/ saves' # {} \/ ghost'.stale
         \/ saves' = saves /\ ghost'.stale = ghost.stale /\ UNCHANGED <<table, rows, total>>
  PROVE  FreshInv'
<1>1. AskInv'
  BY DEF AskInv, FreshInv
<1>2. ASSUME saves' = {}, ~ghost'.stale
      PROVE  GotInv'
  <2>1. saves' = saves /\ ghost'.stale = ghost.stale /\ UNCHANGED <<table, rows, total>>
    BY <1>2
  <2>2. GotInv
    BY <1>2, <2>1 DEF FreshInv
  <2>3. /\ answers(ghost.shown)' = answers(ghost.shown)
        /\ matching(ghost.shown.where)' = matching(ghost.shown.where)
    BY <2>1, AnswersKept
  <2>4. QED
    BY <2>1, <2>2, <2>3 DEF GotInv
<1>3. QED
  BY <1>1, <1>2 DEF FreshInv

(* A request for the query last sent brings FreshInv about.                *)
LEMMA FreshSent ==
  ASSUME Types, RequestInv, NEW q \in Query, issue(q), ghost'.shown = q, counts' = counts
  PROVE  FreshInv'
<1>1. /\ req' = req + 1
      /\ loading' <=> \E l \in loads' : l.id = req'
      /\ \A l \in loads' : l.id = req' => l.q = q /\ ~l.read
      /\ \A c \in counts : c.id # req'
  BY IssueRequest
<1>2. \E l \in loads' : l.id = req'
  BY <1>1 DEF issue
<1>3. AskInv'
  BY <1>1 DEF AskInv
<1>4. GotInv'
  BY <1>1, <1>2 DEF GotInv
<1>5. QED
  BY <1>3, <1>4 DEF FreshInv

(* FreshInv, when rows are read, shown or fail to come.                    *)
LEMMA FreshLoading ==
  ASSUME Types, RequestInv, FreshInv, NEW l \in loads, Loading(l)
  PROVE  FreshInv'
<1>1. AskInv /\ (saves = {} /\ ~ghost.stale => GotInv)
  BY DEF FreshInv
<1>2. \A m, n \in loads : m.id = n.id => m = n
  BY DEF RequestInv
<1>3. req' = req /\ saves' = saves /\ table' = table /\ ghost'.shown = ghost.shown
  <2>1. req' = req /\ saves' = saves /\ table' = table
    BY DEF Loading, LoadRead, LoadReturn, LoadFail
  <2>2. ghost' = ghost \/ ghost' = [ghost EXCEPT !.stale = @ \/ l.id = req]
    BY DEF Loading, LoadRead, LoadReturn, LoadFail
  <2>3. ghost \in Ghost
    BY DEF Types, TypeOK, Ghost
  <2>4. QED
    BY <2>1, <2>2, <2>3 DEF Ghost
<1>4. /\ answers(ghost.shown)' = answers(ghost.shown)
      /\ matching(ghost.shown.where)' = matching(ghost.shown.where)
  BY <1>3, AnswersKept
<1>5. CASE LoadRead(l)
  <2>1. PICK got \in answers(l.q) :
          loads' = (loads \ {l}) \cup {[id |-> l.id, q |-> l.q, read |-> TRUE, got |-> got]}
    BY <1>5 DEF LoadRead
  <2> DEFINE k == [id |-> l.id, q |-> l.q, read |-> TRUE, got |-> got]
  <2>2. k.id = l.id /\ k.q = l.q /\ k.got = got /\ loads' = (loads \ {l}) \cup {k}
    BY <2>1
  <2> HIDE DEF k
  <2>3. ghost' = ghost /\ counts' = counts /\ rows' = rows /\ total' = total
    BY <1>5 DEF LoadRead, view
  <2>4. AskInv'
    BY <1>1, <1>3, <2>2, <2>3 DEF AskInv
  <2>5. ASSUME saves' = {}, ~ghost'.stale
        PROVE  GotInv'
    <3>1. GotInv
      BY <1>1, <1>3, <2>3, <2>5
    <3>2. l.id = req => got \in answers(ghost.shown)
      BY <1>1, <2>1 DEF AskInv
    <3>3. \A m \in loads' : m.id = req /\ m.read => m.got \in answers(ghost.shown)
      BY <2>2, <3>1, <3>2 DEF GotInv
    <3>4. (\A m \in loads' : m.id # req) => \A m \in loads : m.id # req
      BY <2>2
    <3>5. QED
      BY <1>3, <1>4, <2>3, <3>1, <3>3, <3>4 DEF GotInv
  <2>6. QED
    BY <2>4, <2>5 DEF FreshInv
<1>6. CASE LoadReturn(l)
  <2>1. l \in loads /\ l.read /\ loads' = loads \ {l} /\ ghost' = ghost /\ total' = total
    BY <1>6 DEF LoadReturn
  <2>2. CASE l.id = req
    <3> DEFINE c == [id |-> l.id, where |-> l.q.where]
    <3>1. rows' = l.got /\ counts' = counts \cup {c}
      BY <1>6, <2>2 DEF LoadReturn
    <3>2. c.id = req /\ c.where = l.q.where
      BY <2>2
    <3> HIDE DEF c
    <3>3. AskInv'
      BY <1>1, <1>3, <2>1, <2>2, <3>1, <3>2 DEF AskInv
    <3>4. ASSUME saves' = {}, ~ghost'.stale
          PROVE  GotInv'
      <4>1. l.got \in answers(ghost.shown)
        BY <1>1, <1>3, <2>1, <2>2, <3>4 DEF GotInv
      <4>2. \A m \in loads' : m.id # req
        BY <1>2, <2>1, <2>2
      <4>3. QED
        BY <1>3, <1>4, <3>1, <3>2, <4>1, <4>2 DEF GotInv
    <3>5. QED
      BY <3>3, <3>4 DEF FreshInv
  <2>3. CASE l.id # req
    <3>1. rows' = rows /\ counts' = counts
      BY <1>6, <2>3 DEF LoadReturn
    <3>2. AskInv'
      BY <1>1, <1>3, <2>1, <3>1 DEF AskInv
    <3>3. ASSUME saves' = {}, ~ghost'.stale
          PROVE  GotInv'
      <4>1. GotInv
        BY <1>1, <1>3, <2>1, <3>3
      <4>2. (\A m \in loads' : m.id # req) => \A m \in loads : m.id # req
        BY <2>1, <2>3
      <4>3. QED
        BY <1>3, <1>4, <2>1, <3>1, <4>1, <4>2 DEF GotInv
    <3>4. QED
      BY <3>2, <3>3 DEF FreshInv
  <2>4. QED
    BY <2>2, <2>3
<1>7. CASE LoadFail(l)
  <2>1. /\ loads' = loads \ {l} /\ counts' = counts /\ rows' = rows /\ total' = total
        /\ ghost'.stale <=> (ghost.stale \/ l.id = req)
    <3>1. ghost \in Ghost /\ ghost' = [ghost EXCEPT !.stale = @ \/ l.id = req]
      BY <1>7 DEF LoadFail, Types, TypeOK, Ghost
    <3>2. ghost'.stale <=> (ghost.stale \/ l.id = req)
      BY <3>1 DEF Ghost
    <3>3. QED
      BY <1>7, <3>2 DEF LoadFail
  <2>2. AskInv'
    BY <1>1, <1>3, <2>1 DEF AskInv
  <2>3. ASSUME saves' = {}, ~ghost'.stale
        PROVE  GotInv'
    <3>1. GotInv /\ l.id # req
      BY <1>1, <1>3, <2>1, <2>3
    <3>2. (\A m \in loads' : m.id # req) => \A m \in loads : m.id # req
      BY <2>1, <3>1
    <3>3. QED
      BY <1>3, <1>4, <2>1, <3>1, <3>2 DEF GotInv
  <2>4. QED
    BY <2>2, <2>3 DEF FreshInv
<1>8. QED
  BY <1>5, <1>6, <1>7 DEF Loading

(* FreshInv, when a count is read, shown or fails to come.                 *)
LEMMA FreshCounting ==
  ASSUME Types, FreshInv, NEW c \in counts, Counting(c)
  PROVE  FreshInv'
<1>1. AskInv /\ (saves = {} /\ ~ghost.stale => GotInv)
  BY DEF FreshInv
<1>2. ghost \in Ghost
  BY DEF Types, TypeOK, Ghost
<1>3. /\ req' = req /\ saves' = saves /\ table' = table /\ loads' = loads /\ rows' = rows
      /\ counts' = counts \ {c}
  BY DEF Counting, CountReturn, CountFail
<1>4. CASE CountReturn(c)
  <2>1. ghost' = ghost
    BY <1>4 DEF CountReturn
  <2>2. /\ answers(ghost.shown)' = answers(ghost.shown)
        /\ matching(ghost.shown.where)' = matching(ghost.shown.where)
    BY <1>3, <2>1, AnswersKept
  <2>3. AskInv'
    BY <1>1, <1>3, <2>1 DEF AskInv
  <2>4. ASSUME saves' = {}, ~ghost'.stale
        PROVE  GotInv'
    <3>1. GotInv
      BY <1>1, <1>3, <2>1, <2>4
    <3>2. CASE c.id = req
      <4>1. total' = Cardinality(matching(ghost.shown.where))
        BY <1>1, <1>4, <3>2 DEF CountReturn, AskInv
      <4>2. QED
        BY <1>3, <2>2, <3>1, <4>1 DEF GotInv
    <3>3. CASE c.id # req
      <4>1. total' = total
        BY <1>4, <3>3 DEF CountReturn
      <4>2. QED
        BY <1>3, <2>2, <3>1, <3>3, <4>1 DEF GotInv
    <3>4. QED
      BY <3>2, <3>3
  <2>5. QED
    BY <2>3, <2>4 DEF FreshInv
<1>5. CASE CountFail(c)
  <2>1. ghost' = [ghost EXCEPT !.stale = @ \/ c.id = req] /\ total' = total
    BY <1>5 DEF CountFail
  <2>2. ghost'.shown = ghost.shown /\ (ghost'.stale <=> (ghost.stale \/ c.id = req))
    BY <1>2, <2>1 DEF Ghost
  <2>3. /\ answers(ghost.shown)' = answers(ghost.shown)
        /\ matching(ghost.shown.where)' = matching(ghost.shown.where)
    BY <1>3, <2>2, AnswersKept
  <2>4. AskInv'
    BY <1>1, <1>3, <2>2 DEF AskInv
  <2>5. ASSUME saves' = {}, ~ghost'.stale
        PROVE  GotInv'
    <3>1. GotInv /\ c.id # req
      BY <1>1, <1>3, <2>2, <2>5
    <3>2. QED
      BY <1>3, <2>1, <2>3, <3>1 DEF GotInv
  <2>6. QED
    BY <2>4, <2>5 DEF FreshInv
<1>6. QED
  BY <1>4, <1>5 DEF Counting

(* FreshInv holds at first.                                                *)
LEMMA FreshInit ==
  ASSUME Init
  PROVE  FreshInv
<1> DEFINE m == [id |-> 1, q |-> firstQuery, read |-> FALSE, got |-> <<>>]
<1>1. loads = {m} /\ req = 1 /\ counts = {} /\ ghost.shown = firstQuery
  BY DEF Init
<1>2. m.id = 1 /\ m.q = firstQuery /\ ~m.read
  OBVIOUS
<1> HIDE DEF m
<1>3. QED
  BY <1>1, <1>2 DEF FreshInv, AskInv, GotInv

(* Every step keeps FreshInv.                                              *)
LEMMA FreshNext ==
  ASSUME Types, RequestInv, FreshInv, [Next]_vars
  PROVE  FreshInv'
<1>1. TypeOK /\ ShapeInv /\ ghost \in Ghost
  BY DEF Types, TypeOK, Ghost
<1>2. ASSUME NEW s \in saves, Saving(s)
      PROVE  FreshInv'
  <2>1. CASE SaveStep(s)
    <3>1. UNCHANGED <<req, loads, counts>> /\ saves' # {} /\ ghost' = ghost
      BY <2>1 DEF SaveStep
    <3>2. QED
      BY <3>1, FreshKept
  <2>2. CASE SaveDone(s)
    <3>1. s.q \in Query /\ issue(s.q) /\ counts' = counts
      BY <1>1, <2>2 DEF SaveDone, TypeOK
    <3>2. ghost'.shown = s.q
      BY <1>1, <2>2 DEF SaveDone, Ghost
    <3>3. QED
      BY <3>1, <3>2, FreshSent
  <2>3. CASE SaveFail(s)
    <3>1. UNCHANGED <<req, loads, counts>>
      BY <2>3 DEF SaveFail
    <3>2. ghost'.shown = ghost.shown /\ ghost'.stale
      BY <1>1, <2>3 DEF SaveFail, Ghost
    <3>3. QED
      BY <3>1, <3>2, FreshKept
  <2>4. QED
    BY <1>2, <2>1, <2>2, <2>3 DEF Saving
<1>3. CASE Deleting
  <2>1. ASSUME NEW d \in deletes, DeleteDone(d)
        PROVE  FreshInv'
    <3>1. d.q \in Query /\ issue(d.q) /\ counts' = counts
      BY <1>1, <2>1 DEF DeleteDone, TypeOK
    <3>2. ghost'.shown = d.q
      BY <1>1, <2>1 DEF DeleteDone, Ghost
    <3>3. QED
      BY <3>1, <3>2, FreshSent
  <2>2. CASE ~\E d \in deletes : DeleteDone(d)
    <3>1. UNCHANGED <<req, loads, counts, saves, table, rows, total>>
      BY <1>3, <2>2 DEF Deleting, DeleteFail, DeleteDialog, CancelDelete, ConfirmDelete, view
    <3>2. ghost' = ghost \/ ghost' = [ghost EXCEPT !.kept = {}]
      BY <1>3, <2>2 DEF Deleting, DeleteFail, DeleteDialog, CancelDelete, ConfirmDelete
    <3>3. ghost'.shown = ghost.shown /\ ghost'.stale = ghost.stale
      BY <1>1, <3>2 DEF Ghost
    <3>4. QED
      BY <3>1, <3>3, FreshKept
  <2>3. QED
    BY <2>1, <2>2
<1>4. CASE Editing \/ NewRows
  <2>1. UNCHANGED <<req, loads, counts, saves, table, rows, total>>
    BY <1>4 DEF Editing, OpenEditor, handleCellContextMenu, CloseMenu, CancelEditor,
       handleCommitCell, CommitSame, handleDiscardAll,
       NewRows, newRow, RemoveDraft, view, calls
  <2>2. \/ ghost' = ghost \/ ghost' = noteTyped
        \/ ghost' = [ghost EXCEPT !.kept = KeptElsewhere]
        \/ ghost' = [ghost EXCEPT !.kept = {}]
    BY <1>4 DEF Editing, OpenEditor, handleCellContextMenu, CloseMenu, CancelEditor,
       handleCommitCell, CommitSame, handleDiscardAll,
       NewRows, newRow, RemoveDraft, KeptElsewhere
  <2>3. noteTyped.shown = ghost.shown /\ noteTyped.stale = ghost.stale
    BY <1>1 DEF noteTyped, Ghost
  <2>4. ghost'.shown = ghost.shown /\ ghost'.stale = ghost.stale
    BY <1>1, <2>2, <2>3 DEF Ghost
  <2>5. QED
    BY <2>1, <2>4, FreshKept
<1>5. CASE Begin
  <2>1. /\ UNCHANGED <<req, loads, counts>> /\ UNCHANGED <<table, rows, total>>
        /\ ghost'.shown = ghost.shown /\ ghost'.stale = ghost.stale
        /\ (\E s : Started(s)) \/ (saves' = saves /\ saving' = saving)
    BY <1>1, <1>5, BeginStep DEF view
  <2>2. saves' # {} \/ saves' = saves
    BY <2>1 DEF Started
  <2>3. QED
    BY <2>1, <2>2, FreshKept
<1>6. ASSUME NEW q \in Query, Ask(q)
      PROVE  FreshInv'
  <2>1. issue(q) /\ counts' = counts
    BY <1>6 DEF Ask
  <2>2. ghost'.shown = q
    BY <1>1, <1>6 DEF Ask, Ghost
  <2>3. QED
    BY <2>1, <2>2, FreshSent
<1>7. CASE StructureReturn \/ UNCHANGED vars
  <2>1. UNCHANGED <<req, loads, counts, saves, table, rows, total, ghost>>
    BY <1>7 DEF StructureReturn, vars, view, calls
  <2>2. QED
    BY <2>1, FreshKept
<1>8. QED
  BY <1>1, <1>2, <1>3, <1>4, <1>5, <1>6, <1>7, DataStepKinds, FreshLoading, FreshCounting

(* Fresh view: once every call has returned and none failed, the rows and  *)
(* the total shown are the answer to the last query that loadData was      *)
(* called with, whatever overtook what on the way.                         *)
THEOREM DataFreshView ==
  Spec => []FreshView
<1>1. Init => FreshInv
  BY FreshInit
<1>2. Types /\ RequestInv /\ FreshInv /\ [Next]_vars => FreshInv'
  BY FreshNext
<1>3. FreshInv => FreshView
  BY DEF FreshInv, GotInv, FreshView
<1>4. QED
  BY <1>1, <1>2, <1>3, Requests, PTL DEF Spec

-----------------------------------------------------------------------------
(* The changes.  Only a text that is typed adds a meaning; every other     *)
(* step keeps the drafts with their rows, or drops them.                   *)
SameMeaning ==
  /\ budget'["edits"] = budget["edits"]
  /\ ghost'.meant = ghost.meant /\ ghost'.strayed = ghost.strayed
  /\ ghost'.kept = ghost.kept \/ ghost'.kept = {}

(* They are dropped when the last request is answered, a save has written  *)
(* all, or the user discards them.                                         *)
Settled ==
  \/ ghost'.kept = {}
  \/ \E l \in loads : l.id = req
  \/ \E s \in saves : s.ups = <<>>

(* What a step can do to the drafts and to the rows they are made on.      *)
LEMMA DraftKinds ==
  ASSUME Types, [Next]_vars
  PROVE  \/ (Typed \/ Undone) /\ rows' = rows
         \/ SameMeaning /\ drafts' = drafts /\ rows' = rows
         \/ SameMeaning /\ DOMAIN drafts' = {} /\ Settled
<1>1. TypeOK /\ ShapeInv /\ ghost \in Ghost
  BY DEF Types, TypeOK, Ghost
<1>2. ASSUME ghost' = ghost, budget' = budget \/ budget' = spent("fails") \/ budget' = spent("moves")
                             \/ budget' = spent("news")
      PROVE  SameMeaning
  <2>1. budget'["edits"] = budget["edits"]
    BY <1>1, <1>2, SpentType DEF Budget
  <2>2. QED
    BY <1>2, <2>1 DEF SameMeaning
<1>3. ASSUME NEW l \in loads, Loading(l)
      PROVE  /\ SameMeaning
             /\ (drafts' = drafts /\ rows' = rows) \/ (DOMAIN drafts' = {} /\ Settled)
  <2>1. CASE LoadRead(l)
    BY <1>2, <2>1 DEF LoadRead, view, input
  <2>2. CASE LoadReturn(l)
    <3>1. SameMeaning
      BY <1>2, <2>2 DEF LoadReturn
    <3>2. CASE l.id = req
      BY <2>2, <3>1, <3>2 DEF LoadReturn, emptyFn, Settled
    <3>3. CASE l.id # req
      BY <2>2, <3>1, <3>3 DEF LoadReturn
    <3>4. QED
      BY <3>2, <3>3
  <2>3. CASE LoadFail(l)
    <3>1. budget' = spent("fails") /\ drafts' = drafts /\ rows' = rows
      BY <2>3 DEF LoadFail, input
    <3>2. /\ ghost'.meant = ghost.meant /\ ghost'.strayed = ghost.strayed
          /\ ghost'.kept = ghost.kept
      BY <1>1, <2>3 DEF LoadFail, Ghost
    <3>3. QED
      BY <1>1, <3>1, <3>2, SpentSafely DEF SameMeaning
  <2>4. QED
    BY <1>3, <2>1, <2>2, <2>3 DEF Loading
<1>4. ASSUME NEW c \in counts, Counting(c)
      PROVE  SameMeaning /\ drafts' = drafts /\ rows' = rows
  <2>1. CASE CountReturn(c)
    BY <1>2, <2>1 DEF CountReturn, input
  <2>2. CASE CountFail(c)
    <3>1. budget' = spent("fails") /\ drafts' = drafts /\ rows' = rows
      BY <2>2 DEF CountFail, input
    <3>2. /\ ghost'.meant = ghost.meant /\ ghost'.strayed = ghost.strayed
          /\ ghost'.kept = ghost.kept
      BY <1>1, <2>2 DEF CountFail, Ghost
    <3>3. QED
      BY <1>1, <3>1, <3>2, SpentSafely DEF SameMeaning
  <2>3. QED
    BY <1>4, <2>1, <2>2 DEF Counting
<1>5. ASSUME NEW s \in saves, Saving(s)
      PROVE  /\ SameMeaning
             /\ (drafts' = drafts /\ rows' = rows) \/ (DOMAIN drafts' = {} /\ Settled)
  <2>1. CASE SaveStep(s)
    BY <1>2, <2>1 DEF SaveStep, view, input
  <2>2. CASE SaveDone(s)
    <3>1. budget' = budget /\ DOMAIN drafts' = {} /\ Settled
      BY <2>2 DEF SaveDone, emptyFn, Settled
    <3>2. /\ ghost'.meant = ghost.meant /\ ghost'.strayed = ghost.strayed
          /\ ghost'.kept = ghost.kept
      BY <1>1, <2>2 DEF SaveDone, Ghost
    <3>3. QED
      BY <3>1, <3>2 DEF SameMeaning
  <2>3. CASE SaveFail(s)
    <3>1. budget' = spent("fails") /\ drafts' = drafts /\ rows' = rows
      BY <2>3 DEF SaveFail, view
    <3>2. /\ ghost'.meant = ghost.meant /\ ghost'.strayed = ghost.strayed
          /\ ghost'.kept = ghost.kept
      BY <1>1, <2>3 DEF SaveFail, Ghost
    <3>3. QED
      BY <1>1, <3>1, <3>2, SpentSafely DEF SameMeaning
  <2>4. QED
    BY <1>5, <2>1, <2>2, <2>3 DEF Saving
<1>6. CASE Deleting
  <2>1. drafts' = drafts /\ rows' = rows
    BY <1>6 DEF Deleting, DeleteDone, DeleteFail, DeleteDialog, CancelDelete, ConfirmDelete,
       view, input
  <2>2. budget' = budget \/ budget' = spent("fails") \/ budget' = spent("moves")
    BY <1>6 DEF Deleting, DeleteDone, DeleteFail, DeleteDialog, CancelDelete, ConfirmDelete
  <2>3. \/ ghost' = ghost \/ ghost' = [ghost EXCEPT !.kept = {}]
        \/ \E q : ghost' = [ghost EXCEPT !.kept = {}, !.shown = q, !.stale = FALSE]
    BY <1>6 DEF Deleting, DeleteDone, DeleteFail, DeleteDialog, CancelDelete, ConfirmDelete
  <2>4. /\ ghost'.meant = ghost.meant /\ ghost'.strayed = ghost.strayed
        /\ ghost'.kept = ghost.kept \/ ghost'.kept = {}
    BY <1>1, <2>3 DEF Ghost
  <2>5. QED
    BY <1>1, <2>1, <2>2, <2>4, SpentSafely DEF SameMeaning
<1>7. CASE Editing
  <2>1. CASE \/ CancelEditor \/ CloseMenu
             \/ \E i \in 1 .. PageSize : OpenEditor(i) \/ handleCellContextMenu(i)
    BY <1>2, <2>1 DEF OpenEditor, CancelEditor, handleCellContextMenu, CloseMenu, view, input
  <2>2. CASE handleCommitCell
    BY <2>2 DEF handleCommitCell, Typed, view
  <2>3. CASE CommitSame
    <3>1. /\ open /\ budget' = budget /\ rows' = rows
          /\ drafts' = [i \in DOMAIN drafts \ {cell.idx} |-> drafts[i]]
          /\ ghost' = [ghost EXCEPT !.kept = KeptElsewhere]
      BY <2>3 DEF CommitSame, KeptElsewhere, view
    <3>2. /\ ghost'.meant = ghost.meant /\ ghost'.strayed = ghost.strayed
          /\ ghost'.kept = KeptElsewhere
      BY <1>1, <3>1 DEF Ghost
    <3>3. QED
      BY <3>1, <3>2 DEF Undone
  <2>4. CASE handleDiscardAll
    <3>1. DOMAIN drafts' = {} /\ budget' = budget
      BY <2>4 DEF handleDiscardAll, emptyFn
    <3>2. ghost'.meant = ghost.meant /\ ghost'.strayed = ghost.strayed /\ ghost'.kept = {}
      BY <1>1, <2>4 DEF handleDiscardAll, Ghost
    <3>3. QED
      BY <3>1, <3>2 DEF SameMeaning, Settled
  <2>5. QED
    BY <1>7, <2>1, <2>2, <2>3, <2>4 DEF Editing
<1>8. CASE NewRows
  <2>1. drafts' = drafts /\ rows' = rows /\ ghost' = ghost /\ (budget' = budget \/ budget' = spent("news"))
    BY <1>8 DEF NewRows, newRow, RemoveDraft, view
  <2>2. QED
    BY <1>2, <2>1
<1>9. CASE Begin
  <2>1. (Typed \/ Undone \/ Left) /\ rows' = rows
    BY <1>1, <1>9, BeginStep DEF view
  <2>2. QED
    BY <2>1 DEF Left, SameMeaning
<1>10. ASSUME NEW q \in Query, Ask(q)
       PROVE  SameMeaning /\ drafts' = drafts /\ rows' = rows
  <2>1. budget' = spent("moves") /\ drafts' = drafts /\ rows' = rows
    BY <1>10 DEF Ask, input
  <2>2. ghost'.meant = ghost.meant /\ ghost'.strayed = ghost.strayed /\ ghost'.kept = {}
    BY <1>1, <1>10 DEF Ask, Ghost
  <2>3. QED
    BY <1>1, <2>1, <2>2, SpentSafely DEF SameMeaning
<1>11. CASE StructureReturn \/ UNCHANGED vars
  <2>1. UNCHANGED <<drafts, rows, ghost, budget>>
    BY <1>11 DEF StructureReturn, vars, view, input
  <2>2. QED
    BY <1>2, <2>1
<1>12. QED
  BY <1>1, <1>3, <1>4, <1>5, <1>6, <1>7, <1>8, <1>9, <1>10, <1>11, DataStepKinds

(* What becomes of the saves, and of the table.                            *)
LEMMA SaveKinds ==
  ASSUME Types, [Next]_vars
  PROVE  \/ saves' \subseteq saves
         \/ \E s \in saves : SaveStep(s)
         \/ Begin /\ \E s : Started(s)
<1>1. TypeOK /\ ShapeInv
  BY DEF Types
<1>2. ASSUME NEW l \in loads, Loading(l)
      PROVE  saves' = saves
  BY <1>2 DEF Loading, LoadRead, LoadReturn, LoadFail
<1>3. ASSUME NEW s \in saves, Saving(s)
      PROVE  saves' \subseteq saves \/ SaveStep(s)
  BY <1>3 DEF Saving, SaveDone, SaveFail
<1>4. ASSUME Deleting \/ Editing \/ NewRows
      PROVE  saves' = saves
  BY <1>4 DEF Deleting, DeleteDone, DeleteFail, DeleteDialog, CancelDelete, ConfirmDelete,
     Editing, OpenEditor, handleCellContextMenu, CloseMenu, CancelEditor, handleCommitCell,
     CommitSame, handleDiscardAll,
     NewRows, newRow, RemoveDraft, calls
<1>5. ASSUME (\E c \in counts : Counting(c)) \/ (\E q \in Query : Ask(q)) \/ StructureReturn
             \/ UNCHANGED vars
      PROVE  saves' = saves
  BY <1>5 DEF Counting, CountReturn, CountFail, Ask, StructureReturn, vars, calls
<1>6. CASE Begin
  BY <1>1, <1>6, BeginStep
<1>7. QED
  BY <1>1, <1>2, <1>3, <1>4, <1>5, <1>6, DataStepKinds

(* The table is changed by saves and deletions only.                       *)
LEMMA TableKinds ==
  ASSUME Types, [Next]_vars
  PROVE  \/ table' = table /\ added' = added
         \/ \E s \in saves : SaveStep(s)
         \/ \E d \in deletes : DeleteDone(d)
<1>1. TypeOK /\ ShapeInv
  BY DEF Types
<1>2. ASSUME NEW l \in loads, Loading(l)
      PROVE  table' = table /\ added' = added
  BY <1>2 DEF Loading, LoadRead, LoadReturn, LoadFail
<1>3. ASSUME NEW s \in saves, Saving(s)
      PROVE  (table' = table /\ added' = added) \/ SaveStep(s)
  BY <1>3 DEF Saving, SaveDone, SaveFail
<1>4. ASSUME Deleting
      PROVE  (table' = table /\ added' = added) \/ \E d \in deletes : DeleteDone(d)
  BY <1>4 DEF Deleting, DeleteFail, DeleteDialog, CancelDelete, ConfirmDelete
<1>5. ASSUME Editing \/ NewRows \/ Begin
      PROVE  table' = table /\ added' = added
  BY <1>1, <1>5, BeginStep DEF Editing, OpenEditor, handleCellContextMenu, CloseMenu,
     CancelEditor, handleCommitCell, CommitSame,
     handleDiscardAll, NewRows, newRow, RemoveDraft
<1>6. ASSUME (\E c \in counts : Counting(c)) \/ (\E q \in Query : Ask(q)) \/ StructureReturn
             \/ UNCHANGED vars
      PROVE  table' = table /\ added' = added
  BY <1>6 DEF Counting, CountReturn, CountFail, Ask, StructureReturn, vars
<1>7. QED
  BY <1>1, <1>2, <1>3, <1>4, <1>5, <1>6, DataStepKinds

(* A save writes the first of its changes and keeps the others, or inserts *)
(* the first of its new rows under a key that is new.                      *)
LEMMA WriteStep ==
  ASSUME Types, NEW s \in saves, SaveStep(s), s.ups # <<>>
  PROVE  /\ 1 \in DOMAIN s.ups /\ s.ups[1] \in Update
         /\ Keys' = Keys /\ added' = added
         /\ \A k \in Keys : table'[k] = IF k = s.ups[1].key THEN s.ups[1].val ELSE table[k]
         /\ \E t : /\ saves' = (saves \ {s}) \cup {t} /\ t.ins = s.ins
                   /\ \A j \in DOMAIN t.ups : j + 1 \in DOMAIN s.ups /\ t.ups[j] = s.ups[j + 1]
                   /\ \A j \in DOMAIN s.ups : j = 1 \/ (j - 1 \in DOMAIN t.ups /\ t.ups[j - 1] = s.ups[j])
<1>1. s.ups \in Seq(Update) /\ Len(s.ups) \in Nat /\ Len(s.ups) # 0
  BY EmptySeq DEF Types, TypeOK
<1>2. 1 \in DOMAIN s.ups /\ s.ups[1] \in Update /\ Head(s.ups) = s.ups[1]
  BY <1>1
<1> DEFINE t == [no |-> s.no, q |-> s.q, ins |-> s.ins, ups |-> Tail(s.ups)]
           u == Head(s.ups)
<1>3. /\ table' = IF u.key \in Keys THEN [table EXCEPT ![u.key] = u.val] ELSE table
      /\ saves' = (saves \ {s}) \cup {t} /\ added' = added
  BY DEF SaveStep
<1>4. t.ins = s.ins /\ t.ups = Tail(s.ups)
  OBVIOUS
<1> HIDE DEF t, u
<1>5. Keys' = Keys
  BY <1>3 DEF Keys
<1>6. \A k \in Keys : table'[k] = IF k = u.key THEN u.val ELSE table[k]
  BY <1>3 DEF Keys
<1>7. /\ DOMAIN Tail(s.ups) = 1 .. Len(s.ups) - 1
      /\ \A j \in 1 .. Len(s.ups) - 1 : Tail(s.ups)[j] = s.ups[j + 1]
  BY <1>1
<1>8. DOMAIN s.ups = 1 .. Len(s.ups)
  BY <1>1
<1>9. \A j \in DOMAIN t.ups : j + 1 \in DOMAIN s.ups /\ t.ups[j] = s.ups[j + 1]
  BY <1>1, <1>4, <1>7, <1>8
<1>10. ASSUME NEW j \in DOMAIN s.ups, j # 1
       PROVE  j - 1 \in DOMAIN t.ups /\ t.ups[j - 1] = s.ups[j]
  <2>1. j \in Int /\ j - 1 \in 1 .. Len(s.ups) - 1 /\ (j - 1) + 1 = j
    BY <1>1, <1>8, <1>10
  <2>2. QED
    BY <1>4, <1>7, <2>1
<1>11. QED
  BY <1>2, <1>3, <1>4, <1>5, <1>6, <1>9, <1>10 DEF u

(* A save inserts the first of its new rows, under a new key.              *)
LEMMA InsertStep ==
  ASSUME Types, NEW s \in saves, SaveStep(s), s.ups = <<>>
  PROVE  /\ last + 1 \in AllKeys /\ s.ins # <<>>
         /\ Keys' = Keys \cup {last + 1} /\ table'[last + 1] = made[Head(s.ins)]
         /\ \A k \in Keys \ {last + 1} : table'[k] = table[k]
         /\ DOMAIN added' = DOMAIN added \cup {last + 1} /\ added'[last + 1] = Head(s.ins)
         /\ \A k \in DOMAIN added \ {last + 1} : added'[k] = added[k]
         /\ \E t : saves' = (saves \ {s}) \cup {t} /\ t.ups = <<>> /\ t.ins = Tail(s.ins)
<1> DEFINE k == last + 1
           t == [no |-> s.no, q |-> s.q, ins |-> Tail(s.ins), ups |-> s.ups]
<1>1. /\ s.ins # <<>> /\ k \in AllKeys
      /\ table' = [j \in Keys \cup {k} |-> IF j = k THEN made[Head(s.ins)] ELSE table[j]]
      /\ added' = [j \in DOMAIN added \cup {k} |-> IF j = k THEN Head(s.ins) ELSE added[j]]
      /\ saves' = (saves \ {s}) \cup {t}
  BY DEF SaveStep, last
<1>2. t.ins = Tail(s.ins) /\ t.ups = <<>>
  OBVIOUS
<1> HIDE DEF k, t
<1>3. Keys' = Keys \cup {k} /\ table'[k] = made[Head(s.ins)] /\ \A j \in Keys \ {k} : table'[j] = table[j]
  BY <1>1 DEF Keys
<1>4. /\ DOMAIN added' = DOMAIN added \cup {k} /\ added'[k] = Head(s.ins)
      /\ \A j \in DOMAIN added \ {k} : added'[j] = added[j]
  BY <1>1
<1>5. QED
  BY <1>1, <1>2, <1>3, <1>4 DEF k

-----------------------------------------------------------------------------
(* The new rows.                                                           *)
LEMMA InsertKept ==
  ASSUME InsertInv, added' = added, saves' \subseteq saves,
         ToSet(newRows)' \subseteq ToSet(newRows), once(newRows)',
         budget'["news"] = budget["news"], ghost.risky \subseteq ghost'.risky,
         \A n \in News \ ghost'.risky : n \in ToSet(newRows)' /\ n \in inserted => saves' # {}
  PROVE  InsertInv'
<1>1. inserted' = inserted
  BY DEF inserted
<1>2. fitting'
  BY <1>1 DEF InsertInv, fitting
<1>3. \A s \in saves' : once(s.ins)
  BY DEF InsertInv
<1>4. ASSUME NEW n \in News \ ghost'.risky
      PROVE  single(n)'
  <2>1. single(n)
    BY DEF InsertInv
  <2>2. \A j, k \in DOMAIN added' : added'[j] = n /\ added'[k] = n => j = k
    BY <2>1 DEF single
  <2>3. \A s \in saves' : n \in ToSet(s.ins) =>
           n \notin inserted' /\ \A t \in saves' : n \in ToSet(t.ins) => t = s
    BY <1>1, <2>1 DEF single
  <2>4. n \in ToSet(newRows)' /\ n \in inserted' => saves' # {}
    BY <1>1
  <2>5. QED
    BY <2>2, <2>3, <2>4 DEF single
<1>5. QED
  BY <1>2, <1>3, <1>4 DEF InsertInv, once

(* The steps that leave them alone, or drop them.                          *)
LEMMA InsertKinds ==
  ASSUME Types, [Next]_vars
  PROVE  \/ \E s \in saves : Saving(s)
         \/ NewRows \/ Begin
         \/ /\ added' = added /\ saves' = saves /\ budget'["news"] = budget["news"]
            /\ ghost'.risky = ghost.risky /\ (newRows' = newRows \/ newRows' = <<>>)
<1>1. TypeOK /\ ShapeInv /\ ghost \in Ghost
  BY DEF Types, TypeOK, Ghost
<1>2. \A x \in {"fails", "moves"} : spent(x)["news"] = budget["news"]
  BY <1>1, SpentSafely
<1>3. ASSUME NEW l \in loads, Loading(l)
      PROVE  /\ added' = added /\ saves' = saves /\ budget'["news"] = budget["news"]
             /\ ghost'.risky = ghost.risky /\ (newRows' = newRows \/ newRows' = <<>>)
  <2>1. CASE LoadRead(l)
    BY <2>1 DEF LoadRead, input
  <2>2. CASE LoadReturn(l)
    BY <2>2 DEF LoadReturn
  <2>3. CASE LoadFail(l)
    <3>1. ghost'.risky = ghost.risky
      BY <1>1, <2>3 DEF LoadFail, Ghost
    <3>2. QED
      BY <1>2, <2>3, <3>1 DEF LoadFail, input
  <2>4. QED
    BY <1>3, <2>1, <2>2, <2>3 DEF Loading
<1>4. ASSUME NEW c \in counts, Counting(c)
      PROVE  /\ added' = added /\ saves' = saves /\ budget'["news"] = budget["news"]
             /\ ghost'.risky = ghost.risky /\ newRows' = newRows
  <2>1. CASE CountReturn(c)
    BY <2>1 DEF CountReturn, input
  <2>2. CASE CountFail(c)
    <3>1. ghost'.risky = ghost.risky
      BY <1>1, <2>2 DEF CountFail, Ghost
    <3>2. QED
      BY <1>2, <2>2, <3>1 DEF CountFail, input
  <2>3. QED
    BY <1>4, <2>1, <2>2 DEF Counting
<1>5. CASE Deleting
  <2>1. added' = added /\ saves' = saves /\ newRows' = newRows
    BY <1>5 DEF Deleting, DeleteDone, DeleteFail, DeleteDialog, CancelDelete, ConfirmDelete,
       input
  <2>2. budget' = budget \/ budget' = spent("fails") \/ budget' = spent("moves")
    BY <1>5 DEF Deleting, DeleteDone, DeleteFail, DeleteDialog, CancelDelete, ConfirmDelete
  <2>3. \/ ghost' = ghost \/ ghost' = [ghost EXCEPT !.kept = {}]
        \/ \E q : ghost' = [ghost EXCEPT !.kept = {}, !.shown = q, !.stale = FALSE]
    BY <1>5 DEF Deleting, DeleteDone, DeleteFail, DeleteDialog, CancelDelete, ConfirmDelete
  <2>4. ghost'.risky = ghost.risky
    BY <1>1, <2>3 DEF Ghost
  <2>5. QED
    BY <1>2, <2>1, <2>2, <2>4
<1>6. CASE Editing
  <2>1. added' = added /\ saves' = saves /\ (newRows' = newRows \/ newRows' = <<>>)
    BY <1>6 DEF Editing, OpenEditor, handleCellContextMenu, CloseMenu, CancelEditor,
       handleCommitCell, CommitSame,
       handleDiscardAll, calls, input
  <2>2. budget' = budget \/ budget' = spent("edits")
    BY <1>6 DEF Editing, OpenEditor, handleCellContextMenu, CloseMenu, CancelEditor,
       handleCommitCell, CommitSame, handleDiscardAll
  <2>3. spent("edits")["news"] = budget["news"]
    BY <1>1, SpentType DEF Budget
  <2>4. \/ ghost' = ghost \/ ghost' = noteTyped
        \/ ghost' = [ghost EXCEPT !.kept = KeptElsewhere]
        \/ ghost' = [ghost EXCEPT !.kept = {}]
    BY <1>6 DEF Editing, OpenEditor, handleCellContextMenu, CloseMenu, CancelEditor,
       handleCommitCell, CommitSame,
       handleDiscardAll, KeptElsewhere
  <2>5. noteTyped.risky = ghost.risky
    BY <1>1 DEF noteTyped, Ghost
  <2>6. ghost'.risky = ghost.risky
    BY <1>1, <2>4, <2>5 DEF Ghost
  <2>7. QED
    BY <2>1, <2>2, <2>3, <2>6
<1>7. ASSUME NEW q \in Query, Ask(q)
      PROVE  /\ added' = added /\ saves' = saves /\ budget'["news"] = budget["news"]
             /\ ghost'.risky = ghost.risky /\ newRows' = newRows
  <2>1. ghost'.risky = ghost.risky
    BY <1>1, <1>7 DEF Ask, Ghost
  <2>2. QED
    BY <1>2, <1>7, <2>1 DEF Ask, input
<1>8. CASE StructureReturn \/ UNCHANGED vars
  BY <1>8 DEF StructureReturn, vars, input, calls
<1>9. QED
  BY <1>1, <1>3, <1>4, <1>5, <1>6, <1>7, <1>8, DataStepKinds

(* No new rows.                                                            *)
LEMMA EmptyNews ==
  ToSet(<<>>) = {} /\ once(<<>>)
BY DEF ToSet, once

(* InsertInv, when neither saves nor new rows change but by a discard.     *)
LEMMA InsertQuiet ==
  ASSUME InsertInv, added' = added, saves' = saves, budget'["news"] = budget["news"],
         ghost'.risky = ghost.risky, newRows' = newRows \/ newRows' = <<>>
  PROVE  InsertInv'
<1>1. ToSet(newRows)' \subseteq ToSet(newRows) /\ once(newRows)'
  <2>1. CASE newRows' = newRows
    BY <2>1 DEF InsertInv, ToSet, once
  <2>2. CASE newRows' = <<>>
    BY <2>2, EmptyNews
  <2>3. QED
    BY <2>1, <2>2
<1>2. \A n \in News \ ghost'.risky : n \in ToSet(newRows)' /\ n \in inserted => saves' # {}
  BY <1>1 DEF InsertInv, single
<1>3. QED
  BY <1>1, <1>2, InsertKept

(* InsertInv, when new rows are added and taken out.                       *)
LEMMA InsertNews ==
  ASSUME Types, InsertInv, NewRows
  PROVE  InsertInv'
<1>1. TypeOK /\ ShapeInv /\ newRows \in Seq(News) /\ budget["news"] \in Nat
  BY DEF Types, TypeOK, Budget
<1>2. /\ fitting /\ once(newRows) /\ \A s \in saves : once(s.ins)
      /\ \A n \in News \ ghost.risky : single(n)
  BY DEF InsertInv
<1>3. ASSUME NEW front \in BOOLEAN, NEW val \in 0 .. MaxEdits, newRow(front, val)
      PROVE  InsertInv'
  <2> DEFINE n == budget["news"] + 1
             L == Len(newRows)
  <2>1. /\ budget'["news"] = n /\ n \in News
        /\ newRows' = (IF front THEN <<n>> \o newRows ELSE Append(newRows, n))
    BY <1>1, <1>3, NewRowStep
  <2>2. /\ added' = added /\ saves' = saves /\ ghost' = ghost /\ inserted' = inserted
    BY <1>3 DEF newRow, calls, inserted
  <2>3. L \in Nat /\ n \in Nat /\ DOMAIN newRows = 1 .. L /\ \A i \in 1 .. L : newRows[i] \in News
    BY <1>1
  <2>4. \A i \in 1 .. L : newRows[i] # n
    <3>1. \A i \in 1 .. L : newRows[i] <= budget["news"] /\ newRows[i] \in Nat
      BY <1>2, <2>3, Bounds DEF fitting, ToSet, News
    <3>2. QED
      BY <1>1, <3>1
  <2> HIDE DEF n, L
  <2>5. /\ \A i \in DOMAIN newRows' : newRows'[i] = n \/ \E j \in 1 .. L : newRows'[i] = newRows[j]
        /\ once(newRows)'
    <3>1. CASE front
      <4>1. newRows' = <<n>> \o newRows
        BY <2>1, <3>1
      <4>2. /\ DOMAIN newRows' = 1 .. L + 1
            /\ newRows'[1] = n
            /\ \A i \in 2 .. L + 1 : newRows'[i] = newRows[i - 1] /\ i - 1 \in 1 .. L
        BY <1>1, <2>3, <4>1 DEF L
      <4>3. \A i \in DOMAIN newRows' : i = 1 \/ i \in 2 .. L + 1
        BY <2>3, <4>2
      <4>4. \A i, j \in 2 .. L + 1 : newRows'[i] = newRows'[j] => i = j
        <5>1. \A i, j \in 2 .. L + 1 : newRows[i - 1] = newRows[j - 1] => i - 1 = j - 1
          BY <1>2, <2>3, <4>2 DEF once
        <5>2. QED
          BY <2>3, <4>2, <5>1
      <4>5. \A i \in 2 .. L + 1 : newRows'[i] # n
        BY <2>4, <4>2
      <4>6. once(newRows)'
        BY <4>2, <4>3, <4>4, <4>5 DEF once
      <4>7. QED
        BY <4>2, <4>3, <4>6
    <3>2. CASE ~front
      <4>1. newRows' = Append(newRows, n)
        BY <2>1, <3>2
      <4>2. /\ DOMAIN newRows' = 1 .. L + 1
            /\ newRows'[L + 1] = n
            /\ \A i \in 1 .. L : newRows'[i] = newRows[i]
        BY <1>1, <2>3, <4>1 DEF L
      <4>3. \A i \in DOMAIN newRows' : i = L + 1 \/ i \in 1 .. L
        BY <2>3, <4>2
      <4>4. \A i, j \in 1 .. L : newRows'[i] = newRows'[j] => i = j
        BY <1>2, <2>3, <4>2 DEF once
      <4>5. \A i \in 1 .. L : newRows'[i] # n
        BY <2>4, <4>2
      <4>6. once(newRows)'
        BY <4>2, <4>3, <4>4, <4>5 DEF once
      <4>7. QED
        BY <4>2, <4>3, <4>6
    <3>3. QED
      BY <3>1, <3>2
  <2>6. \A x \in ToSet(newRows)' : x = n \/ x \in ToSet(newRows)
    BY <2>3, <2>5 DEF ToSet
  <2>7. \A x \in inserted : x \in News /\ x <= budget["news"]
    BY <1>1, <1>2 DEF fitting, inserted, TypeOK
  <2>8. \A s \in saves : \A x \in ToSet(s.ins) : x \in News
    <3>1. \A s \in saves : s.ins \in Seq(News)
      BY <1>1 DEF TypeOK
    <3>2. QED
      BY <3>1 DEF ToSet
  <2>9. \A x \in News : x <= budget["news"] => x <= n /\ x # n
    BY <1>1, Bounds DEF n, News
  <2>10. \A x \in ToSet(newRows) : x \in News
    BY <1>1 DEF ToSet
  <2>11. n <= n
    BY <2>3
  <2>12. fitting'
    BY <1>2, <2>1, <2>2, <2>6, <2>7, <2>8, <2>9, <2>10, <2>11 DEF fitting
  <2>13. ASSUME NEW x \in News \ ghost'.risky
         PROVE  single(x)'
    <3>1. single(x)
      BY <1>2, <2>2, <2>13
    <3>2. x \in ToSet(newRows)' /\ x \in inserted' => saves' # {}
      BY <2>2, <2>6, <2>7, <2>9, <3>1 DEF single
    <3>3. QED
      BY <2>2, <3>1, <3>2 DEF single
  <2>14. QED
    BY <1>2, <2>2, <2>5, <2>12, <2>13 DEF InsertInv, once
<1>4. ASSUME NEW i \in 1 .. MaxNews, RemoveDraft(i)
      PROVE  InsertInv'
  <2>1. /\ newRows' \in Seq(News) /\ Len(newRows') = Len(newRows) - 1
        /\ \A j \in 1 .. Len(newRows') :
             newRows'[j] = IF j < i THEN newRows[j] ELSE newRows[j + 1]
        /\ i \in 1 .. Len(newRows)
    BY <1>1, <1>4, RemoveDraftStep
  <2>2. UNCHANGED <<added, saves, budget, ghost>>
    BY <1>4 DEF RemoveDraft, calls
  <2> DEFINE L == Len(newRows)
             at(j) == IF j < i THEN j ELSE j + 1
  <2>3. L \in Nat /\ DOMAIN newRows = 1 .. L /\ DOMAIN newRows' = 1 .. L - 1
    BY <1>1, <2>1
  <2>4. \A j \in 1 .. L - 1 : at(j) \in 1 .. L /\ newRows'[j] = newRows[at(j)]
    BY <2>1, <2>3
  <2>5. \A j, k \in 1 .. L - 1 : at(j) = at(k) => j = k
    BY <2>1, <2>3
  <2> HIDE DEF L, at
  <2>6. once(newRows)' /\ ToSet(newRows)' \subseteq ToSet(newRows)
    BY <1>2, <2>3, <2>4, <2>5 DEF once, ToSet
  <2>7. \A n \in News \ ghost'.risky : n \in ToSet(newRows)' /\ n \in inserted => saves' # {}
    BY <1>2, <2>2, <2>6 DEF single
  <2>8. QED
    BY <2>2, <2>6, <2>7, InsertKept
<1>5. QED
  BY <1>3, <1>4 DEF NewRows

(* A save goes on with what it has left; the row it inserts was nowhere    *)
(* else.                                                                   *)
LEMMA InsertSaveStep ==
  ASSUME Types, InsertInv, NEW s \in saves, SaveStep(s)
  PROVE  InsertInv'
<1>1. TypeOK /\ ShapeInv /\ s.ins \in Seq(News)
  BY DEF Types, TypeOK
<1>2. /\ fitting /\ once(newRows) /\ \A r \in saves : once(r.ins)
      /\ \A n \in News \ ghost.risky : single(n)
  BY DEF InsertInv
<1>3. newRows' = newRows /\ ghost' = ghost /\ budget' = budget
  BY DEF SaveStep, input
<1>4. ToSet(newRows)' = ToSet(newRows) /\ once(newRows)'
  BY <1>2, <1>3 DEF ToSet, once
<1>5. CASE s.ups # <<>>
  <2>1. PICK t : saves' = (saves \ {s}) \cup {t} /\ t.ins = s.ins
    BY <1>5, WriteStep
  <2>2. inserted' = inserted /\ added' = added
    BY <1>5, WriteStep DEF inserted
  <2>3. fitting'
    BY <1>2, <1>3, <1>4, <2>1, <2>2 DEF fitting
  <2>4. \A r \in saves' : once(r.ins)
    BY <1>2, <2>1
  <2>5. ASSUME NEW n \in News \ ghost'.risky
        PROVE  single(n)'
    <3>1. single(n)
      BY <1>2, <1>3, <2>5
    <3>2. \A r \in saves' : n \in ToSet(r.ins) =>
            n \notin inserted /\ \A x \in saves' : n \in ToSet(x.ins) => x = r
      BY <2>1, <3>1 DEF single
    <3>3. saves' # {}
      BY <2>1
    <3>4. QED
      BY <2>2, <3>1, <3>2, <3>3 DEF single
  <2>6. QED
    BY <1>4, <2>3, <2>4, <2>5 DEF InsertInv, once
<1>6. CASE s.ups = <<>>
  <2>1. /\ s.ins # <<>>
        /\ DOMAIN added' = DOMAIN added \cup {last + 1} /\ added'[last + 1] = Head(s.ins)
        /\ \A k \in DOMAIN added \ {last + 1} : added'[k] = added[k]
    BY <1>6, InsertStep
  <2>2. PICK t : saves' = (saves \ {s}) \cup {t} /\ t.ins = Tail(s.ins)
    BY <1>6, InsertStep
  <2> DEFINE h == Head(s.ins)
             L == Len(s.ins)
  <2>3. /\ L \in Nat /\ L # 0 /\ DOMAIN s.ins = 1 .. L /\ h = s.ins[1]
        /\ DOMAIN t.ins = 1 .. L - 1 /\ \A i \in 1 .. L - 1 : t.ins[i] = s.ins[i + 1]
    BY <1>1, <2>1, <2>2, EmptySeq
  <2> HIDE DEF h, L
  <2>4. h \in ToSet(s.ins)
    BY <2>3 DEF ToSet
  <2>5. once(t.ins) /\ ToSet(t.ins) \subseteq ToSet(s.ins) /\ h \notin ToSet(t.ins)
    <3>1. \A i, j \in 1 .. L : s.ins[i] = s.ins[j] => i = j
      BY <1>2, <2>3 DEF once
    <3>2. \A i \in 1 .. L - 1 : i + 1 \in 1 .. L /\ i + 1 # 1 /\ t.ins[i] = s.ins[i + 1] /\ i \in Int
      BY <2>3
    <3>3. \A i, j \in 1 .. L - 1 : t.ins[i] = t.ins[j] => i = j
      <4>1. \A i, j \in 1 .. L - 1 : t.ins[i] = t.ins[j] => i + 1 = j + 1
        BY <3>1, <3>2
      <4>2. QED
        BY <3>2, <4>1
    <3>4. \A i \in 1 .. L - 1 : t.ins[i] # s.ins[1]
      <4>1. 1 \in 1 .. L
        BY <2>3
      <4>2. QED
        BY <3>1, <3>2, <4>1
    <3>5. once(t.ins)
      BY <2>3, <3>3 DEF once
    <3>6. \A n \in ToSet(t.ins) : \E i \in 1 .. L - 1 : n = t.ins[i]
      BY <2>3 DEF ToSet
    <3>7. \A i \in 1 .. L : s.ins[i] \in ToSet(s.ins)
      BY <2>3 DEF ToSet
    <3>8. QED
      BY <2>3, <3>2, <3>4, <3>5, <3>6, <3>7
  <2>6. \A n \in inserted' : n \in inserted \/ n = h
    BY <2>1 DEF inserted, h
  <2>7. fitting'
    BY <1>2, <1>3, <1>4, <2>2, <2>4, <2>5, <2>6 DEF fitting
  <2>8. \A r \in saves' : once(r.ins)
    BY <1>2, <2>2, <2>5
  <2>9. ASSUME NEW n \in News \ ghost'.risky
        PROVE  single(n)'
    <3>1. single(n)
      BY <1>2, <1>3, <2>9
    <3>2. ASSUME n = h
          PROVE  n \notin inserted /\ \A r \in saves : n \in ToSet(r.ins) => r = s
      BY <2>4, <3>1, <3>2 DEF single
    <3>3. \A j, k \in DOMAIN added' : added'[j] = n /\ added'[k] = n => j = k
      <4>1. CASE n = h
        <5>1. \A j \in DOMAIN added : added[j] # n
          BY <3>2, <4>1 DEF inserted
        <5>2. \A j \in DOMAIN added' : j = last + 1 \/ (j \in DOMAIN added /\ added'[j] = added[j])
          BY <2>1
        <5>3. QED
          BY <5>1, <5>2
      <4>2. CASE n # h
        <5>1. \A j \in DOMAIN added' : added'[j] = n => j \in DOMAIN added /\ added[j] = n
          BY <2>1, <4>2 DEF h
        <5>2. QED
          BY <3>1, <5>1 DEF single
      <4>3. QED
        BY <4>1, <4>2
    <3>4. \A r \in saves' : n \in ToSet(r.ins) => n \notin inserted'
      BY <2>2, <2>5, <2>6, <3>1, <3>2 DEF single
    <3>5. \A r, x \in saves' : n \in ToSet(r.ins) /\ n \in ToSet(x.ins) => x = r
      BY <2>2, <2>5, <3>1 DEF single
    <3>6. saves' # {}
      BY <2>2
    <3>7. QED
      BY <3>3, <3>4, <3>5, <3>6 DEF single
  <2>10. QED
    BY <1>4, <2>7, <2>8, <2>9 DEF InsertInv, once
<1>7. QED
  BY <1>5, <1>6

(* InsertInv, through the calls of a save.                                 *)
LEMMA InsertSaving ==
  ASSUME Types, InsertInv, NEW s \in saves, Saving(s)
  PROVE  InsertInv'
<1>1. TypeOK /\ ShapeInv /\ ghost \in Ghost
  BY DEF Types, TypeOK, Ghost
<1>2. CASE SaveDone(s)
  <2>1. added' = added /\ saves' \subseteq saves /\ newRows' = <<>> /\ budget' = budget
    BY <1>2 DEF SaveDone
  <2>2. ghost'.risky = ghost.risky
    BY <1>1, <1>2 DEF SaveDone, Ghost
  <2>3. ToSet(newRows)' = {} /\ once(newRows)'
    BY <2>1, EmptyNews
  <2>4. QED
    BY <2>1, <2>2, <2>3, InsertKept
<1>3. CASE SaveFail(s)
  <2>1. added' = added /\ saves' \subseteq saves /\ newRows' = newRows /\ budget' = spent("fails")
    BY <1>3 DEF SaveFail
  <2>2. ghost'.risky = ghost.risky \cup (inserted \cap ToSet(newRows))
    BY <1>1, <1>3 DEF SaveFail, Ghost, inserted
  <2>3. budget'["news"] = budget["news"]
    BY <1>1, <2>1, SpentSafely
  <2>4. ToSet(newRows)' = ToSet(newRows) /\ once(newRows)'
    BY <2>1 DEF InsertInv, ToSet, once
  <2>5. QED
    BY <2>1, <2>2, <2>3, <2>4, InsertKept
<1>4. QED
  BY <1>2, <1>3, InsertSaveStep DEF Saving

(* A save that begins takes the new rows; if another is under way they are *)
(* risky.                                                                  *)
LEMMA InsertBegin ==
  ASSUME Types, InsertInv, Begin
  PROVE  InsertInv'
<1>1. TypeOK /\ ShapeInv
  BY DEF Types
<1>2. /\ UNCHANGED <<table, added, pk, made, menu, view, newRows, req, loads, counts, dialog, deletes>>
      /\ Typed \/ Undone \/ Left
      /\ ghost'.risky = again(newRows)
      /\ (\E s : Started(s)) \/ (saves' = saves /\ saving' = saving)
  BY <1>1, BeginStep
<1>3. budget'["news"] = budget["news"]
  <2>1. CASE Typed
    BY <1>1, <2>1, TypedGhost DEF Typed
  <2>2. CASE Undone \/ Left
    BY <2>2 DEF Undone, Left
  <2>3. QED
    BY <1>2, <2>1, <2>2
<1>4. /\ ghost.risky \subseteq ghost'.risky
      /\ saves # {} => ToSet(newRows) \subseteq ghost'.risky
      /\ saves = {} => ghost'.risky = ghost.risky
  BY <1>2 DEF again
<1>5. ToSet(newRows)' = ToSet(newRows) /\ once(newRows)' /\ added' = added /\ inserted' = inserted
  BY <1>2 DEF InsertInv, ToSet, once, inserted
<1>6. CASE saves' = saves
  <2>1. \A n \in News \ ghost'.risky : n \in ToSet(newRows)' /\ n \in inserted => saves' # {}
    BY <1>4, <1>5, <1>6 DEF InsertInv, single
  <2>2. QED
    BY <1>3, <1>4, <1>5, <1>6, <2>1, InsertKept
<1>7. ASSUME NEW s, Started(s)
      PROVE  InsertInv'
  <2>1. saves' = saves \cup {s} /\ s.ins = newRows
    BY <1>7 DEF Started
  <2>2. /\ fitting /\ once(newRows) /\ \A r \in saves : once(r.ins)
        /\ \A n \in News \ ghost.risky : single(n)
    BY DEF InsertInv
  <2>3. fitting'
    BY <1>3, <1>5, <2>1, <2>2 DEF fitting
  <2>4. \A r \in saves' : once(r.ins)
    BY <2>1, <2>2
  <2>5. ASSUME NEW n \in News \ ghost'.risky
        PROVE  single(n)'
    <3>1. single(n)
      BY <1>4, <2>2, <2>5
    <3>2. n \in ToSet(newRows) => saves = {} /\ n \notin inserted
      BY <1>4, <2>5, <3>1 DEF single
    <3>3. \A r \in saves' : n \in ToSet(r.ins) =>
            n \notin inserted /\ \A x \in saves' : n \in ToSet(x.ins) => x = r
      <4>1. CASE n \in ToSet(newRows)
        BY <2>1, <3>2, <4>1
      <4>2. CASE n \notin ToSet(newRows)
        BY <2>1, <3>1, <4>2 DEF single
      <4>3. QED
        BY <4>1, <4>2
    <3>4. saves' # {}
      BY <2>1
    <3>5. QED
      BY <1>5, <3>1, <3>3, <3>4 DEF single
  <2>6. QED
    BY <1>5, <2>3, <2>4, <2>5 DEF InsertInv, once
<1>8. QED
  BY <1>2, <1>6, <1>7

(* InsertInv holds at first.                                               *)
LEMMA InsertInit ==
  ASSUME Init
  PROVE  InsertInv
<1>1. DOMAIN added = {} /\ newRows = <<>> /\ saves = {}
  BY DEF Init, emptyFn
<1>2. inserted = {}
  BY <1>1 DEF inserted
<1>3. QED
  BY <1>1, <1>2, EmptyNews DEF InsertInv, fitting, single

(* InsertInv holds in every state.                                         *)
LEMMA Inserts ==
  Spec => [](Types /\ InsertInv)
<1>1. Init => InsertInv
  BY InsertInit
<1>2. Types /\ InsertInv /\ [Next]_vars => InsertInv'
  BY InsertKinds, InsertSaving, InsertNews, InsertBegin, InsertQuiet
<1>3. QED
  BY <1>1, <1>2, DataTypes, PTL DEF Spec

(* Insert once: handleSaveAll inserts a new row once, unless a save failed *)
(* after it had been inserted (the new rows stay in the view) or another   *)
(* save began meanwhile.                                                   *)
THEOREM DataInsertOnce ==
  Spec => []InsertOnce
<1>1. InsertInv => InsertOnce
  <2>1. SUFFICES ASSUME InsertInv, NEW n \in News \ ghost.risky
                 PROVE  Cardinality({k \in DOMAIN added : added[k] = n}) <= 1
    BY DEF InsertOnce
  <2> DEFINE S == {k \in DOMAIN added : added[k] = n}
  <2>2. \A j, k \in S : j = k
    BY <2>1 DEF InsertInv, single
  <2>3. CASE S = {}
    BY <2>3, FS_EmptySet
  <2>4. CASE S # {}
    <3>1. PICK k \in S : TRUE
      BY <2>4
    <3>2. S = {k}
      BY <2>2, <3>1
    <3> HIDE DEF S
    <3>3. Cardinality(S) = 1
      BY <3>2, FS_Singleton
    <3>4. QED
      BY <3>3 DEF S
  <2>5. QED
    BY <2>3, <2>4
<1>2. QED
  BY <1>1, Inserts, PTL

-----------------------------------------------------------------------------
(* The right row.                                                          *)
StaysRight(e, k) == e <= budget'["edits"] /\ (e \in ghost'.strayed \/ ghost'.meant[e] = k)

(* A change that is right for a row stays so.                              *)
LEMMA RightKept ==
  ASSUME Types, [Next]_vars, NEW e \in Edits, NEW k, right(e, k)
  PROVE  StaysRight(e, k)
<1>1. TypeOK /\ ShapeInv /\ ghost \in Ghost /\ budget["edits"] \in Nat
  BY DEF Types, TypeOK, Ghost, Budget
<1>2. CASE SameMeaning
  BY <1>1, <1>2 DEF SameMeaning, right, StaysRight
<1>3. CASE Undone
  BY <1>3 DEF Undone, right, StaysRight
<1>4. CASE Typed
  <2>1. budget'["edits"] = budget["edits"] + 1 /\ typed = budget["edits"] + 1
    BY <1>1, <1>4, TypedGhost DEF Typed, typed
  <2>2. e # typed /\ e <= budget["edits"] /\ e \in Nat
    BY <1>1, <2>1, Bounds DEF right, Edits
  <2>3. ghost'.meant = [ghost.meant EXCEPT ![typed] = cell.key] /\ ghost.strayed \subseteq ghost'.strayed
    BY <1>1, <1>4 DEF Typed, noteTyped, Ghost
  <2>4. ghost'.meant[e] = ghost.meant[e]
    BY <1>1, <2>2, <2>3 DEF Ghost
  <2>5. QED
    BY <1>1, <2>1, <2>2, <2>3, <2>4 DEF right, StaysRight
<1>5. QED
  BY <1>2, <1>3, <1>4, DraftKinds

(* A text is right for the row at its index, or has strayed.               *)
LEMMA TypedRight ==
  ASSUME Types, Typed
  PROVE  StaysRight(typed, rows[cell.idx].key)
<1>1. TypeOK /\ ShapeInv /\ ghost \in Ghost
  BY DEF Types, TypeOK, Ghost
<1>2. budget'["edits"] = typed /\ typed \in Edits
  BY <1>1, TypedGhost, TypedStep DEF Typed
<1>3. ghost'.meant = [ghost.meant EXCEPT ![typed] = cell.key]
  BY <1>1 DEF Typed, noteTyped, Ghost
<1>4. ghost'.meant[typed] = cell.key
  BY <1>1, <1>2, <1>3 DEF Ghost
<1>5. cell.key # rows[cell.idx].key => typed \in ghost'.strayed
  BY <1>1 DEF Typed, noteTyped, Ghost
<1>6. typed <= typed
  BY <1>2, Bounds DEF Edits
<1>7. QED
  BY <1>2, <1>4, <1>5, <1>6 DEF StaysRight

(* A draft is right for the row at its place.                              *)
LEMMA DraftsRight ==
  ASSUME Types, RowInv, [Next]_vars
  PROVE  \A i \in DOMAIN drafts' : StaysRight(drafts'[i], rows'[i].key)
<1>1. TypeOK /\ ShapeInv
  BY DEF Types
<1>2. \A i \in DOMAIN drafts : drafts[i] \in Edits /\ right(drafts[i], rows[i].key)
  BY <1>1 DEF TypeOK, RowInv
<1>3. \A i \in DOMAIN drafts : StaysRight(drafts[i], rows[i].key)
  BY <1>2, RightKept
<1>4. CASE Typed /\ rows' = rows
  <2>1. /\ DOMAIN drafts' = DOMAIN drafts \cup {cell.idx} /\ drafts'[cell.idx] = typed
        /\ \A i \in DOMAIN drafts \ {cell.idx} : drafts'[i] = drafts[i]
    BY <1>1, <1>4, TypedStep DEF Typed
  <2>2. StaysRight(typed, rows[cell.idx].key)
    BY <1>4, TypedRight
  <2>3. QED
    BY <1>3, <1>4, <2>1, <2>2
<1>5. CASE Undone /\ rows' = rows
  BY <1>3, <1>5 DEF Undone
<1>6. CASE drafts' = drafts /\ rows' = rows
  BY <1>3, <1>6
<1>7. CASE DOMAIN drafts' = {}
  BY <1>7
<1>8. QED
  BY <1>4, <1>5, <1>6, <1>7, DraftKinds

(* And so is a change on its way in a save.                                *)
LEMMA SavesRight ==
  ASSUME Types, RowInv, [Next]_vars
  PROVE  \A s \in saves' : \A j \in DOMAIN s.ups : StaysRight(s.ups[j].val, s.ups[j].key)
<1>1. TypeOK /\ ShapeInv
  BY DEF Types
<1>2. ASSUME NEW s \in saves, NEW j \in DOMAIN s.ups
      PROVE  StaysRight(s.ups[j].val, s.ups[j].key)
  <2>1. s.ups \in Seq(Update) /\ right(s.ups[j].val, s.ups[j].key)
    BY <1>1, <1>2 DEF TypeOK, RowInv
  <2>2. s.ups[j] \in Update
    BY <1>2, <2>1
  <2>3. s.ups[j].val \in Edits
    BY <2>2 DEF Update
  <2>4. QED
    BY <2>1, <2>3, RightKept
<1>3. CASE saves' \subseteq saves
  BY <1>2, <1>3
<1>4. ASSUME NEW s \in saves, SaveStep(s)
      PROVE  \A t \in saves' : \A j \in DOMAIN t.ups : StaysRight(t.ups[j].val, t.ups[j].key)
  <2>1. CASE s.ups # <<>>
    <3>1. PICK t : /\ saves' = (saves \ {s}) \cup {t}
                   /\ \A j \in DOMAIN t.ups : j + 1 \in DOMAIN s.ups /\ t.ups[j] = s.ups[j + 1]
      BY <1>4, <2>1, WriteStep
    <3>2. \A j \in DOMAIN t.ups : StaysRight(t.ups[j].val, t.ups[j].key)
      BY <1>2, <3>1
    <3>3. QED
      BY <1>2, <3>1, <3>2
  <2>2. CASE s.ups = <<>>
    <3>1. PICK t : saves' = (saves \ {s}) \cup {t} /\ t.ups = <<>>
      BY <1>4, <2>2, InsertStep
    <3>2. DOMAIN t.ups = {}
      BY <3>1
    <3>3. QED
      BY <1>2, <3>1, <3>2
  <2>3. QED
    BY <2>1, <2>2
<1>5. ASSUME Begin, NEW s, Started(s)
      PROVE  \A t \in saves' : \A j \in DOMAIN t.ups : StaysRight(t.ups[j].val, t.ups[j].key)
  <2>1. rows' = rows
    BY <1>1, <1>5, BeginStep DEF view
  <2>2. \A j \in DOMAIN s.ups : \E i \in DOMAIN drafts' :
          s.ups[j].key = rows[i].key /\ s.ups[j].val = drafts'[i]
    BY <1>5 DEF Started, Takes
  <2>3. \A j \in DOMAIN s.ups : StaysRight(s.ups[j].val, s.ups[j].key)
    BY <2>1, <2>2, DraftsRight
  <2>4. QED
    BY <1>2, <1>5, <2>3 DEF Started
<1>6. QED
  BY <1>3, <1>4, <1>5, SaveKinds

(* A new row holds what it was made with.                                  *)
LEMMA MadeKept ==
  ASSUME Types, InsertInv, [Next]_vars, NEW k \in DOMAIN added
  PROVE  made'[added[k]] = made[added[k]]
<1>1. TypeOK /\ ShapeInv
  BY DEF Types
<1>2. CASE made' = made
  BY <1>2
<1>3. ASSUME NEW front \in BOOLEAN, NEW val \in 0 .. MaxEdits, newRow(front, val)
      PROVE  made'[added[k]] = made[added[k]]
  <2>1. made' = [made EXCEPT ![budget["news"] + 1] = val]
    BY <1>1, <1>3, NewRowStep
  <2>2. added[k] \in News /\ added[k] <= budget["news"] /\ budget["news"] \in Nat
    BY <1>1 DEF InsertInv, fitting, inserted, TypeOK, Budget
  <2>3. added[k] # budget["news"] + 1
    BY <2>2, Bounds DEF News
  <2>4. QED
    BY <1>1, <2>1, <2>2, <2>3 DEF TypeOK
<1>4. ASSUME NEW l \in loads, Loading(l)
      PROVE  made' = made
  BY <1>4 DEF Loading, LoadRead, LoadReturn, LoadFail
<1>5. ASSUME NEW s \in saves, Saving(s)
      PROVE  made' = made
  BY <1>5 DEF Saving, SaveStep, SaveDone, SaveFail
<1>6. ASSUME Deleting \/ Editing \/ Begin
      PROVE  made' = made
  BY <1>6 DEF Deleting, DeleteDone, DeleteFail, DeleteDialog, CancelDelete, ConfirmDelete,
     Editing, OpenEditor, handleCellContextMenu, CloseMenu, CancelEditor, handleCommitCell,
     CommitSame, handleDiscardAll, Begin, SaveButton, handleSaveCellInline, SaveCellSame,
     handleSaveNewCellInline
<1>7. ASSUME (\E c \in counts : Counting(c)) \/ (\E q \in Query : Ask(q)) \/ StructureReturn
             \/ UNCHANGED vars
      PROVE  made' = made
  BY <1>7 DEF Counting, CountReturn, CountFail, Ask, StructureReturn, vars
<1>8. CASE NewRows
  BY <1>2, <1>3, <1>8 DEF NewRows, RemoveDraft
<1>9. QED
  BY <1>1, <1>2, <1>4, <1>5, <1>6, <1>7, <1>8, DataStepKinds

(* What the table holds after a step is right for its row, or what the row *)
(* was made with.                                                          *)
LEMMA TableRight ==
  ASSUME Types, InsertInv, RowInv, [Next]_vars
  PROVE  \A k \in Keys' : table'[k] # 0 => StaysRight(table'[k], k) \/ cloned(k)'
<1>1. TypeOK /\ ShapeInv
  BY DEF Types
<1>2. ASSUME NEW k \in Keys, table[k] # 0, ~cloned(k)
      PROVE  StaysRight(table[k], k)
  <2>1. table[k] \in 0 .. MaxEdits
    BY <1>1, <1>2 DEF TypeOK
  <2>2. table[k] \in Edits
    BY <1>2, <2>1, Bounds DEF Edits
  <2>3. right(table[k], k)
    BY <1>2 DEF RowInv
  <2>4. QED
    BY <2>2, <2>3, RightKept
<1>3. ASSUME NEW k \in Keys, table[k] # 0, table'[k] = table[k],
             k \in DOMAIN added => k \in DOMAIN added' /\ added'[k] = added[k]
      PROVE  StaysRight(table'[k], k) \/ cloned(k)'
  <2>1. CASE cloned(k)
    <3>1. made'[added[k]] = made[added[k]]
      BY <2>1, MadeKept DEF cloned
    <3>2. QED
      BY <1>3, <2>1, <3>1 DEF cloned
  <2>2. QED
    BY <1>2, <1>3, <2>1
<1>4. CASE table' = table /\ added' = added
  BY <1>3, <1>4 DEF Keys
<1>5. ASSUME NEW s \in saves, SaveStep(s)
      PROVE  \A k \in Keys' : table'[k] # 0 => StaysRight(table'[k], k) \/ cloned(k)'
  <2>1. CASE s.ups # <<>>
    <3>1. /\ 1 \in DOMAIN s.ups /\ s.ups[1] \in Update /\ Keys' = Keys /\ added' = added
          /\ \A k \in Keys : table'[k] = IF k = s.ups[1].key THEN s.ups[1].val ELSE table[k]
      BY <1>5, <2>1, WriteStep
    <3>2. right(s.ups[1].val, s.ups[1].key) /\ s.ups[1].val \in Edits
      BY <3>1 DEF RowInv, Update
    <3>3. StaysRight(s.ups[1].val, s.ups[1].key)
      BY <3>2, RightKept
    <3>4. QED
      BY <1>3, <3>1, <3>3
  <2>2. CASE s.ups = <<>>
    <3>1. /\ Keys' = Keys \cup {last + 1} /\ table'[last + 1] = made[Head(s.ins)]
          /\ \A k \in Keys \ {last + 1} : table'[k] = table[k]
          /\ DOMAIN added' = DOMAIN added \cup {last + 1} /\ added'[last + 1] = Head(s.ins)
          /\ \A k \in DOMAIN added \ {last + 1} : added'[k] = added[k]
      BY <1>5, <2>2, InsertStep
    <3>2. made' = made
      BY <1>5 DEF SaveStep
    <3>3. ASSUME NEW k, k = last + 1
          PROVE  cloned(k)'
      BY <3>1, <3>2, <3>3 DEF cloned
    <3>4. QED
      BY <1>3, <3>1, <3>3
  <2>3. QED
    BY <2>1, <2>2
<1>6. ASSUME NEW d \in deletes, DeleteDone(d)
      PROVE  \A k \in Keys' : table'[k] # 0 => StaysRight(table'[k], k) \/ cloned(k)'
  <2>1. Keys' \subseteq Keys /\ added' = added /\ \A k \in Keys' : table'[k] = table[k]
    BY <1>6 DEF DeleteDone, Keys
  <2>2. QED
    BY <1>3, <2>1
<1>7. QED
  BY <1>4, <1>5, <1>6, TableKinds

(* Every step keeps RowInv.                                                *)
LEMMA RowNext ==
  ASSUME Types, InsertInv, RowInv, [Next]_vars
  PROVE  RowInv'
<1>1. \A i \in DOMAIN drafts' : StaysRight(drafts'[i], rows'[i].key)
  BY DraftsRight
<1>2. \A s \in saves' : \A j \in DOMAIN s.ups : StaysRight(s.ups[j].val, s.ups[j].key)
  BY SavesRight
<1>3. \A k \in Keys' : table'[k] # 0 => StaysRight(table'[k], k) \/ cloned(k)'
  BY TableRight
<1>4. QED
  BY <1>1, <1>2, <1>3 DEF RowInv, right, StaysRight

(* RowInv holds at first.                                                  *)
LEMMA RowInit ==
  ASSUME Init
  PROVE  RowInv
BY DEF Init, RowInv, emptyFn, Keys

(* RowInv holds in every state.                                            *)
LEMMA RightRows ==
  Spec => [](Types /\ RowInv)
<1>1. Init => RowInv
  BY RowInit
<1>2. Types /\ InsertInv /\ RowInv /\ [Next]_vars => RowInv'
  BY RowNext
<1>3. QED
  BY <1>1, <1>2, Inserts, PTL DEF Spec

(* Right row: handleSaveAll writes a change under the key of the row it    *)
(* was typed for, though rowDrafts keeps it by index, unless the rows were *)
(* replaced under the open editor or menu.  Any other change there is in a *)
(* row is one the row was cloned with.                                     *)
THEOREM DataRightRow ==
  Spec => []RightRow
<1>1. RowInv => RightRow
  BY DEF RowInv, right, cloned, RightRow
<1>2. QED
  BY <1>1, RightRows, PTL

-----------------------------------------------------------------------------
(* The keys.                                                               *)
LEMMA LastType ==
  ASSUME Types
  PROVE  last \in Nat /\ IsFiniteSet(DOMAIN added) /\ FirstKeys \in Nat
<1>1. FirstKeys + 2 * MaxNews \in Int /\ FirstKeys \in Nat
  BY Bounds
<1>2. IsFiniteSet(AllKeys) /\ DOMAIN added \in SUBSET AllKeys
  BY <1>1, FS_Interval DEF AllKeys, Types, TypeOK
<1>3. IsFiniteSet(DOMAIN added)
  BY <1>2, FS_Subset
<1>4. Cardinality(DOMAIN added) \in Nat
  BY <1>3, FS_CardinalityType
<1>5. QED
  BY <1>1, <1>3, <1>4 DEF last

(* The last key grows by one with a new row, and stays otherwise.          *)
LEMMA LastGrows ==
  ASSUME Types, KeyInv, [Next]_vars
  PROVE  last' \in Nat /\ last <= last' /\ DOMAIN added' = FirstKeys + 1 .. last'
<1>1. last \in Nat /\ IsFiniteSet(DOMAIN added) /\ FirstKeys \in Nat
  BY LastType
<1>2. DOMAIN added = FirstKeys + 1 .. last
  BY DEF KeyInv
<1>3. CASE added' = added
  BY <1>1, <1>2, <1>3 DEF last
<1>4. ASSUME NEW s \in saves, SaveStep(s), s.ups = <<>>
      PROVE  last' \in Nat /\ last <= last' /\ DOMAIN added' = FirstKeys + 1 .. last'
  <2>1. DOMAIN added' = DOMAIN added \cup {last + 1}
    BY <1>4, InsertStep
  <2>2. last + 1 \notin DOMAIN added
    BY <1>1, <1>2
  <2>3. Cardinality(DOMAIN added \cup {last + 1}) = Cardinality(DOMAIN added) + 1
    BY <1>1, <2>2, FS_AddElement
  <2>4. Cardinality(DOMAIN added) \in Nat
    BY <1>1, FS_CardinalityType
  <2>5. last' = last + 1
    BY <1>1, <2>1, <2>3, <2>4 DEF last
  <2>6. last >= FirstKeys
    BY <1>1, <2>4 DEF last
  <2>7. DOMAIN added \cup {last + 1} = FirstKeys + 1 .. last + 1
    BY <1>1, <1>2, <2>6
  <2>8. QED
    BY <1>1, <2>1, <2>5, <2>7
<1>5. ASSUME NEW s \in saves, SaveStep(s), s.ups # <<>>
      PROVE  added' = added
  BY <1>5, WriteStep
<1>6. ASSUME NEW d \in deletes, DeleteDone(d)
      PROVE  added' = added
  BY <1>6 DEF DeleteDone
<1>7. QED
  BY <1>3, <1>4, <1>5, <1>6, TableKinds

(* The rows that may come to be shown.                                     *)
LEMMA RowsKinds ==
  ASSUME Types, [Next]_vars
  PROVE  /\ rows' = rows \/ \E l \in loads : rows' = l.got
         /\ \A m \in loads' : \/ \E l \in loads : m.got = l.got
                              \/ m.got = <<>>
                              \/ \E q \in Query : m.got \in answers(q)
<1>1. TypeOK /\ ShapeInv
  BY DEF Types
<1>2. ASSUME NEW q, issue(q)
      PROVE  \A m \in loads' : m \in loads \/ m.got = <<>>
  BY <1>2 DEF issue
<1>3. ASSUME NEW l \in loads, Loading(l)
      PROVE  /\ rows' = rows \/ rows' = l.got
             /\ \A m \in loads' : (\E n \in loads : m.got = n.got) \/ \E q \in Query : m.got \in answers(q)
  <2>1. CASE LoadRead(l)
    <3>1. rows' = rows /\ l.q \in Query
      BY <1>1, <2>1 DEF LoadRead, view, TypeOK
    <3>2. PICK got \in answers(l.q) :
            loads' = (loads \ {l}) \cup {[id |-> l.id, q |-> l.q, read |-> TRUE, got |-> got]}
      BY <2>1 DEF LoadRead
    <3>3. \A m \in loads' : m \in loads \/ m.got \in answers(l.q)
      BY <3>2
    <3>4. QED
      BY <3>1, <3>3
  <2>2. CASE LoadReturn(l) \/ LoadFail(l)
    BY <2>2 DEF LoadReturn, LoadFail
  <2>3. QED
    BY <1>3, <2>1, <2>2 DEF Loading
<1>4. ASSUME NEW s \in saves, Saving(s)
      PROVE  rows' = rows /\ \A m \in loads' : m \in loads \/ m.got = <<>>
  BY <1>2, <1>4 DEF Saving, SaveStep, SaveDone, SaveFail, view
<1>5. CASE Deleting
  <2>1. ASSUME NEW d \in deletes, DeleteDone(d)
        PROVE  rows' = rows /\ \A m \in loads' : m \in loads \/ m.got = <<>>
    BY <1>2, <2>1 DEF DeleteDone
  <2>2. CASE ~\E d \in deletes : DeleteDone(d)
    BY <1>5, <2>2 DEF Deleting, DeleteFail, DeleteDialog, CancelDelete, ConfirmDelete, view
  <2>3. QED
    BY <2>1, <2>2
<1>6. ASSUME Editing \/ NewRows
      PROVE  rows' = rows /\ loads' = loads
  BY <1>6 DEF Editing, OpenEditor, handleCellContextMenu, CloseMenu, CancelEditor,
     handleCommitCell, CommitSame,
     handleDiscardAll, NewRows, newRow, RemoveDraft, view, calls
<1>7. ASSUME Begin
      PROVE  rows' = rows /\ loads' = loads
  BY <1>1, <1>7, BeginStep DEF view
<1>8. ASSUME NEW q \in Query, Ask(q)
      PROVE  rows' = rows /\ \A m \in loads' : m \in loads \/ m.got = <<>>
  BY <1>2, <1>8 DEF Ask
<1>9. ASSUME (\E c \in counts : Counting(c)) \/ StructureReturn \/ UNCHANGED vars
      PROVE  rows' = rows /\ loads' = loads
  BY <1>9 DEF Counting, CountReturn, CountFail, StructureReturn, vars, view, calls
<1>10. QED
  BY <1>1, <1>3, <1>4, <1>5, <1>6, <1>7, <1>8, <1>9, DataStepKinds

(* Every step keeps KeyInv.                                                *)
LEMMA KeyNext ==
  ASSUME Types, KeyInv, [Next]_vars
  PROVE  KeyInv'
<1>1. TypeOK /\ ShapeInv /\ last \in Nat
  BY LastType DEF Types
<1>2. last' \in Nat /\ last <= last' /\ DOMAIN added' = FirstKeys + 1 .. last'
  BY LastGrows
<1>3. /\ \A k \in Keys : k \in AllKeys /\ k <= last
      /\ isPage(rows) /\ \A l \in loads : isPage(l.got)
  BY <1>1 DEF KeyInv, TypeOK
<1>4. \A k \in Keys' : k <= last'
  <2>1. \A k \in Keys : k <= last'
    BY <1>1, <1>2, <1>3, Bounds DEF AllKeys
  <2>2. ASSUME NEW s \in saves, SaveStep(s), s.ups = <<>>
        PROVE  \A k \in Keys' : k <= last'
    <3>1. Keys' = Keys \cup {last + 1} /\ DOMAIN added' = DOMAIN added \cup {last + 1}
      BY <2>2, InsertStep
    <3>2. last + 1 <= last'
      <4>1. last + 1 \in FirstKeys + 1 .. last'
        BY <1>2, <3>1
      <4>2. QED
        BY <1>1, <1>2, <4>1, Bounds
    <3>3. QED
      BY <2>1, <3>1, <3>2
  <2>3. ASSUME NEW s \in saves, SaveStep(s), s.ups # <<>>
        PROVE  Keys' = Keys
    BY <2>3, WriteStep
  <2>4. ASSUME NEW d \in deletes, DeleteDone(d)
        PROVE  Keys' \subseteq Keys
    BY <2>4 DEF DeleteDone, Keys
  <2>5. CASE table' = table
    BY <2>1, <2>5 DEF Keys
  <2>6. QED
    BY <2>1, <2>2, <2>3, <2>4, <2>5, TableKinds
<1>5. ASSUME NEW r, isRows(r), isPage(r)
      PROVE  isPage(r)'
  <2>1. \A i \in DOMAIN r : r[i].key \in Nat /\ r[i].key <= last
    BY <1>5, Bounds DEF isRows, isPage, Row, AllKeys
  <2>2. \A i \in DOMAIN r : r[i].key <= last'
    BY <1>1, <1>2, <2>1
  <2>3. QED
    BY <1>5, <2>2 DEF isPage
<1>6. ASSUME NEW q \in Query, NEW r \in answers(q)
      PROVE  isRows(r) /\ isPage(r)
  BY <1>1, <1>3, <1>6, AnswerType DEF isPage
<1>7. isRows(rows) /\ \A l \in loads : isRows(l.got)
  BY <1>1 DEF TypeOK
<1>8. isRows(<<>>) /\ isPage(<<>>)
  BY DEF isRows, isPage
<1>9. isPage(rows)'
  <2>1. PICK r : r = rows'
    OBVIOUS
  <2>2. isRows(r) /\ isPage(r)
    BY <1>3, <1>7, <2>1, RowsKinds
  <2>3. isPage(r)'
    BY <1>5, <2>2
  <2>4. QED
    BY <2>1, <2>3 DEF isPage
<1>10. ASSUME NEW m \in loads'
       PROVE  isPage(m.got)'
  <2>1. isRows(m.got) /\ isPage(m.got)
    BY <1>3, <1>6, <1>7, <1>8, <1>10, RowsKinds
  <2>2. QED
    BY <1>5, <2>1
<1>11. QED
  BY <1>2, <1>4, <1>9, <1>10 DEF KeyInv

(* KeyInv holds at first.                                                  *)
LEMMA KeyInit ==
  ASSUME Init
  PROVE  KeyInv
<1>1. DOMAIN added = {} /\ Keys = 1 .. FirstKeys /\ rows = <<>> /\ \A l \in loads : l.got = <<>>
  BY DEF Init, emptyFn, Keys
<1>2. last = FirstKeys /\ FirstKeys \in Nat
  BY <1>1, FS_EmptySet, Bounds DEF last
<1>3. QED
  BY <1>1, <1>2 DEF KeyInv, isPage

-----------------------------------------------------------------------------
(* The calm edits.                                                         *)
Calm == Types /\ RowInv /\ KeyInv /\ CalmInv

(* A kept change is an old one of another row, or the one just typed.      *)
Old(e) ==
  /\ e \in ghost.kept /\ ghost'.meant[e] = ghost.meant[e]
  /\ e \notin ghost'.strayed /\ e <= budget'["edits"]
  /\ Typed \/ Undone => ghost.meant[e] # rows[cell.idx].key
New(e) == Typed /\ e = typed /\ quietNow /\ cell.key = rows[cell.idx].key

(* Types the proofs about CalmInv use.                                     *)
LEMMA CalmFacts ==
  ASSUME Calm
  PROVE  /\ TypeOK /\ ShapeInv /\ ghost \in Ghost
         /\ budget["edits"] \in Nat /\ \A e \in Edits : e \in Nat
BY Bounds DEF Calm, Types, TypeOK, Ghost, Budget, Edits

(* What the history notes of a text that is typed.                         *)
LEMMA TypedNote ==
  ASSUME Calm, Typed
  PROVE  /\ budget'["edits"] = typed /\ typed = budget["edits"] + 1
         /\ typed \in Edits /\ cell.idx \in DOMAIN rows /\ cell.key \in AllKeys
         /\ ghost'.meant[typed] = cell.key
         /\ \A e \in Edits \ {typed} : ghost'.meant[e] = ghost.meant[e]
         /\ \A e \in ghost'.strayed : e \in ghost.strayed
                                      \/ (e = typed /\ cell.key # rows[cell.idx].key)
         /\ \A e \in ghost'.kept :
              \/ e \in ghost.kept /\ ghost.meant[e] # rows[cell.idx].key
              \/ e = typed /\ quietNow /\ cell.key = rows[cell.idx].key
<1>1. TypeOK /\ ShapeInv /\ ghost \in Ghost
  BY CalmFacts
<1>2. /\ budget'["edits"] = typed /\ typed = budget["edits"] + 1
      /\ typed \in Edits /\ cell.idx \in DOMAIN rows /\ cell.key \in AllKeys
  BY <1>1, TypedGhost, TypedStep DEF Typed, typed
<1>3. ghost'.meant = [ghost.meant EXCEPT ![typed] = cell.key]
  BY <1>1 DEF Typed, noteTyped, Ghost
<1>4. /\ ghost'.meant[typed] = cell.key
      /\ \A e \in Edits \ {typed} : ghost'.meant[e] = ghost.meant[e]
  BY <1>1, <1>2, <1>3 DEF Ghost
<1>5. ghost'.strayed = IF cell.key # rows[cell.idx].key THEN ghost.strayed \cup {typed}
                                                              ELSE ghost.strayed
  BY <1>1 DEF Typed, noteTyped, Ghost
<1>6. ghost'.kept = {e \in ghost.kept : ghost.meant[e] \notin {cell.key, rows[cell.idx].key}}
                      \cup (IF quietNow /\ ~(cell.key # rows[cell.idx].key) THEN {typed} ELSE {})
  BY <1>1 DEF Typed, noteTyped, Ghost
<1>7. QED
  BY <1>2, <1>4, <1>5, <1>6

(* A change that is kept was kept before, or has just been typed.          *)
LEMMA KeptKinds ==
  ASSUME Calm, [Next]_vars, NEW e \in ghost'.kept
  PROVE  Old(e) \/ New(e)
<1>1. TypeOK /\ ShapeInv /\ ghost \in Ghost /\ budget["edits"] \in Nat /\ \A x \in Edits : x \in Nat
  BY CalmFacts
<1>2. \A x \in ghost.kept : x \in Edits /\ x <= budget["edits"] /\ x \notin ghost.strayed
  BY <1>1 DEF Calm, CalmInv, known, Ghost
<1>3. CASE Typed
  <2>1. /\ budget'["edits"] = typed /\ typed = budget["edits"] + 1
        /\ \A x \in Edits \ {typed} : ghost'.meant[x] = ghost.meant[x]
        /\ \A x \in ghost'.strayed : x \in ghost.strayed
                                     \/ (x = typed /\ cell.key # rows[cell.idx].key)
        /\ \/ e \in ghost.kept /\ ghost.meant[e] # rows[cell.idx].key
           \/ e = typed /\ quietNow /\ cell.key = rows[cell.idx].key
    BY <1>3, TypedNote
  <2>2. CASE e \in ghost.kept /\ ghost.meant[e] # rows[cell.idx].key
    <3>1. e \in Edits /\ e <= budget["edits"] /\ e \notin ghost.strayed /\ e \in Nat
      BY <1>1, <1>2, <2>2
    <3>2. e # typed /\ e <= typed
      BY <1>1, <2>1, <3>1
    <3>3. ghost'.meant[e] = ghost.meant[e] /\ e \notin ghost'.strayed
      BY <2>1, <3>1, <3>2
    <3>4. QED
      BY <2>1, <2>2, <3>2, <3>3 DEF Old
  <2>3. QED
    BY <1>3, <2>1, <2>2 DEF New
<1>4. CASE Undone
  <2>1. /\ budget' = budget /\ ghost'.meant = ghost.meant /\ ghost'.strayed = ghost.strayed
        /\ e \in ghost.kept /\ ghost.meant[e] # rows[cell.idx].key
    BY <1>4 DEF Undone, KeptElsewhere
  <2>2. QED
    BY <1>2, <2>1 DEF Old
<1>5. CASE SameMeaning /\ ~Typed /\ ~Undone
  <2>1. /\ budget'["edits"] = budget["edits"] /\ ghost'.meant = ghost.meant
        /\ ghost'.strayed = ghost.strayed /\ e \in ghost.kept
    BY <1>5 DEF SameMeaning
  <2>2. QED
    BY <1>2, <1>5, <2>1 DEF Old
<1>6. QED
  BY <1>3, <1>4, <1>5, DraftKinds DEF Calm

(* A change that has landed stays, and the write of it lets it land.       *)
LEMMA LandedKept ==
  ASSUME Calm, [Next]_vars, NEW e \in ghost'.kept, Old(e), landed(e)
  PROVE  landed(e)'
<1>1. TypeOK /\ ShapeInv /\ ghost \in Ghost
  BY CalmFacts
<1>2. /\ e \in ghost.kept /\ ghost'.meant[e] = ghost.meant[e]
      /\ known(e) /\ carried(e) /\ Types /\ KeyInv
  BY DEF Old, Calm, CalmInv
<1> DEFINE k == ghost.meant[e]
<1>3. k \in Keys => table[k] = e
  BY DEF landed
<1>4. SUFFICES k \in Keys' => table'[k] = e
  BY <1>2 DEF landed
<1> HIDE DEF k
<1>5. CASE table' = table
  BY <1>3, <1>5 DEF Keys
<1>6. ASSUME NEW s \in saves, SaveStep(s)
      PROVE  k \in Keys' => table'[k] = e
  <2>1. CASE s.ups # <<>>
    <3>1. /\ 1 \in DOMAIN s.ups /\ Keys' = Keys
          /\ \A j \in Keys : table'[j] = IF j = s.ups[1].key THEN s.ups[1].val ELSE table[j]
      BY <1>2, <1>6, <2>1, WriteStep
    <3>2. s.ups[1].key = k => s.ups[1].val = e
      BY <1>2, <1>6, <3>1 DEF carried, k
    <3>3. QED
      BY <1>3, <3>1, <3>2
  <2>2. CASE s.ups = <<>>
    <3>1. /\ Keys' = Keys \cup {last + 1}
          /\ \A j \in Keys \ {last + 1} : table'[j] = table[j]
      BY <1>2, <1>6, <2>2, InsertStep
    <3>2. k # last + 1
      <4>1. last \in Nat
        BY <1>2, LastType
      <4>2. k <= last
        BY <1>2 DEF known, k
      <4>3. QED
        BY <4>1, <4>2
    <3>3. QED
      BY <1>3, <3>1, <3>2
  <2>3. QED
    BY <2>1, <2>2
<1>7. ASSUME NEW d \in deletes, DeleteDone(d)
      PROVE  FALSE
  <2>1. ghost'.kept = {}
    BY <1>1, <1>7 DEF DeleteDone, Ghost
  <2>2. QED
    BY <2>1
<1>8. QED
  BY <1>2, <1>5, <1>6, <1>7, TableKinds

(* A change whose update is written has landed.                            *)
LEMMA WriteLands ==
  ASSUME Calm, [Next]_vars, NEW e \in ghost'.kept, Old(e), NEW s \in saves, SaveStep(s),
         s.ups # <<>>, s.ups[1].val = e
  PROVE  landed(e)'
<1>1. TypeOK /\ ShapeInv /\ Types /\ RowInv /\ e \in ghost.kept /\ known(e)
  BY DEF Old, Calm, CalmInv, Types
<1>2. /\ 1 \in DOMAIN s.ups /\ Keys' = Keys
      /\ \A j \in Keys : table'[j] = IF j = s.ups[1].key THEN s.ups[1].val ELSE table[j]
  BY <1>1, WriteStep
<1>3. ghost.meant[e] = s.ups[1].key
  BY <1>1, <1>2 DEF RowInv, right, known
<1>4. QED
  BY <1>2, <1>3 DEF landed, Old

(* When the drafts go, what is kept has landed.                            *)
LEMMA SettledLands ==
  ASSUME Calm, [Next]_vars, NEW e \in ghost'.kept, Old(e), Settled
  PROVE  landed(e)'
<1>1. /\ e \in ghost.kept /\ carried(e)
      /\ (\E l \in loads : l.id = req) => landed(e)
  BY DEF Old, Calm, CalmInv
<1>2. CASE \E s \in saves : s.ups = <<>>
  <2>1. PICK s \in saves : s.ups = <<>>
    BY <1>2
  <2>2. landed(e) \/ \E j \in DOMAIN s.ups : s.ups[j].val = e
    BY <1>1 DEF carried
  <2>3. DOMAIN s.ups = {}
    BY <2>1
  <2>4. QED
    BY <2>2, <2>3, LandedKept
<1>3. QED
  BY <1>1, <1>2, LandedKept DEF Settled

(* A request is under way already, or is sent by a save that has written   *)
(* all, or takes the drafts.                                               *)
LEMMA SentSettled ==
  ASSUME Calm, [Next]_vars, \E l \in loads' : l.id = req'
  PROVE  Settled
<1>1. TypeOK /\ ShapeInv /\ ghost \in Ghost
  BY CalmFacts
<1>2. ASSUME UNCHANGED <<loads, req>>
      PROVE  Settled
  BY <1>2 DEF Settled
<1>3. ASSUME NEW l \in loads, Loading(l)
      PROVE  Settled
  <2>1. req' = req
    BY <1>3 DEF Loading, LoadRead, LoadReturn, LoadFail
  <2>2. \A m \in loads' : \E n \in loads : m.id = n.id
    <3>1. CASE LoadRead(l)
      <4>1. PICK got : loads' = (loads \ {l}) \cup {[id |-> l.id, q |-> l.q, read |-> TRUE,
      got |-> got]}
        BY <3>1 DEF LoadRead
      <4>2. QED
        BY <4>1
    <3>2. CASE LoadReturn(l) \/ LoadFail(l)
      BY <3>2 DEF LoadReturn, LoadFail
    <3>3. QED
      BY <1>3, <3>1, <3>2 DEF Loading
  <2>3. QED
    BY <2>1, <2>2 DEF Settled
<1>4. ASSUME NEW s \in saves, Saving(s)
      PROVE  Settled
  <2>1. CASE SaveDone(s)
    BY <2>1 DEF SaveDone, Settled
  <2>2. CASE SaveStep(s) \/ SaveFail(s)
    BY <1>2, <2>2 DEF SaveStep, SaveFail
  <2>3. QED
    BY <1>4, <2>1, <2>2 DEF Saving
<1>5. CASE Deleting
  <2>1. ASSUME NEW d \in deletes, DeleteDone(d)
        PROVE  Settled
    <3>1. ghost'.kept = {}
      BY <1>1, <2>1 DEF DeleteDone, Ghost
    <3>2. QED
      BY <3>1 DEF Settled
  <2>2. CASE ~\E d \in deletes : DeleteDone(d)
    BY <1>2, <1>5, <2>2 DEF Deleting, DeleteFail, DeleteDialog, CancelDelete, ConfirmDelete
  <2>3. QED
    BY <2>1, <2>2
<1>6. CASE Editing \/ NewRows
  BY <1>2, <1>6 DEF Editing, OpenEditor, handleCellContextMenu, CloseMenu, CancelEditor,
     handleCommitCell, CommitSame,
     handleDiscardAll, NewRows, newRow, RemoveDraft, calls
<1>7. CASE Begin
  BY <1>1, <1>2, <1>7, BeginStep
<1>8. ASSUME NEW q \in Query, Ask(q)
      PROVE  Settled
  <2>1. ghost'.kept = {}
    BY <1>1, <1>8 DEF Ask, Ghost
  <2>2. QED
    BY <2>1 DEF Settled
<1>9. CASE (\E c \in counts : Counting(c)) \/ StructureReturn \/ UNCHANGED vars
  BY <1>2, <1>9 DEF Counting, CountReturn, CountFail, StructureReturn, vars, calls
<1>10. QED
  BY <1>1, <1>3, <1>4, <1>5, <1>6, <1>7, <1>8, <1>9, DataStepKinds

(* A change kept before is still a draft or has landed.                    *)
LEMMA OldDrafted ==
  ASSUME Calm, [Next]_vars, NEW e \in ghost'.kept, Old(e)
  PROVE  drafted(e)'
<1>1. TypeOK /\ ShapeInv /\ Types /\ RowInv
  BY DEF Calm, Types
<1>2. /\ e \in ghost.kept /\ ghost'.meant[e] = ghost.meant[e] /\ known(e) /\ drafted(e)
      /\ Typed \/ Undone => ghost.meant[e] # rows[cell.idx].key
  BY DEF Old, Calm, CalmInv
<1>3. \A i \in DOMAIN drafts : drafts[i] = e => rows[i].key = ghost.meant[e]
  BY <1>1, <1>2 DEF RowInv, right, known
<1>4. ASSUME rows' = rows,
             \A i \in DOMAIN drafts : rows[i].key = ghost.meant[e] =>
                i \in DOMAIN drafts' /\ drafts'[i] = drafts[i],
             \A i \in DOMAIN drafts' : rows[i].key = ghost.meant[e] =>
                i \in DOMAIN drafts /\ drafts'[i] = drafts[i]
      PROVE  drafted(e)'
  <2>1. \A i \in DOMAIN drafts' : rows'[i].key = ghost'.meant[e] => drafts'[i] = e
    BY <1>2, <1>4 DEF drafted
  <2>2. landed(e)' \/ \E i \in DOMAIN drafts' : drafts'[i] = e
    <3>1. CASE landed(e)
      BY <3>1, LandedKept
    <3>2. CASE \E i \in DOMAIN drafts : drafts[i] = e
      BY <1>3, <1>4, <3>2
    <3>3. QED
      BY <1>2, <3>1, <3>2 DEF drafted
  <2>3. QED
    BY <2>1, <2>2 DEF drafted
<1>5. CASE Typed /\ rows' = rows
  <2>1. /\ DOMAIN drafts' = DOMAIN drafts \cup {cell.idx}
        /\ \A i \in DOMAIN drafts \ {cell.idx} : drafts'[i] = drafts[i]
    BY <1>1, <1>5, TypedStep DEF Typed
  <2>2. QED
    BY <1>2, <1>4, <1>5, <2>1
<1>6. CASE Undone /\ rows' = rows
  <2>1. /\ DOMAIN drafts' = DOMAIN drafts \ {cell.idx}
        /\ \A i \in DOMAIN drafts \ {cell.idx} : drafts'[i] = drafts[i]
    BY <1>6 DEF Undone
  <2>2. QED
    BY <1>2, <1>4, <1>6, <2>1
<1>7. CASE drafts' = drafts /\ rows' = rows
  BY <1>4, <1>7
<1>8. CASE DOMAIN drafts' = {} /\ Settled
  BY <1>8, SettledLands DEF drafted
<1>9. QED
  BY <1>1, <1>5, <1>6, <1>7, <1>8, DraftKinds

(* A save carries what the drafts had when it began.                       *)
LEMMA StartedCarries ==
  ASSUME Calm, Begin, NEW s, Started(s), NEW e, drafted(e)'
  PROVE  /\ landed(e)' \/ \E j \in DOMAIN s.ups : s.ups[j].val = e
         /\ \A j \in DOMAIN s.ups : s.ups[j].key = ghost'.meant[e] => s.ups[j].val = e
<1>1. TypeOK /\ ShapeInv
  BY DEF Calm, Types
<1>2. rows' = rows
  BY <1>1, BeginStep DEF view
<1>3. Takes(s, drafts')
  BY DEF Started
<1>4. /\ landed(e)' \/ \E i \in DOMAIN drafts' : drafts'[i] = e
      /\ \A i \in DOMAIN drafts' : rows[i].key = ghost'.meant[e] => drafts'[i] = e
  BY <1>2 DEF drafted
<1>5. QED
  BY <1>3, <1>4 DEF Takes

(* A change kept before is carried by every save, or has landed.           *)
LEMMA OldCarried ==
  ASSUME Calm, [Next]_vars, NEW e \in ghost'.kept, Old(e)
  PROVE  carried(e)'
<1>1. e \in ghost.kept /\ ghost'.meant[e] = ghost.meant[e] /\ carried(e) /\ Types
  BY DEF Old, Calm, CalmInv
<1>2. SUFFICES ASSUME NEW t \in saves'
               PROVE  /\ landed(e)' \/ \E j \in DOMAIN t.ups : t.ups[j].val = e
                      /\ \A j \in DOMAIN t.ups : t.ups[j].key = ghost.meant[e] => t.ups[j].val = e
  BY <1>1 DEF carried
<1>3. CASE t \in saves
  <2>1. /\ landed(e) \/ \E j \in DOMAIN t.ups : t.ups[j].val = e
        /\ \A j \in DOMAIN t.ups : t.ups[j].key = ghost.meant[e] => t.ups[j].val = e
    BY <1>1, <1>3 DEF carried
  <2>2. QED
    BY <2>1, LandedKept
<1>4. ASSUME NEW s \in saves, SaveStep(s), t \notin saves
      PROVE  /\ landed(e)' \/ \E j \in DOMAIN t.ups : t.ups[j].val = e
             /\ \A j \in DOMAIN t.ups : t.ups[j].key = ghost.meant[e] => t.ups[j].val = e
  <2>1. /\ landed(e) \/ \E j \in DOMAIN s.ups : s.ups[j].val = e
        /\ \A j \in DOMAIN s.ups : s.ups[j].key = ghost.meant[e] => s.ups[j].val = e
    BY <1>1, <1>4 DEF carried
  <2>2. CASE s.ups # <<>>
    <3>1. PICK r : /\ saves' = (saves \ {s}) \cup {r}
                   /\ \A j \in DOMAIN r.ups : j + 1 \in DOMAIN s.ups /\ r.ups[j] = s.ups[j + 1]
                   /\ \A j \in DOMAIN s.ups : j = 1 \/ (j - 1 \in DOMAIN r.ups /\ r.ups[j - 1] = s.ups[j])
      BY <1>1, <1>4, <2>2, WriteStep
    <3>2. r = t
      BY <1>4, <3>1
    <3>3. \A j \in DOMAIN t.ups : t.ups[j].key = ghost.meant[e] => t.ups[j].val = e
      BY <2>1, <3>1, <3>2
    <3>4. CASE landed(e)
      BY <3>3, <3>4, LandedKept
    <3>5. CASE \E j \in DOMAIN s.ups : s.ups[j].val = e
      <4>1. PICK j \in DOMAIN s.ups : s.ups[j].val = e
        BY <3>5
      <4>2. CASE j = 1
        BY <1>4, <2>2, <3>3, <4>1, <4>2, WriteLands
      <4>3. CASE j # 1
        BY <3>1, <3>2, <3>3, <4>1, <4>3
      <4>4. QED
        BY <4>2, <4>3
    <3>6. QED
      BY <2>1, <3>4, <3>5
  <2>3. CASE s.ups = <<>>
    <3>1. PICK r : saves' = (saves \ {s}) \cup {r} /\ r.ups = <<>>
      BY <1>1, <1>4, <2>3, InsertStep
    <3>2. r = t /\ DOMAIN t.ups = {} /\ DOMAIN s.ups = {}
      BY <1>4, <2>3, <3>1
    <3>3. QED
      BY <2>1, <3>2, LandedKept
  <2>4. QED
    BY <2>2, <2>3
<1>5. ASSUME Begin, NEW s, Started(s), t \notin saves
      PROVE  /\ landed(e)' \/ \E j \in DOMAIN t.ups : t.ups[j].val = e
             /\ \A j \in DOMAIN t.ups : t.ups[j].key = ghost.meant[e] => t.ups[j].val = e
  <2>1. t = s
    BY <1>5 DEF Started
  <2>2. drafted(e)'
    BY OldDrafted
  <2>3. QED
    BY <1>1, <1>5, <2>1, <2>2, StartedCarries
<1>6. QED
  BY <1>1, <1>3, <1>4, <1>5, SaveKinds

(* The change just typed.                                                  *)
LEMMA NewDrafted ==
  ASSUME Calm, [Next]_vars, NEW e \in ghost'.kept, New(e)
  PROVE  known(e)' /\ drafted(e)'
<1>1. /\ TypeOK /\ ShapeInv /\ Types /\ KeyInv /\ ghost \in Ghost
      /\ budget["edits"] \in Nat /\ \A x \in ghost.strayed : x <= budget["edits"]
  BY CalmFacts DEF Calm, CalmInv
<1>2. Typed /\ e = typed /\ cell.key = rows[cell.idx].key
  BY DEF New
<1>3. /\ budget'["edits"] = typed /\ typed = budget["edits"] + 1
      /\ typed \in Edits /\ cell.idx \in DOMAIN rows /\ cell.key \in AllKeys
      /\ ghost'.meant[typed] = cell.key
      /\ \A x \in ghost'.strayed : x \in ghost.strayed
                                   \/ (x = typed /\ cell.key # rows[cell.idx].key)
  BY <1>2, TypedNote
<1>4. rows' = rows
  <2>1. ~SameMeaning
    BY <1>1, <1>3 DEF SameMeaning
  <2>2. QED
    BY <1>1, <2>1, DraftKinds
<1>5. e <= budget'["edits"] /\ e \notin ghost'.strayed
  <2>1. typed \notin ghost.strayed /\ typed <= typed
    BY <1>1, <1>3
  <2>2. QED
    BY <1>2, <1>3, <2>1
<1>6. ghost'.meant[e] # None /\ ghost'.meant[e] <= last'
  <2>1. cell.key # None
    BY <1>3, NoneAssumption
  <2>2. cell.key <= last /\ cell.key \in Nat
    BY <1>1, <1>2, <1>3, Bounds DEF KeyInv, isPage, AllKeys
  <2>3. last \in Nat /\ last' \in Nat /\ last <= last'
    BY <1>1, LastType, LastGrows
  <2>4. QED
    BY <1>2, <1>3, <2>1, <2>2, <2>3
<1>7. drafted(e)'
  <2>1. /\ DOMAIN drafts' = DOMAIN drafts \cup {cell.idx} /\ drafts'[cell.idx] = typed
    BY <1>1, <1>2, TypedStep DEF Typed
  <2>2. DOMAIN drafts \subseteq DOMAIN rows
    BY <1>1 DEF ShapeInv
  <2>3. \A i \in DOMAIN rows : rows[i].key = rows[cell.idx].key => i = cell.idx
    BY <1>1, <1>3 DEF KeyInv, isPage
  <2>4. QED
    BY <1>2, <1>3, <1>4, <2>1, <2>2, <2>3 DEF drafted
<1>8. QED
  BY <1>5, <1>6, <1>7 DEF known

(* A change just typed is carried by the save that begins with it.         *)
LEMMA NewCarried ==
  ASSUME Calm, [Next]_vars, NEW e \in ghost'.kept, New(e)
  PROVE  carried(e)' /\ ~\E l \in loads' : l.id = req'
<1>1. Types /\ saves = {} /\ \A l \in loads : l.id # req
  BY DEF Calm, New, quietNow
<1>2. ~Settled
  BY <1>1 DEF Settled
<1>3. ~\E l \in loads' : l.id = req'
  BY <1>2, SentSettled
<1>4. CASE saves' = {}
  BY <1>3, <1>4 DEF carried
<1>5. ASSUME Begin, NEW s, Started(s)
      PROVE  carried(e)'
  <2>1. saves' = {s}
    BY <1>1, <1>5 DEF Started
  <2>2. /\ landed(e)' \/ \E j \in DOMAIN s.ups : s.ups[j].val = e
        /\ \A j \in DOMAIN s.ups : s.ups[j].key = ghost'.meant[e] => s.ups[j].val = e
    BY <1>5, NewDrafted, StartedCarries
  <2>3. QED
    BY <2>1, <2>2 DEF carried
<1>6. QED
  BY <1>1, <1>3, <1>4, <1>5, SaveKinds

(* Every step keeps CalmInv.                                               *)
LEMMA CalmNext ==
  ASSUME Calm, [Next]_vars
  PROVE  CalmInv'
<1>1. TypeOK /\ ShapeInv /\ ghost \in Ghost /\ budget["edits"] \in Nat /\ \A x \in Edits : x \in Nat
  BY CalmFacts
<1>2. \A e \in ghost'.strayed : e <= budget'["edits"]
  <2>1. \A e \in ghost.strayed : e <= budget["edits"] /\ e \in Nat
    BY <1>1 DEF Calm, CalmInv, Ghost
  <2>2. CASE Typed
    <3>1. /\ budget'["edits"] = typed /\ typed = budget["edits"] + 1
          /\ \A e \in ghost'.strayed : e \in ghost.strayed \/ e = typed
      BY <2>2, TypedNote
    <3>2. \A e \in ghost.strayed : e <= typed
      BY <1>1, <2>1, <3>1
    <3>3. typed <= typed
      BY <1>1, <3>1
    <3>4. QED
      BY <3>1, <3>2, <3>3
  <2>3. CASE Undone \/ SameMeaning
    BY <2>1, <2>3 DEF Undone, SameMeaning
  <2>4. QED
    BY <2>2, <2>3, DraftKinds DEF Calm
<1>3. ASSUME NEW e \in ghost'.kept, Old(e)
      PROVE  known(e)' /\ drafted(e)' /\ carried(e)' /\ ((\E l \in loads' : l.id = req') => landed(e)')
  <2>1. known(e)'
    <3>1. /\ e \in ghost.kept /\ ghost'.meant[e] = ghost.meant[e]
          /\ e \notin ghost'.strayed /\ e <= budget'["edits"]
          /\ ghost.meant[e] # None /\ ghost.meant[e] <= last
      BY <1>3 DEF Old, Calm, CalmInv, known
    <3>2. ghost.meant[e] \in Nat
      <4>1. e \in Edits /\ ghost.meant[e] \in AllKeys \cup {None}
        BY <1>1, <3>1 DEF Ghost
      <4>2. QED
        BY <3>1, <4>1, Bounds DEF AllKeys
    <3>3. last \in Nat /\ last' \in Nat /\ last <= last'
      BY LastType, LastGrows DEF Calm
    <3>4. ghost.meant[e] <= last'
      BY <3>1, <3>2, <3>3
    <3>5. QED
      BY <3>1, <3>4 DEF known
  <2>2. QED
    BY <1>3, <2>1, OldDrafted, OldCarried, SentSettled, SettledLands
<1>4. ASSUME NEW e \in ghost'.kept, New(e)
      PROVE  known(e)' /\ drafted(e)' /\ carried(e)' /\ ((\E l \in loads' : l.id = req') => landed(e)')
  BY <1>4, NewDrafted, NewCarried
<1>5. ASSUME NEW e \in ghost'.kept
      PROVE  known(e)' /\ drafted(e)' /\ carried(e)' /\ ((\E l \in loads' : l.id = req') => landed(e)')
  BY <1>3, <1>4, KeptKinds
<1>6. QED
  BY <1>2, <1>5 DEF CalmInv

(* Calm edits land: a change made while nothing was under way is a draft   *)
(* or has been written by handleSaveAll until the user gives it up, though *)
(* answers of loadData drop all drafts and saves may fail half-way.        *)
THEOREM DataCalmEditsLand ==
  Spec => []CalmEditsLand
<1>1. Init => KeyInv /\ CalmInv
  <2>1. Init => ghost.kept = {} /\ ghost.strayed = {}
    BY DEF Init
  <2>2. QED
    BY <2>1, KeyInit DEF CalmInv
<1>2. Types /\ RowInv /\ KeyInv /\ CalmInv /\ [Next]_vars => KeyInv' /\ CalmInv'
  BY KeyNext, CalmNext DEF Calm
<1>3. CalmInv => CalmEditsLand
  BY DEF CalmInv, drafted, landed, CalmEditsLand
<1>4. QED
  BY <1>1, <1>2, <1>3, RightRows, PTL DEF Spec

=============================================================================
