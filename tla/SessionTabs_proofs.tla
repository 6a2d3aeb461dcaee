-------------------------- MODULE SessionTabs_proofs --------------------------
(***************************************************************************)
(* Proofs about the tabs, for any set of sessions, servers and tools.      *)
(*                                                                         *)
(* The active tab: the neighbour pickAdjacentFallback finds is another tab *)
(* of the same strip, which is where the strip having every tab once is    *)
(* needed.  The agent: what it is told is judged against the refs, which   *)
(* change only with it.  The backend: LinkInv says for every connection    *)
(* that is not odd where it may be while calls and events are under way.   *)
(***************************************************************************)
EXTENDS SessionTabs, SequenceTheorems, TLAPS

(* What the effects left agrees with what they saw.                        *)
FollowInv ==
  /\ ref.active \in ToSet(ref.ssh) \cup ToSet(ref.db) => sent = ref.active
  /\ sent # None => sent \in ToSet(ref.ssh) \cup ToSet(ref.db)

(* A connection under way: never both ways, gone once the disconnect has   *)
(* returned, there or reported as ended once the connect has; otherwise    *)
(* its tab is shown exactly while it is there or its end is not yet known, *)
(* or was the end of a reconnect that failed.                              *)
linked(c) ==
  LET up == c \in DOMAIN connecting /\ connecting[c] = "up" IN
  /\ ~(c \in DOMAIN connecting /\ c \in DOMAIN closing)
  /\ c \in DOMAIN closing /\ closing[c] = "down" => c \notin backend
  /\ up => c \in backend \cup events
  /\ c \notin DOMAIN closing /\ ~up =>
       /\ c \in backend => c \in open
       /\ c \in open => c \in backend \cup events \cup ghost.cut
LinkInv == \A c \in Conns \ ghost.odd : linked(c)

TabsInv == TypeOK /\ ActiveIsOpen /\ FollowInv /\ LinkInv

-----------------------------------------------------------------------------
(* Sequences without repetition.                                           *)

(* Two lists with nothing in common are joined to one without repetition.  *)
LEMMA JoinInjective ==
  ASSUME NEW S, NEW a \in Seq(S), NEW b \in Seq(S), IsInjective(a), IsInjective(b),
         ToSet(a) \cap ToSet(b) = {}
  PROVE  /\ a \o b \in Seq(S) /\ IsInjective(a \o b)
         /\ ToSet(a \o b) = ToSet(a) \cup ToSet(b)
<1> DEFINE c == a \o b
<1>1. /\ c \in Seq(S) /\ Len(c) = Len(a) + Len(b)
      /\ Len(a) \in Nat /\ Len(b) \in Nat
      /\ DOMAIN c = 1 .. Len(c) /\ DOMAIN a = 1 .. Len(a) /\ DOMAIN b = 1 .. Len(b)
  OBVIOUS
<1>2. \A i \in DOMAIN c : c[i] = IF i <= Len(a) THEN a[i] ELSE b[i - Len(a)]
  OBVIOUS
<1> HIDE DEF c
<1>3. \A i \in DOMAIN c : IF i <= Len(a) THEN i \in DOMAIN a ELSE i - Len(a) \in DOMAIN b
  BY <1>1
<1>4. \A i \in DOMAIN a : i \in DOMAIN c /\ i <= Len(a)
  BY <1>1
<1>5. \A i \in DOMAIN b :
        /\ i + Len(a) \in DOMAIN c /\ ~(i + Len(a) <= Len(a))
        /\ (i + Len(a)) - Len(a) = i
  BY <1>1
<1>6. \A i \in DOMAIN a, j \in DOMAIN b : a[i] # b[j]
  BY DEF ToSet
<1>7. ASSUME NEW i \in DOMAIN c, NEW j \in DOMAIN c, c[i] = c[j] PROVE i = j
  <2>1. CASE i <= Len(a) /\ j <= Len(a)
    BY <1>2, <1>3, <1>7, <2>1 DEF IsInjective
  <2>2. CASE ~(i <= Len(a)) /\ ~(j <= Len(a))
    <3>1. i - Len(a) = j - Len(a)
      BY <1>2, <1>3, <1>7, <2>2 DEF IsInjective
    <3>2. QED
      BY <3>1, <1>1
  <2>3. CASE ~(i <= Len(a) <=> j <= Len(a))
    BY <1>2, <1>3, <1>6, <1>7, <2>3
  <2>4. QED
    BY <2>1, <2>2, <2>3
<1>8. ToSet(c) = ToSet(a) \cup ToSet(b)
  <2>1. ToSet(c) \subseteq ToSet(a) \cup ToSet(b)
    BY <1>2, <1>3 DEF ToSet
  <2>2. ToSet(a) \subseteq ToSet(c)
    BY <1>2, <1>4 DEF ToSet
  <2>3. ASSUME NEW x \in ToSet(b) PROVE x \in ToSet(c)
    <3>1. PICK i \in DOMAIN b : x = b[i]
      BY <2>3 DEF ToSet
    <3>2. c[i + Len(a)] = b[i] /\ i + Len(a) \in DOMAIN c
      BY <1>2, <1>5
    <3>3. QED
      BY <3>1, <3>2 DEF ToSet
  <2>4. QED
    BY <2>1, <2>2, <2>3
<1>9. QED
  BY <1>1, <1>7, <1>8 DEF c, IsInjective

(* filter on an id takes just that id out.                                 *)
LEMMA RemovedList ==
  ASSUME NEW S, NEW a \in Seq(S), IsInjective(a), NEW c
  PROVE  /\ removed(a, c) \in Seq(S) /\ IsInjective(removed(a, c))
         /\ ToSet(removed(a, c)) = ToSet(a) \ {c}
<1>1. CASE c \notin ToSet(a)
  BY <1>1 DEF removed
<1>2. CASE c \in ToSet(a)
  <2> DEFINE k == CHOOSE i \in DOMAIN a : a[i] = c
             b == RemoveAt(a, k)
  <2>1. k \in DOMAIN a /\ a[k] = c
    BY <1>2 DEF ToSet
  <2>2. removed(a, c) = b
    BY <1>2 DEF removed
  <2> HIDE DEF k
  <2>3. /\ Len(a) \in Nat /\ DOMAIN a = 1 .. Len(a)
        /\ k \in 1 .. Len(a)
    BY <2>1
  <2>4. b = SubSeq(a, 1, k - 1) \o SubSeq(a, k + 1, Len(a))
    BY DEF RemoveAt
  <2>5. PICK p : p = SubSeq(a, 1, k - 1)
    OBVIOUS
  <2>6. PICK q : q = SubSeq(a, k + 1, Len(a))
    OBVIOUS
  <2>p. /\ p \in Seq(S) /\ Len(p) = k - 1
        /\ \A i \in 1 .. (k - 1) : p[i] = a[i]
    BY <2>3, <2>5
  <2>q. /\ q \in Seq(S) /\ Len(q) = Len(a) - k
        /\ \A i \in 1 .. (Len(a) - k) : q[i] = a[i + k]
    <3>1. k + 1 \in 1 .. (Len(a) + 1) /\ Len(a) - (k + 1) + 1 = Len(a) - k
      BY <2>3
    <3>2. q \in Seq(S) /\ Len(q) = Len(a) - k
      <4>1. Len(a) \in (k + 1) - 1 .. Len(a)
        BY <2>3
      <4>2. q \in Seq(S) /\ Len(q) = Len(a) - (k + 1) + 1
        BY <2>6, <3>1, <4>1, SubSeqProperties
      <4>3. QED
        BY <3>1, <4>2
    <3>3. ASSUME NEW i \in 1 .. (Len(a) - k) PROVE q[i] = a[i + k]
      <4>1. (k + 1) + i - 1 = i + k
        BY <2>3
      <4>2. q[i] = a[(k + 1) + i - 1]
        BY <2>3, <2>6, <3>1
      <4>3. QED
        BY <4>1, <4>2
    <3>4. QED
      BY <3>2, <3>3
  <2>b. b = p \o q
    BY <2>4, <2>5, <2>6
  <2> HIDE DEF b
  <2>7. b \in Seq(S) /\ Len(b) = Len(a) - 1 /\ DOMAIN b = 1 .. (Len(a) - 1)
    <3>1. b \in Seq(S) /\ Len(b) = Len(p) + Len(q)
      BY <2>b, <2>p, <2>q, ConcatProperties
    <3>2. Len(b) = Len(a) - 1
      BY <2>3, <2>p, <2>q, <3>1
    <3>3. QED
      BY <3>1, <3>2
  <2>8. ASSUME NEW i \in 1 .. (Len(a) - 1) PROVE b[i] = IF i < k THEN a[i] ELSE a[i + 1]
    <3>1. b[i] = IF i <= Len(p) THEN p[i] ELSE q[i - Len(p)]
      BY <2>3, <2>b, <2>p, <2>q
    <3>2. CASE i < k
      BY <2>3, <2>p, <3>1, <3>2
    <3>3. CASE ~(i < k)
      <4>1. /\ i - (k - 1) \in 1 .. (Len(a) - k) /\ (i - (k - 1)) + k = i + 1
            /\ ~(i <= k - 1)
        BY <2>3, <3>3
      <4>2. QED
        BY <2>p, <2>q, <3>1, <3>3, <4>1
    <3>4. QED
      BY <3>2, <3>3
  <2>9. IsInjective(b)
    <3>1. ASSUME NEW i \in DOMAIN b, NEW j \in DOMAIN b, b[i] = b[j] PROVE i = j
      <4>1. /\ i \in DOMAIN a /\ i + 1 \in DOMAIN a
            /\ j \in DOMAIN a /\ j + 1 \in DOMAIN a
        BY <2>3, <2>7
      <4>2. (IF i < k THEN i ELSE i + 1) = (IF j < k THEN j ELSE j + 1)
        BY <2>7, <2>8, <3>1, <4>1 DEF IsInjective
      <4>3. QED
        BY <2>3, <2>7, <4>1, <4>2
    <3>2. QED
      BY <3>1 DEF IsInjective
  <2>10. ASSUME NEW x \in ToSet(b) PROVE x \in ToSet(a) /\ x # c
    <3>1. PICK i \in DOMAIN b : x = b[i]
      BY <2>10 DEF ToSet
    <3>2. PICK j \in DOMAIN a : x = a[j] /\ j # k
      <4>1. CASE i < k
        BY <2>3, <2>7, <2>8, <3>1, <4>1
      <4>2. CASE ~(i < k)
        <5>1. i + 1 \in DOMAIN a /\ i + 1 # k /\ x = a[i + 1]
          BY <2>3, <2>7, <2>8, <3>1, <4>2
        <5>2. QED
          BY <5>1
      <4>3. QED
        BY <4>1, <4>2
    <3>3. QED
      BY <2>1, <3>2 DEF ToSet, IsInjective
  <2>11. ASSUME NEW x \in ToSet(a), x # c PROVE x \in ToSet(b)
    <3>1. PICK j \in DOMAIN a : x = a[j]
      BY <2>11 DEF ToSet
    <3>2. j # k
      BY <2>1, <2>11, <3>1
    <3>3. CASE j < k
      <4>1. j \in DOMAIN b /\ b[j] = x
        BY <2>3, <2>7, <2>8, <3>1, <3>3
      <4>2. QED
        BY <4>1 DEF ToSet
    <3>4. CASE ~(j < k)
      <4>1. j - 1 \in DOMAIN b /\ ~(j - 1 < k) /\ (j - 1) + 1 = j
        BY <2>3, <2>7, <3>2, <3>4
      <4>2. b[j - 1] = x
        BY <2>7, <2>8, <3>1, <4>1
      <4>3. QED
        BY <4>1, <4>2 DEF ToSet
    <3>5. QED
      BY <3>3, <3>4
  <2>12. QED
    BY <2>2, <2>7, <2>9, <2>10, <2>11
<1>3. QED
  BY <1>1, <1>2

(* addSession: the list has the id once, as its last one.                  *)
LEMMA AddedList ==
  ASSUME NEW S, NEW a \in Seq(S), IsInjective(a), NEW c \in S
  PROVE  /\ Append(removed(a, c), c) \in Seq(S)
         /\ IsInjective(Append(removed(a, c), c))
         /\ ToSet(Append(removed(a, c), c)) = ToSet(a) \cup {c}
<1>1. PICK b : b = removed(a, c)
  OBVIOUS
<1>2. b \in Seq(S) /\ IsInjective(b) /\ ToSet(b) = ToSet(a) \ {c}
  BY <1>1, RemovedList
<1>3. PICK d : d = <<c>>
  OBVIOUS
<1>4. d \in Seq(S) /\ IsInjective(d) /\ ToSet(d) = {c}
  BY <1>3 DEF IsInjective, ToSet
<1>5. Append(b, c) = b \o d
  BY <1>2, <1>3
<1>6. ToSet(b) \cap ToSet(d) = {}
  BY <1>2, <1>4
<1>7. /\ b \o d \in Seq(S) /\ IsInjective(b \o d)
      /\ ToSet(b \o d) = ToSet(b) \cup ToSet(d)
  BY <1>2, <1>4, <1>6, JoinInjective
<1>8. QED
  BY <1>1, <1>2, <1>4, <1>5, <1>7

-----------------------------------------------------------------------------
(* The strip of tabs.                                                      *)

(* getAllOpenTabs lists what is open, each tab once.                       *)
LEMMA StripFacts ==
  ASSUME NEW st, wellFormed(st)
  PROVE  /\ allTabs(st) \in Seq(Tabs) /\ IsInjective(allTabs(st))
         /\ ToSet(allTabs(st))
              = {"aiAgent"} \cup ToSet(st.ssh) \cup ToSet(st.db) \cup st.tools
<1> DEFINE a == <<"aiAgent">>  b == a \o st.ssh  c == b \o st.db
           d == c \o toolTab(st, "devtools")  e == d \o toolTab(st, "api")
           f == e \o toolTab(st, "wiki")
<1>1. \A t \in Tabs : <<t>> \in Seq(Tabs) /\ IsInjective(<<t>>) /\ ToSet(<<t>>) = {t}
  BY DEF IsInjective, ToSet
<1>2. <<>> \in Seq(Tabs) /\ IsInjective(<<>>) /\ ToSet(<<>>) = {}
  BY DEF IsInjective, ToSet
<1>3. /\ a \in Seq(Tabs) /\ IsInjective(a) /\ ToSet(a) = {"aiAgent"}
  BY <1>1 DEF Tabs
<1>4. /\ st.ssh \in Seq(SshIds) /\ IsInjective(st.ssh)
      /\ st.db \in Seq(DbIds) /\ IsInjective(st.db) /\ st.tools \subseteq Tools
  BY DEF wellFormed
<1>5. /\ st.ssh \in Seq(Tabs) /\ ToSet(st.ssh) \subseteq SshIds
      /\ st.db \in Seq(Tabs) /\ ToSet(st.db) \subseteq DbIds
  <2>1. SshIds \subseteq Tabs /\ DbIds \subseteq Tabs
    BY DEF Tabs, Conns
  <2>2. st.ssh \in Seq(Tabs) /\ st.db \in Seq(Tabs)
    BY <1>4, <2>1
  <2>3. ToSet(st.ssh) \subseteq SshIds /\ ToSet(st.db) \subseteq DbIds
    BY <1>4 DEF ToSet
  <2>4. QED
    BY <2>2, <2>3
<1>6. ASSUME NEW t \in {"devtools", "api", "wiki"}
      PROVE  /\ toolTab(st, t) \in Seq(Tabs) /\ IsInjective(toolTab(st, t))
             /\ ToSet(toolTab(st, t)) = {t} \cap st.tools
  <2>1. CASE t \in st.tools
    <3>1. t \in Tabs /\ toolTab(st, t) = <<t>>
      BY <1>4, <2>1 DEF toolTab, Tabs
    <3>2. QED
      BY <1>1, <2>1, <3>1
  <2>2. CASE t \notin st.tools
    <3>1. toolTab(st, t) = <<>>
      BY <2>2 DEF toolTab
    <3>2. QED
      BY <1>2, <2>2, <3>1
  <2>3. QED
    BY <2>1, <2>2
<1>7. /\ SshIds \cap DbIds = {} /\ SshIds \cap Tools = {} /\ DbIds \cap Tools = {}
      /\ "aiAgent" \notin SshIds /\ "aiAgent" \notin DbIds /\ "aiAgent" \notin Tools
      /\ st.tools \subseteq {"devtools", "api", "wiki"}
      /\ st.tools \cap ToSet(st.ssh) = {} /\ st.tools \cap ToSet(st.db) = {}
  BY <1>4, <1>5, IdsAssumption DEF Conns
<1>8. allTabs(st) = f
  BY DEF allTabs
<1> HIDE DEF a
<1>9. b \in Seq(Tabs) /\ IsInjective(b) /\ ToSet(b) = {"aiAgent"} \cup ToSet(st.ssh)
  <2>1. ToSet(a) \cap ToSet(st.ssh) = {}
    BY <1>3, <1>5, <1>7
  <2>2. QED
    BY <1>3, <1>4, <1>5, <2>1, JoinInjective
<1> HIDE DEF b
<1>10. /\ c \in Seq(Tabs) /\ IsInjective(c)
       /\ ToSet(c) = {"aiAgent"} \cup ToSet(st.ssh) \cup ToSet(st.db)
  <2>1. ToSet(b) \cap ToSet(st.db) = {}
    BY <1>9, <1>5, <1>7
  <2>2. /\ c \in Seq(Tabs) /\ IsInjective(c) /\ ToSet(c) = ToSet(b) \cup ToSet(st.db)
    BY <1>9, <1>4, <1>5, <2>1, JoinInjective
  <2>3. QED
    BY <1>9, <2>2
<1> HIDE DEF c
<1>11. /\ d \in Seq(Tabs) /\ IsInjective(d)
       /\ ToSet(d) = ToSet(c) \cup ({"devtools"} \cap st.tools)
  <2>1. ToSet(c) \cap ToSet(toolTab(st, "devtools")) = {}
    BY <1>10, <1>6, <1>7
  <2>2. /\ d \in Seq(Tabs) /\ IsInjective(d)
        /\ ToSet(d) = ToSet(c) \cup ToSet(toolTab(st, "devtools"))
    BY <1>10, <1>6, <2>1, JoinInjective
  <2>3. QED
    BY <1>6, <2>2
<1> HIDE DEF d
<1>12. /\ e \in Seq(Tabs) /\ IsInjective(e)
       /\ ToSet(e) = ToSet(d) \cup ({"api"} \cap st.tools)
  <2>1. ToSet(d) \cap ToSet(toolTab(st, "api")) = {}
    BY <1>10, <1>11, <1>6, <1>7
  <2>2. /\ e \in Seq(Tabs) /\ IsInjective(e)
        /\ ToSet(e) = ToSet(d) \cup ToSet(toolTab(st, "api"))
    BY <1>11, <1>6, <2>1, JoinInjective
  <2>3. QED
    BY <1>6, <2>2
<1> HIDE DEF e
<1>13. /\ f \in Seq(Tabs) /\ IsInjective(f)
       /\ ToSet(f) = ToSet(e) \cup ({"wiki"} \cap st.tools)
  <2>1. ToSet(e) \cap ToSet(toolTab(st, "wiki")) = {}
    BY <1>10, <1>11, <1>12, <1>6, <1>7
  <2>2. /\ f \in Seq(Tabs) /\ IsInjective(f)
        /\ ToSet(f) = ToSet(e) \cup ToSet(toolTab(st, "wiki"))
    BY <1>12, <1>6, <2>1, JoinInjective
  <2>3. QED
    BY <1>6, <2>2
<1> HIDE DEF f
<1>14. QED
  BY <1>7, <1>8, <1>10, <1>11, <1>12, <1>13

(* pickAdjacentFallback finds another tab of the strip.                    *)
LEMMA Neighbour ==
  ASSUME NEW st, wellFormed(st), NEW closed, closed # "aiAgent"
  PROVE  fallback(closed, st) \in ToSet(allTabs(st)) \ {closed}
<1> DEFINE tabs == allTabs(st)
           at == {i \in DOMAIN tabs : tabs[i] = closed}
           i == CHOOSE i \in at : TRUE
<1>1. tabs \in Seq(Tabs) /\ IsInjective(tabs) /\ "aiAgent" \in ToSet(tabs)
  BY StripFacts
<1>2. fallback(closed, st) = IF at = {} THEN "aiAgent"
                             ELSE IF i < Len(tabs) THEN tabs[i + 1] ELSE tabs[i - 1]
  BY DEF fallback
<1>3. CASE at = {}
  BY <1>1, <1>2, <1>3
<1>4. CASE at # {}
  <2>1. i \in DOMAIN tabs /\ tabs[i] = closed
    BY <1>4
  <2> HIDE DEF tabs, at, i
  <2>2. Len(tabs) \in Nat /\ DOMAIN tabs = 1 .. Len(tabs)
    BY <1>1
  <2>3. PICK j \in DOMAIN tabs : tabs[j] = "aiAgent"
    BY <1>1 DEF ToSet
  <2>4. j # i
    BY <2>1, <2>3
  <2>5. PICK k \in DOMAIN tabs : k # i /\ fallback(closed, st) = tabs[k]
    <3>1. CASE i < Len(tabs)
      <4>1. i + 1 \in DOMAIN tabs /\ i + 1 # i
        BY <2>1, <2>2, <3>1
      <4>2. QED
        BY <1>2, <1>4, <3>1, <4>1
    <3>2. CASE ~(i < Len(tabs))
      <4>1. i - 1 \in DOMAIN tabs /\ i - 1 # i
        BY <2>1, <2>2, <2>3, <2>4, <3>2
      <4>2. QED
        BY <1>2, <1>4, <3>2, <4>1
    <3>3. QED
      BY <3>1, <3>2
  <2>6. tabs[k] # closed
    BY <1>1, <2>1, <2>5 DEF IsInjective
  <2>7. tabs[k] \in ToSet(tabs)
    BY <2>5 DEF ToSet
  <2>8. QED
    BY <2>5, <2>6, <2>7 DEF tabs
<1>5. QED
  BY <1>3, <1>4

-----------------------------------------------------------------------------
(* The types.                                                              *)

(* What the tabs show has its type, in terms of the variables.             *)
LEMMA ShownType ==
  ASSUME TypeOK
  PROVE  /\ ssh \in Seq(SshIds) /\ IsInjective(ssh)
         /\ db \in Seq(DbIds) /\ IsInjective(db)
         /\ tools \subseteq Tools /\ active \in Tabs
         /\ wellFormed(now) /\ wellFormed(ref)
         /\ ToSet(ssh) \subseteq SshIds /\ ToSet(db) \subseteq DbIds
<1>1. /\ ssh \in Seq(SshIds) /\ IsInjective(ssh)
      /\ db \in Seq(DbIds) /\ IsInjective(db)
      /\ tools \subseteq Tools /\ active \in Tabs
  BY DEF TypeOK, wellFormed, now
<1>2. ToSet(ssh) \subseteq SshIds /\ ToSet(db) \subseteq DbIds
  BY <1>1 DEF ToSet
<1>3. QED
  BY <1>1, <1>2 DEF TypeOK

(* The neighbour of a tab is a tab.                                        *)
LEMMA NeighbourType ==
  ASSUME NEW st, wellFormed(st), NEW closed, closed # "aiAgent"
  PROVE  fallback(closed, st) \in Tabs
<1>1. fallback(closed, st) \in ToSet(allTabs(st)) /\ allTabs(st) \in Seq(Tabs)
  BY Neighbour, StripFacts
<1>2. QED
  BY <1>1 DEF ToSet

(* Every step leaves well-formed tabs and refs.                            *)
LEMMA ShownStep ==
  ASSUME TypeOK, [Next]_vars
  PROVE  wellFormed(now)' /\ wellFormed(ref)'
<1> USE ShownType
<1>1. CASE Commit
  BY <1>1 DEF Commit, shown, wellFormed, now
<1>2. ASSUME NEW t \in Tabs, activateTab(t) PROVE wellFormed(now)' /\ wellFormed(ref)'
  BY <1>2 DEF activateTab, effect, wellFormed, now
<1>3. ASSUME NEW t \in Tools, closeTool(t) PROVE wellFormed(now)' /\ wellFormed(ref)'
  <2>1. t # "aiAgent"
    BY IdsAssumption
  <2>2. fallback(t, ref) \in Tabs
    BY <2>1, NeighbourType
  <2>3. QED
    BY <1>3, <2>2 DEF closeTool, effect, wellFormed, now
<1>4. ASSUME NEW c \in Conns, addSession(c) PROVE wellFormed(now)' /\ wellFormed(ref)'
  <2>1. ssh' \in Seq(SshIds) /\ IsInjective(ssh)'
    <3>1. CASE c \in SshIds
      BY <1>4, <3>1, AddedList DEF addSession
    <3>2. CASE c \notin SshIds
      BY <1>4, <3>2 DEF addSession
    <3>3. QED
      BY <3>1, <3>2
  <2>2. db' \in Seq(DbIds) /\ IsInjective(db)'
    <3>1. CASE c \in DbIds
      BY <1>4, <3>1, AddedList DEF addSession
    <3>2. CASE c \notin DbIds
      BY <1>4, <3>2 DEF addSession
    <3>3. QED
      BY <3>1, <3>2
  <2>3. active' \in Tabs /\ tools' = tools /\ ref' = ref
    BY <1>4 DEF addSession, effect, Tabs
  <2>4. QED
    BY <2>1, <2>2, <2>3 DEF wellFormed, now
<1>5. ASSUME NEW c \in Conns, CloseReturn(c) PROVE wellFormed(now)' /\ wellFormed(ref)'
  <2>1. ssh' \in Seq(SshIds) /\ IsInjective(ssh)' /\ db' \in Seq(DbIds) /\ IsInjective(db)'
    BY <1>5, RemovedList DEF CloseReturn
  <2>2. c # "aiAgent"
    BY IdsAssumption
  <2>3. fallback(c, ref) \in Tabs
    BY <2>2, NeighbourType
  <2>4. active' \in Tabs /\ tools' = tools /\ ref' = ref
    BY <1>5, <2>3 DEF CloseReturn, effect
  <2>5. QED
    BY <2>1, <2>4 DEF wellFormed, now
<1>6. ASSUME UNCHANGED <<shown, effect>> PROVE wellFormed(now)' /\ wellFormed(ref)'
  BY <1>6 DEF shown, effect, wellFormed, now
<1>7. ASSUME NEW c \in Conns,
             \/ handleConnect(c) \/ BackendUp(c) \/ closeSession(c) \/ BackendDown(c)
             \/ Drop(c) \/ ClosedEvent(c)
      PROVE  UNCHANGED <<shown, effect>>
  BY <1>7 DEF handleConnect, BackendUp, closeSession, BackendDown, Drop, ClosedEvent
<1>8. CASE UNCHANGED vars
  BY <1>6, <1>8 DEF vars
<1>9. QED
  BY <1>1, <1>2, <1>3, <1>4, <1>5, <1>6, <1>7, <1>8 DEF Next

(* The calls under way and what the backend has.                           *)
NetType ==
  /\ DOMAIN connecting \subseteq Conns /\ DOMAIN closing \subseteq Conns
  /\ \A c \in DOMAIN connecting : connecting[c] \in {"call", "up"}
  /\ \A c \in DOMAIN closing : closing[c] \in {"call", "down"}
  /\ backend \subseteq Conns /\ events \subseteq SshIds

(* The history.                                                            *)
GhostType ==
  ghost \in [used : SUBSET Conns, odd : SUBSET Conns, cut : SUBSET DbIds, stale : BOOLEAN]

(* A call that begins, or goes on: its entry, and the others as they were. *)
Enters(g, f, c, phase) ==
  /\ DOMAIN g = DOMAIN f \cup {c} /\ g[c] = phase
  /\ \A d \in DOMAIN f : d # c => g[d] = f[d]

(* A call that has returned: the others as they were.                      *)
Leaves(g, f, c) ==
  DOMAIN g = DOMAIN f \ {c} /\ \A d \in DOMAIN g : g[d] = f[d]

(* with enters a call, and no other.                                       *)
LEMMA WithEnters ==
  ASSUME NEW f, NEW g, NEW c, NEW phase, g = with(f, c, phase)
  PROVE  Enters(g, f, c, phase)
BY DEF with, Enters

(* without takes the call out, and no other.                               *)
LEMMA WithoutLeaves ==
  ASSUME NEW f, NEW g, NEW c, g = without(f, c)
  PROVE  Leaves(g, f, c)
BY DEF without, Leaves

(* What a step of a connection does to the calls.                          *)
LEMMA CallSteps ==
  ASSUME NEW c \in Conns
  PROVE  /\ handleConnect(c) => Enters(connecting', connecting, c, "call")
         /\ BackendUp(c) =>
              \/ Enters(connecting', connecting, c, "up") /\ backend' = backend \cup {c}
              \/ Leaves(connecting', connecting, c) /\ backend' = backend /\ ghost' = ghost
              \/ /\ Leaves(connecting', connecting, c) /\ backend' = backend \ {c}
                 /\ c \in DbIds /\ ghost' = [ghost EXCEPT !.cut = @ \cup {c}]
         /\ addSession(c) => Leaves(connecting', connecting, c)
         /\ closeSession(c) => Enters(closing', closing, c, "call")
         /\ BackendDown(c) => Enters(closing', closing, c, "down")
         /\ CloseReturn(c) => Leaves(closing', closing, c)
         /\ ClosedEvent(c) => IF mayClose(c) THEN Enters(closing', closing, c, "call")
                              ELSE closing' = closing
<1>1. handleConnect(c) => Enters(connecting', connecting, c, "call")
  BY WithEnters DEF handleConnect
<1>2. BackendUp(c) =>
        \/ Enters(connecting', connecting, c, "up") /\ backend' = backend \cup {c}
        \/ Leaves(connecting', connecting, c) /\ backend' = backend /\ ghost' = ghost
        \/ /\ Leaves(connecting', connecting, c) /\ backend' = backend \ {c}
           /\ c \in DbIds /\ ghost' = [ghost EXCEPT !.cut = @ \cup {c}]
  BY WithEnters, WithoutLeaves DEF BackendUp
<1>3. addSession(c) => Leaves(connecting', connecting, c)
  BY WithoutLeaves DEF addSession
<1>4. closeSession(c) => Enters(closing', closing, c, "call")
  BY WithEnters DEF closeSession
<1>5. BackendDown(c) => Enters(closing', closing, c, "down")
  BY WithEnters DEF BackendDown
<1>6. CloseReturn(c) => Leaves(closing', closing, c)
  BY WithoutLeaves DEF CloseReturn
<1>7. ClosedEvent(c) => IF mayClose(c) THEN Enters(closing', closing, c, "call")
                        ELSE closing' = closing
  BY WithEnters DEF ClosedEvent
<1>8. QED
  BY <1>1, <1>2, <1>3, <1>4, <1>5, <1>6, <1>7

(* Every step leaves well-formed calls.                                    *)
LEMMA NetStep ==
  ASSUME NetType, [Next]_vars
  PROVE  NetType'
<1>1. ASSUME NEW c \in Conns, handleConnect(c) PROVE NetType'
  <2>1. Enters(connecting', connecting, c, "call")
    BY <1>1, CallSteps
  <2>2. UNCHANGED <<closing, backend, events>>
    BY <1>1 DEF handleConnect
  <2>3. QED
    BY <2>1, <2>2 DEF NetType, Enters, Leaves
<1>2. ASSUME NEW c \in Conns, BackendUp(c) PROVE NetType'
  <2>1. \/ Enters(connecting', connecting, c, "up") /\ backend' = backend \cup {c}
        \/ Leaves(connecting', connecting, c) /\ backend' \subseteq backend
    BY <1>2, CallSteps
  <2>2. UNCHANGED <<closing, events>>
    BY <1>2 DEF BackendUp
  <2>3. QED
    BY <2>1, <2>2 DEF NetType, Enters, Leaves
<1>3. ASSUME NEW c \in Conns, addSession(c) PROVE NetType'
  <2>1. Leaves(connecting', connecting, c)
    BY <1>3, CallSteps
  <2>2. UNCHANGED <<closing, backend, events>>
    BY <1>3 DEF addSession
  <2>3. QED
    BY <2>1, <2>2 DEF NetType, Enters, Leaves
<1>4. ASSUME NEW c \in Conns, closeSession(c) PROVE NetType'
  <2>1. Enters(closing', closing, c, "call")
    BY <1>4, CallSteps
  <2>2. UNCHANGED <<connecting, backend, events>>
    BY <1>4 DEF closeSession
  <2>3. QED
    BY <2>1, <2>2 DEF NetType, Enters, Leaves
<1>5. ASSUME NEW c \in Conns, BackendDown(c) PROVE NetType'
  <2>1. Enters(closing', closing, c, "down")
    BY <1>5, CallSteps
  <2>2. /\ connecting' = connecting /\ backend' \subseteq backend
        /\ events' \subseteq events \cup SshIds
    BY <1>5 DEF BackendDown
  <2>3. QED
    BY <2>1, <2>2 DEF NetType, Enters, Leaves
<1>6. ASSUME NEW c \in Conns, CloseReturn(c) PROVE NetType'
  <2>1. Leaves(closing', closing, c)
    BY <1>6, CallSteps
  <2>2. UNCHANGED <<connecting, backend, events>>
    BY <1>6 DEF CloseReturn
  <2>3. QED
    BY <2>1, <2>2 DEF NetType, Enters, Leaves
<1>7. ASSUME NEW c \in Conns, Drop(c) PROVE NetType'
  BY <1>7 DEF Drop, NetType
<1>8. ASSUME NEW c \in Conns, ClosedEvent(c) PROVE NetType'
  <2>1. Enters(closing', closing, c, "call") \/ closing' = closing
    BY <1>8, CallSteps
  <2>2. UNCHANGED <<connecting, backend>> /\ events' \subseteq events
    BY <1>8 DEF ClosedEvent
  <2>3. QED
    BY <2>1, <2>2 DEF NetType, Enters, Leaves
<1>9. ASSUME UNCHANGED net PROVE NetType'
  BY <1>9 DEF net, NetType
<1>10. ASSUME Commit \/ (\E t \in Tabs : activateTab(t)) \/ (\E t \in Tools : closeTool(t))
              \/ UNCHANGED vars
       PROVE  UNCHANGED net
  BY <1>10 DEF Commit, activateTab, closeTool, vars
<1>11. QED
  BY <1>1, <1>2, <1>3, <1>4, <1>5, <1>6, <1>7, <1>8, <1>9, <1>10 DEF Next

(* Every step leaves a well-formed history.                                *)
LEMMA GhostStep ==
  ASSUME GhostType, [Next]_vars
  PROVE  GhostType'
<1>1. /\ ghost.odd \in SUBSET Conns /\ ghost.used \in SUBSET Conns
      /\ ghost.cut \in SUBSET DbIds /\ ghost.stale \in BOOLEAN
  BY DEF GhostType
<1>2. ASSUME NEW odd \in SUBSET Conns, ghost' = [ghost EXCEPT !.odd = odd] PROVE GhostType'
  BY <1>2 DEF GhostType
<1>3. ASSUME NEW c \in Conns, handleConnect(c) PROVE GhostType'
  <2>1. ghost' = [ghost EXCEPT !.used = @ \cup {c},
                               !.odd = IF c \in DOMAIN closing THEN @ \cup {c} ELSE @]
    BY <1>3 DEF handleConnect
  <2>2. QED
    BY <1>1, <2>1 DEF GhostType
<1>4. ASSUME NEW c \in Conns, noteClose(c) PROVE GhostType'
  BY <1>1, <1>2, <1>4 DEF noteClose
<1>5. ASSUME NEW c \in Conns, BackendDown(c) PROVE GhostType'
  BY <1>1, <1>2, <1>5 DEF BackendDown, GhostType
<1>6. ASSUME NEW c \in Conns, ClosedEvent(c) PROVE GhostType'
  <2>1. CASE mayClose(c)
    BY <1>4, <1>6, <2>1 DEF ClosedEvent
  <2>2. CASE ~mayClose(c)
    BY <1>1, <1>2, <1>6, <2>2 DEF ClosedEvent
  <2>3. QED
    BY <2>1, <2>2
<1>7. ASSUME NEW b \in BOOLEAN, ghost' = [ghost EXCEPT !.stale = b] PROVE GhostType'
  BY <1>7 DEF GhostType
<1>c. ASSUME NEW c \in Conns, CloseReturn(c) PROVE GhostType'
  <2>1. ghost' = [ghost EXCEPT !.stale = IF active = c THEN outdated ELSE ghost.stale]
    BY <1>c DEF CloseReturn
  <2>2. (IF active = c THEN outdated ELSE ghost.stale) \in BOOLEAN
    BY <1>1 DEF outdated
  <2>3. QED
    BY <1>7, <2>1, <2>2
<1>p. picked => GhostType'
  BY <1>7 DEF picked
<1>8. ASSUME NEW c \in Conns, closeSession(c) PROVE GhostType'
  BY <1>4, <1>8 DEF closeSession
<1>9. ASSUME UNCHANGED ghost PROVE GhostType'
  BY <1>9 DEF GhostType
<1>10. ASSUME NEW c \in Conns, BackendUp(c) PROVE GhostType'
  <2>1. \/ ghost' = ghost \/ ghost' = [ghost EXCEPT !.cut = @ \ {c}]
        \/ c \in DbIds /\ ghost' = [ghost EXCEPT !.cut = @ \cup {c}]
    BY <1>10 DEF BackendUp
  <2>2. ASSUME NEW cut \in SUBSET DbIds, ghost' = [ghost EXCEPT !.cut = cut] PROVE GhostType'
    BY <2>2 DEF GhostType
  <2>3. QED
    BY <1>1, <1>9, <2>1, <2>2
<1>11. ASSUME NEW c \in Conns, addSession(c) \/ Drop(c) PROVE picked \/ UNCHANGED ghost
  BY <1>11 DEF addSession, Drop
<1>12. ASSUME Commit \/ (\E t \in Tabs : activateTab(t)) \/ (\E t \in Tools : closeTool(t))
              \/ UNCHANGED vars
       PROVE  picked \/ UNCHANGED ghost
  BY <1>12 DEF Commit, activateTab, closeTool, vars
<1>13. QED
  BY <1>3, <1>5, <1>6, <1>c, <1>p, <1>8, <1>9, <1>10, <1>11, <1>12 DEF Next

(* Every step keeps the types.                                             *)
LEMMA TabsTypeStep ==
  ASSUME TypeOK, [Next]_vars
  PROVE  TypeOK'
<1>1. wellFormed(now)' /\ wellFormed(ref)'
  BY ShownStep
<1>2. NetType'
  <2>1. NetType
    BY DEF TypeOK, NetType
  <2>2. QED
    BY <2>1, NetStep
<1>3. GhostType'
  <2>1. GhostType
    BY DEF TypeOK, GhostType
  <2>2. QED
    BY <2>1, GhostStep
<1>4. last' \in Conns \cup {None} /\ sent' \in Conns \cup {None}
  <2>1. CASE Commit
    <3>1. open \subseteq Conns
      BY ShownType DEF open, Conns
    <3>2. last' \in Conns \cup {None}
      BY <2>1, <3>1 DEF Commit
    <3>3. sent' = last'
      BY <2>1 DEF Commit
    <3>4. QED
      BY <3>2, <3>3
  <2>2. ASSUME ~Commit PROVE UNCHANGED <<last, sent>>
    BY <2>2 DEF Next, vars, effect, activateTab, closeTool, handleConnect, BackendUp,
                addSession, closeSession, BackendDown, CloseReturn, Drop, ClosedEvent
  <2>3. QED
    BY <2>1, <2>2 DEF TypeOK
<1>5. QED
  BY <1>1, <1>2, <1>3, <1>4 DEF TypeOK, NetType, GhostType

-----------------------------------------------------------------------------
(* The active tab.                                                         *)

(* The strip as a set.                                                     *)
stripSet == {"aiAgent"} \cup ToSet(ssh) \cup ToSet(db) \cup tools

(* The active tab is on the strip, unless it was picked in outdated refs.  *)
LEMMA ActiveIsOpenMeans ==
  ASSUME TypeOK
  PROVE  ActiveIsOpen <=> (~ghost.stale => active \in stripSet)
<1>1. ToSet(allTabs(now)) = stripSet
  <2>1. /\ wellFormed(now) /\ now.ssh = ssh /\ now.db = db /\ now.tools = tools
    BY ShownType DEF now
  <2>2. QED
    BY <2>1, StripFacts DEF stripSet
<1>2. QED
  BY <1>1 DEF ActiveIsOpen

(* Closing a tab activates one that stays, unless the refs are outdated:   *)
(* they may lack tabs that are new.                                        *)
LEMMA FreshNeighbour ==
  ASSUME TypeOK, ~outdated, NEW t, t # "aiAgent"
  PROVE  fallback(t, ref) \in stripSet \ {t}
<1>1. wellFormed(now) /\ now.ssh = ssh /\ now.db = db /\ now.tools = tools
  BY ShownType DEF now
<1>2. ToSet(allTabs(now)) = stripSet
  BY <1>1, StripFacts DEF stripSet
<1>3. ToSet(allTabs(ref)) \subseteq stripSet
  BY <1>2 DEF outdated
<1>4. fallback(t, ref) \in ToSet(allTabs(ref)) \ {t}
  BY ShownType, Neighbour
<1>5. QED
  BY <1>3, <1>4

(* Every step keeps the active tab on the strip.                           *)
LEMMA ActiveStep ==
  ASSUME TypeOK, TypeOK', ActiveIsOpen, [Next]_vars
  PROVE  (~ghost.stale => active \in stripSet)'
<1> DEFINE Goal == (~ghost.stale => active \in stripSet)'
<1>1. ~ghost.stale => active \in stripSet
  BY ActiveIsOpenMeans
<1>2. ASSUME NEW t \in Tabs, activateTab(t) PROVE Goal
  <2>1. t \in stripSet \cup Tools
    <3>1. ToSet(allTabs(now)) = stripSet
      <4>1. wellFormed(now) /\ now.ssh = ssh /\ now.db = db /\ now.tools = tools
        BY ShownType DEF now
      <4>2. QED
        BY <4>1, StripFacts DEF stripSet
    <3>2. QED
      BY <1>2, <3>1 DEF activateTab
  <2>2. QED
    BY <1>2, <2>1 DEF activateTab, stripSet
<1>3. ASSUME NEW t \in Tools, closeTool(t) PROVE Goal
  <2>1. /\ t # "aiAgent" /\ t \notin ToSet(ssh) /\ t \notin ToSet(db)
    BY ShownType, IdsAssumption DEF Conns
  <2>2. stripSet' = stripSet \ {t}
    BY <1>3, <2>1 DEF closeTool, stripSet
  <2>3. fallback(t, ref) \in stripSet \ {t}
    BY <1>3, <2>1, FreshNeighbour DEF closeTool, settled, outdated
  <2>4. IF active = t THEN active' = fallback(t, ref) ELSE active' = active /\ ghost' = ghost
    BY <1>3 DEF closeTool
  <2>5. QED
    BY <1>1, <2>2, <2>3, <2>4
<1>4. ASSUME NEW c \in Conns, addSession(c) PROVE Goal
  <2>1. active' = c
    BY <1>4 DEF addSession
  <2>2. CASE c \in SshIds
    <3>1. ssh' = Append(removed(ssh, c), c)
      BY <1>4, <2>2 DEF addSession
    <3>2. c \in ToSet(Append(removed(ssh, c), c))
      BY <2>2, ShownType, AddedList
    <3>3. QED
      BY <2>1, <3>1, <3>2 DEF stripSet
  <2>3. CASE c \in DbIds
    <3>1. db' = Append(removed(db, c), c)
      BY <1>4, <2>3 DEF addSession
    <3>2. c \in ToSet(Append(removed(db, c), c))
      BY <2>3, ShownType, AddedList
    <3>3. QED
      BY <2>1, <3>1, <3>2 DEF stripSet
  <2>4. QED
    BY <2>2, <2>3 DEF Conns
<1>5. ASSUME NEW c \in Conns, CloseReturn(c) PROVE Goal
  <2>1. c # "aiAgent" /\ c \notin tools
    BY ShownType, IdsAssumption
  <2>2. stripSet' = stripSet \ {c}
    <3>1. ToSet(removed(ssh, c)) = ToSet(ssh) \ {c} /\ ToSet(removed(db, c)) = ToSet(db) \ {c}
      BY ShownType, RemovedList
    <3>2. ssh' = removed(ssh, c) /\ db' = removed(db, c) /\ tools' = tools
      BY <1>5 DEF CloseReturn
    <3>3. QED
      BY <2>1, <3>1, <3>2 DEF stripSet
  <2>3. ~ghost'.stale => IF active = c THEN ~outdated ELSE ~ghost.stale
    <3>1. ghost' = [ghost EXCEPT !.stale = IF active = c THEN outdated ELSE @] /\ GhostType
      BY <1>5 DEF CloseReturn, TypeOK, GhostType
    <3>2. ghost'.stale = IF active = c THEN outdated ELSE ghost.stale
      BY <3>1 DEF GhostType
    <3>3. QED
      BY <3>2
  <2>4. ~outdated => fallback(c, ref) \in stripSet \ {c}
    BY <2>1, FreshNeighbour
  <2>5. active' = IF active = c THEN fallback(c, ref) ELSE active
    BY <1>5 DEF CloseReturn
  <2>6. QED
    BY <1>1, <2>2, <2>3, <2>4, <2>5
<1>6. ASSUME UNCHANGED shown, ghost'.stale = ghost.stale PROVE Goal
  BY <1>1, <1>6 DEF shown, stripSet
<1>7. ASSUME NEW c \in Conns,
             \/ handleConnect(c) \/ BackendUp(c) \/ closeSession(c) \/ BackendDown(c)
             \/ Drop(c) \/ ClosedEvent(c)
      PROVE  Goal
  <2>1. UNCHANGED shown
    BY <1>7 DEF handleConnect, BackendUp, closeSession, BackendDown, Drop, ClosedEvent
  <2>2. GhostType
    BY DEF TypeOK, GhostType
  <2>3. ghost'.stale = ghost.stale
    BY <1>7, <2>2 DEF handleConnect, BackendUp, closeSession, BackendDown, Drop, ClosedEvent,
                      noteClose, GhostType
  <2>4. QED
    BY <1>6, <2>1, <2>3
<1>8. CASE Commit
  BY <1>6, <1>8 DEF Commit
<1>9. CASE UNCHANGED vars
  BY <1>6, <1>9 DEF vars
<1>10. QED
  BY <1>2, <1>3, <1>4, <1>5, <1>7, <1>8, <1>9 DEF Next

-----------------------------------------------------------------------------
(* The agent.                                                              *)

(* Every step leaves what the agent was told in line with the refs.        *)
LEMMA FollowStep ==
  ASSUME TypeOK, FollowInv, [Next]_vars
  PROVE  FollowInv'
<1>1. CASE Commit
  <2>1. /\ ref' = now /\ sent' = last'
        /\ last' = IF target \in open THEN target ELSE None
    BY <1>1 DEF Commit
  <2>2. ref'.active = active /\ ref'.ssh = ssh /\ ref'.db = db
    BY <2>1 DEF now
  <2>3. active \in open => target = active
    BY ShownType DEF open, target, Conns
  <2>4. QED
    BY <2>1, <2>2, <2>3 DEF FollowInv, open
<1>2. ASSUME ~Commit PROVE UNCHANGED <<ref, sent>>
  BY <1>2 DEF Next, vars, effect, activateTab, closeTool, handleConnect, BackendUp,
              addSession, closeSession, BackendDown, CloseReturn, Drop, ClosedEvent
<1>3. QED
  BY <1>1, <1>2 DEF FollowInv

-----------------------------------------------------------------------------
(* The backend.                                                            *)

(* A step leaves all that LinkInv says of the connection alone.            *)
untouched(d) ==
  /\ d \in DOMAIN connecting' <=> d \in DOMAIN connecting
  /\ d \in DOMAIN connecting => connecting'[d] = connecting[d]
  /\ d \in DOMAIN closing' <=> d \in DOMAIN closing
  /\ d \in DOMAIN closing => closing'[d] = closing[d]
  /\ d \in backend' <=> d \in backend
  /\ d \in events' <=> d \in events
  /\ d \in open' <=> d \in open
  /\ d \in ghost'.cut <=> d \in ghost.cut

(* A step of one connection keeps LinkInv if it keeps its own part and     *)
(* leaves the others alone; the odd ones stay odd.                         *)
LEMMA OneLink ==
  ASSUME NEW c, LinkInv, ghost.odd \subseteq ghost'.odd,
         \A d \in Conns \ {c} : untouched(d),
         c \in Conns \ ghost'.odd => linked(c)'
  PROVE  LinkInv'
<1>1. ASSUME NEW d \in Conns, linked(d), untouched(d) PROVE linked(d)'
  BY <1>1 DEF linked, untouched
<1>2. QED
  BY <1>1 DEF LinkInv

(* What the steps do to the open tabs.                                     *)
LEMMA OpenSteps ==
  ASSUME TypeOK, NEW c \in Conns
  PROVE  /\ addSession(c) => open' = open \cup {c}
         /\ CloseReturn(c) => open' = open \ {c}
<1>1. ASSUME addSession(c) PROVE open' = open \cup {c}
  <2>1. CASE c \in SshIds
    <3>1. ToSet(Append(removed(ssh, c), c)) = ToSet(ssh) \cup {c}
      BY <2>1, ShownType, AddedList
    <3>2. ssh' = Append(removed(ssh, c), c) /\ db' = db
      BY <1>1, <2>1, IdsAssumption DEF addSession
    <3>3. QED
      BY <3>1, <3>2 DEF open
  <2>2. CASE c \in DbIds
    <3>1. ToSet(Append(removed(db, c), c)) = ToSet(db) \cup {c}
      BY <2>2, ShownType, AddedList
    <3>2. db' = Append(removed(db, c), c) /\ ssh' = ssh
      BY <1>1, <2>2, IdsAssumption DEF addSession
    <3>3. QED
      BY <3>1, <3>2 DEF open
  <2>3. QED
    BY <2>1, <2>2 DEF Conns
<1>2. ASSUME CloseReturn(c) PROVE open' = open \ {c}
  <2>1. ToSet(removed(ssh, c)) = ToSet(ssh) \ {c} /\ ToSet(removed(db, c)) = ToSet(db) \ {c}
    BY ShownType, RemovedList
  <2>2. ssh' = removed(ssh, c) /\ db' = removed(db, c)
    BY <1>2 DEF CloseReturn
  <2>3. QED
    BY <2>1, <2>2 DEF open
<1>3. QED
  BY <1>1, <1>2

(* Every step keeps the tabs in line with the backend.                     *)
LEMMA LinkStep ==
  ASSUME TypeOK, LinkInv, [Next]_vars
  PROVE  LinkInv'
<1>a. GhostType
  BY DEF TypeOK, GhostType
<1>b. \A c \in Conns \ ghost.odd : linked(c)
  BY DEF LinkInv
<1>1. ASSUME NEW c \in Conns, handleConnect(c) PROVE LinkInv'
  <2>1. Enters(connecting', connecting, c, "call")
    BY <1>1, CallSteps
  <2>2. UNCHANGED <<closing, backend, events, open>>
    BY <1>1 DEF handleConnect, shown, open
  <2>3. /\ ghost'.odd = IF c \in DOMAIN closing THEN ghost.odd \cup {c} ELSE ghost.odd
        /\ ghost'.cut = ghost.cut
    BY <1>1, <1>a DEF handleConnect, noteClose, GhostType
  <2>4. \A d \in Conns \ {c} : untouched(d)
    BY <2>1, <2>2, <2>3 DEF untouched, Enters, Leaves
  <2>5. ASSUME c \notin ghost'.odd PROVE linked(c)'
    <3>1. linked(c) /\ c \notin ghost.odd
      BY <1>b, <2>3, <2>5
    <3>2. QED
      BY <1>1, <2>1, <2>2, <2>3, <2>5, <3>1 DEF linked, Enters, Leaves, handleConnect
  <2>6. QED
    BY <2>3, <2>4, <2>5, OneLink
<1>2. ASSUME NEW c \in Conns, BackendUp(c) PROVE LinkInv'
  <2>1. \/ Enters(connecting', connecting, c, "up") /\ backend' = backend \cup {c}
        \/ /\ Leaves(connecting', connecting, c) /\ backend' = backend
           /\ ghost'.cut = ghost.cut
        \/ /\ Leaves(connecting', connecting, c) /\ backend' = backend \ {c}
           /\ c \in ghost'.cut
    <3>1. ghost' = [ghost EXCEPT !.cut = @ \cup {c}] => c \in ghost'.cut
      BY <1>a DEF GhostType
    <3>2. QED
      BY <1>2, <3>1, CallSteps
  <2>2. UNCHANGED <<closing, events, open>>
    BY <1>2 DEF BackendUp, shown, open
  <2>3. ghost'.odd = ghost.odd /\ \A d \in Conns \ {c} : d \in ghost'.cut <=> d \in ghost.cut
    BY <1>2, <1>a DEF BackendUp, GhostType
  <2>4. \A d \in Conns \ {c} : untouched(d)
    BY <2>1, <2>2, <2>3 DEF untouched, Enters, Leaves
  <2>5. ASSUME c \notin ghost'.odd PROVE linked(c)'
    <3>1. linked(c) /\ c \notin ghost.odd
      BY <1>b, <2>3, <2>5
    <3>2. QED
      BY <1>2, <2>1, <2>2, <2>3, <2>5, <3>1 DEF linked, Enters, Leaves, BackendUp
  <2>6. QED
    BY <2>3, <2>4, <2>5, OneLink
<1>3. ASSUME NEW c \in Conns, addSession(c) PROVE LinkInv'
  <2>1. Leaves(connecting', connecting, c)
    BY <1>3, CallSteps
  <2>2. UNCHANGED <<closing, backend, events>> /\ open' = open \cup {c}
    BY <1>3, OpenSteps DEF addSession
  <2>3. ghost'.odd = ghost.odd /\ ghost'.cut = ghost.cut
    BY <1>3, <1>a DEF addSession, picked, GhostType
  <2>4. \A d \in Conns \ {c} : untouched(d)
    BY <2>1, <2>2, <2>3 DEF untouched, Enters, Leaves
  <2>5. ASSUME c \notin ghost'.odd PROVE linked(c)'
    <3>1. linked(c) /\ c \notin ghost.odd
      BY <1>b, <2>3, <2>5
    <3>2. QED
      BY <1>3, <2>1, <2>2, <2>3, <2>5, <3>1 DEF linked, Enters, Leaves, addSession
  <2>6. QED
    BY <2>3, <2>4, <2>5, OneLink
<1>4. ASSUME NEW c \in Conns, closeSession(c) PROVE LinkInv'
  <2>1. Enters(closing', closing, c, "call")
    BY <1>4, CallSteps
  <2>2. UNCHANGED <<connecting, backend, events, open>>
    BY <1>4 DEF closeSession, shown, open
  <2>3. /\ ghost'.odd = IF c \in DOMAIN connecting THEN ghost.odd \cup {c} ELSE ghost.odd
        /\ ghost'.cut = ghost.cut
    BY <1>4, <1>a DEF closeSession, noteClose, GhostType
  <2>4. \A d \in Conns \ {c} : untouched(d)
    BY <2>1, <2>2, <2>3 DEF untouched, Enters, Leaves
  <2>5. ASSUME c \notin ghost'.odd PROVE linked(c)'
    <3>1. linked(c) /\ c \notin ghost.odd
      BY <1>b, <2>3, <2>5
    <3>2. QED
      BY <1>4, <2>1, <2>2, <2>3, <2>5, <3>1 DEF linked, Enters, Leaves, closeSession
  <2>6. QED
    BY <2>3, <2>4, <2>5, OneLink
<1>5. ASSUME NEW c \in Conns, BackendDown(c) PROVE LinkInv'
  <2>1. Enters(closing', closing, c, "down")
    BY <1>5, CallSteps
  <2>2. /\ UNCHANGED <<connecting, open>>
        /\ \/ backend' = backend \ {c} /\ events' = events \cup ({c} \cap SshIds)
           \/ backend' = backend /\ events' = events /\ c \in ghost'.odd
    <3>1. UNCHANGED <<connecting, open>>
      BY <1>5 DEF BackendDown, shown, open
    <3>2. ghost' = [ghost EXCEPT !.odd = @ \cup {c}] => c \in ghost'.odd
      BY <1>a DEF GhostType
    <3>3. QED
      BY <1>5, <3>1, <3>2 DEF BackendDown
  <2>3. ghost.odd \subseteq ghost'.odd /\ ghost'.cut = ghost.cut
    BY <1>5, <1>a DEF BackendDown, noteClose, GhostType
  <2>4. \A d \in Conns \ {c} : untouched(d)
    BY <2>1, <2>2, <2>3 DEF untouched, Enters, Leaves
  <2>5. ASSUME c \notin ghost'.odd PROVE linked(c)'
    <3>1. linked(c) /\ c \notin ghost.odd
      BY <1>b, <2>3, <2>5
    <3>2. QED
      BY <1>5, <2>1, <2>2, <2>3, <2>5, <3>1 DEF linked, Enters, Leaves, BackendDown
  <2>6. QED
    BY <2>3, <2>4, <2>5, OneLink
<1>6. ASSUME NEW c \in Conns, CloseReturn(c) PROVE LinkInv'
  <2>1. Leaves(closing', closing, c)
    BY <1>6, CallSteps
  <2>2. UNCHANGED <<connecting, backend, events>> /\ open' = open \ {c}
    BY <1>6, OpenSteps DEF CloseReturn
  <2>3. ghost'.odd = ghost.odd /\ ghost'.cut = ghost.cut
    BY <1>6, <1>a DEF CloseReturn, GhostType
  <2>4. \A d \in Conns \ {c} : untouched(d)
    BY <2>1, <2>2, <2>3 DEF untouched, Enters, Leaves
  <2>5. ASSUME c \notin ghost'.odd PROVE linked(c)'
    <3>1. linked(c) /\ c \notin ghost.odd
      BY <1>b, <2>3, <2>5
    <3>2. QED
      BY <1>6, <2>1, <2>2, <2>3, <2>5, <3>1 DEF linked, Enters, Leaves, CloseReturn
  <2>6. QED
    BY <2>3, <2>4, <2>5, OneLink
<1>7. ASSUME NEW c \in Conns, Drop(c) PROVE LinkInv'
  <2>1. /\ backend' = backend \ {c} /\ events' = events \cup {c}
        /\ UNCHANGED <<connecting, closing, ghost, open>>
    BY <1>7 DEF Drop, shown, open
  <2>2. \A d \in Conns \ {c} : untouched(d)
    BY <2>1 DEF untouched
  <2>3. ASSUME c \notin ghost'.odd PROVE linked(c)'
    BY <1>b, <1>7, <2>1, <2>3 DEF linked, Drop
  <2>4. QED
    BY <2>1, <2>2, <2>3, OneLink
<1>8. ASSUME NEW c \in Conns, ClosedEvent(c) PROVE LinkInv'
  <2>1. events' = events \ {c} /\ UNCHANGED <<connecting, backend, open>>
    BY <1>8 DEF ClosedEvent, shown, open
  <2>2. CASE mayClose(c)
    <3>1. Enters(closing', closing, c, "call")
      BY <1>8, <2>2, CallSteps
    <3>2. /\ ghost'.odd = IF c \in DOMAIN connecting THEN ghost.odd \cup {c} ELSE ghost.odd
          /\ ghost'.cut = ghost.cut
      BY <1>8, <1>a, <2>2 DEF ClosedEvent, noteClose, GhostType
    <3>3. \A d \in Conns \ {c} : untouched(d)
      BY <2>1, <3>1, <3>2 DEF untouched, Enters
    <3>4. ASSUME c \notin ghost'.odd PROVE linked(c)'
      <4>1. linked(c) /\ c \notin DOMAIN connecting
        BY <1>b, <3>2, <3>4
      <4>2. c \in DOMAIN closing' /\ closing'[c] = "call"
        BY <3>1 DEF Enters
      <4>3. QED
        BY <2>1, <3>2, <4>1, <4>2 DEF linked
    <3>5. QED
      BY <3>2, <3>3, <3>4, OneLink
  <2>3. CASE ~mayClose(c)
    <3>1. closing' = closing
      BY <1>8, <2>3 DEF ClosedEvent
    <3>2. /\ ghost'.odd = IF c \in DOMAIN closing \/ c \notin open \cup DOMAIN connecting
                          THEN ghost.odd ELSE ghost.odd \cup {c}
          /\ ghost'.cut = ghost.cut
      BY <1>8, <1>a, <2>3 DEF ClosedEvent, GhostType
    <3>3. \A d \in Conns \ {c} : untouched(d)
      BY <2>1, <3>1, <3>2 DEF untouched
    <3>4. ASSUME c \notin ghost'.odd PROVE linked(c)'
      <4>1. linked(c) /\ (c \in DOMAIN closing \/ c \notin open \cup DOMAIN connecting)
        BY <1>b, <3>2, <3>4
      <4>2. QED
        BY <2>1, <3>1, <3>2, <4>1 DEF linked
    <3>5. QED
      BY <3>2, <3>3, <3>4, OneLink
  <2>4. QED
    BY <2>2, <2>3
<1>9. ASSUME UNCHANGED <<net, open>>, ghost'.odd = ghost.odd, ghost'.cut = ghost.cut
      PROVE  LinkInv'
  BY <1>9 DEF net, LinkInv, linked
<1>p. picked => ghost'.odd = ghost.odd /\ ghost'.cut = ghost.cut
  BY <1>a DEF picked, GhostType
<1>10. CASE Commit
  BY <1>9, <1>10 DEF Commit, shown, open
<1>11. ASSUME (\E t \in Tabs : activateTab(t)) \/ (\E t \in Tools : closeTool(t))
       PROVE  LinkInv'
  <2>1. UNCHANGED <<net, open>> /\ (picked \/ ghost' = ghost)
    BY <1>11 DEF activateTab, closeTool, open
  <2>2. QED
    BY <1>9, <1>p, <2>1
<1>12. CASE UNCHANGED vars
  BY <1>9, <1>12 DEF vars, shown, open
<1>13. QED
  BY <1>1, <1>2, <1>3, <1>4, <1>5, <1>6, <1>7, <1>8, <1>10, <1>11, <1>12 DEF Next

-----------------------------------------------------------------------------
(* The inductive invariant holds in every state: a well-formed state, an   *)
(* active tab that is open, an agent in line with the refs, and tabs in    *)
(* line with the backend.                                                  *)
THEOREM TabsInvariant == Spec => []TabsInv
<1>1. Init => TabsInv
  <2> SUFFICES ASSUME Init PROVE TabsInv
    OBVIOUS
  <2>1. <<>> \in Seq(SshIds) /\ <<>> \in Seq(DbIds) /\ IsInjective(<<>>) /\ ToSet(<<>>) = {}
    BY DEF IsInjective, ToSet
  <2>2. DOMAIN nothing = {}
    BY DEF nothing
  <2>3. TypeOK
    <3>1. wellFormed(now) /\ wellFormed(ref)
      BY <2>1 DEF Init, wellFormed, now, Tabs
    <3>2. QED
      BY <2>2, <3>1 DEF Init, TypeOK
  <2>4. ActiveIsOpen
    BY <2>3, ActiveIsOpenMeans DEF Init, stripSet
  <2>5. FollowInv
    BY <2>1 DEF Init, FollowInv
  <2>6. LinkInv
    BY <2>1, <2>2 DEF Init, LinkInv, linked, open
  <2>7. QED
    BY <2>3, <2>4, <2>5, <2>6 DEF TabsInv
<1>2. TabsInv /\ [Next]_vars => TabsInv'
  <2> SUFFICES ASSUME TabsInv, [Next]_vars PROVE TabsInv'
    OBVIOUS
  <2>1. TypeOK /\ ActiveIsOpen /\ FollowInv /\ LinkInv
    BY DEF TabsInv
  <2>2. TypeOK'
    BY <2>1, TabsTypeStep
  <2>3. (~ghost.stale => active \in stripSet)'
    BY <2>1, <2>2, ActiveStep
  <2>4. (TypeOK => (ActiveIsOpen <=> (~ghost.stale => active \in stripSet)))'
    BY ActiveIsOpenMeans, PTL
  <2>5. ActiveIsOpen'
    BY <2>2, <2>3, <2>4
  <2>6. FollowInv' /\ LinkInv'
    BY <2>1, FollowStep, LinkStep
  <2>7. QED
    BY <2>2, <2>5, <2>6 DEF TabsInv
<1>3. QED
  BY <1>1, <1>2, PTL DEF Spec

(* The lists hold every open connection once, in the state and in the refs *)
(* the effects of a render leave, and calls and history are well formed.   *)
THEOREM TabsTypeCorrect == Spec => []TypeOK
<1>1. TabsInv => TypeOK
  BY DEF TabsInv
<1>2. QED
  BY <1>1, TabsInvariant, PTL

(* closeSession and closeTool leave an active tab that is on the strip,    *)
(* however many tabs were added or switched since the last render; unless  *)
(* closeSession picked it when another tab of the refs had already gone,   *)
(* until the next one is picked.                                           *)
THEOREM TabsActiveOpen == Spec => []ActiveIsOpen
<1>1. TabsInv => ActiveIsOpen
  BY DEF TabsInv
<1>2. QED
  BY <1>1, TabsInvariant, PTL

(* agentSetActiveConnection was called with the connection that is shown,  *)
(* and not with one that is closed, whenever the effects have run.         *)
THEOREM TabsAgentFollows == Spec => []AgentFollows
<1>1. TabsInv => AgentFollows
  <2>1. ASSUME FollowInv, settled PROVE AgentFollows
    <3>1. ref.active = active /\ ref.ssh = ssh /\ ref.db = db
      BY <2>1 DEF settled, now
    <3>2. QED
      BY <2>1, <3>1 DEF FollowInv, AgentFollows, open
  <2>2. QED
    BY <2>1 DEF TabsInv, AgentFollows
<1>2. QED
  BY <1>1, TabsInvariant, PTL

(* At rest the tabs are the connections of the backend, and those a failed *)
(* reconnect has closed, for every connection that had no overlapping call *)
(* or failed disconnect and was rendered before it ended.                  *)
THEOREM TabsAndBackend == Spec => []TabsMatchBackend
<1>1. TabsInv => TabsMatchBackend
  <2>1. ASSUME LinkInv, connecting = nothing, closing = nothing, events = {},
               NEW c \in Conns \ ghost.odd
        PROVE  (c \in backend => c \in open) /\ (c \in open => c \in backend \cup ghost.cut)
    <3>1. DOMAIN connecting = {} /\ DOMAIN closing = {}
      BY <2>1 DEF nothing
    <3>2. linked(c)
      BY <2>1 DEF LinkInv
    <3>3. QED
      BY <2>1, <3>1, <3>2 DEF linked
  <2>2. QED
    BY <2>1 DEF TabsInv, TabsMatchBackend
<1>2. QED
  BY <1>1, TabsInvariant, PTL
=============================================================================
