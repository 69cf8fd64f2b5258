--------------------------- MODULE DiscoveryProofs ---------------------------
(* What TLAPS proves of Discovery, for any rows, plans of queries and page  *)
(* size: what exactly can make a reader miss a row, meet one twice or be     *)
(* led to a page that is not there.                                         *)
EXTENDS Discovery, FiniteSetTheorems, SequenceTheorems, TLAPS

-----------------------------------------------------------------------------
(* Pages. *)

(* Where a page ends, the next one begins. *)
LEMMA PageEnds ==
    ASSUME NEW n \in Nat \ {0}
    PROVE  /\ n * PageSize \in Nat /\ (n - 1) * PageSize \in Nat
           /\ n * PageSize = (n - 1) * PageSize + PageSize
BY PageSizeAssumption

LEMMA Quotient ==
    ASSUME NEW a \in Nat, NEW b \in Nat \ {0}
    PROVE  /\ a \div b \in Nat
           /\ (a \div b) * b <= a
           /\ a < (a \div b + 1) * b
OBVIOUS

(* NumPages is the number of pages: every page before the last ends before  *)
(* the last row, and the last one holds it.                                 *)
LEMMA Pages ==
    ASSUME NEW c \in Nat, NEW n \in Nat \ {0}
    PROVE  /\ NumPages(c) \in Nat \ {0}
           /\ n < NumPages(c) => n * PageSize < c
           /\ n >= NumPages(c) => n * PageSize >= c
<1>1. CASE c = 0
  <2>1. n * PageSize >= 0
    BY PageEnds
  <2> QED BY <1>1, <2>1 DEF NumPages
<1>2. CASE c # 0
  <2> DEFINE a == c + PageSize - 1  q == a \div PageSize
  <2>1. a \in Nat /\ a >= PageSize /\ NumPages(c) = q
    BY <1>2, PageSizeAssumption DEF NumPages
  <2> HIDE DEF a
  <2>2. q \in Nat /\ q * PageSize <= a /\ a < (q + 1) * PageSize
    BY <2>1, Quotient, PageSizeAssumption
  <2> HIDE DEF q
  <2>3. q # 0
    BY <2>1, <2>2, PageSizeAssumption
  <2>4. ASSUME n < q PROVE n * PageSize < c
    <3>1. (n + 1) * PageSize <= q * PageSize
      BY <2>2, <2>4, PageSizeAssumption
    <3>2. (n + 1) * PageSize = n * PageSize + PageSize
      BY PageSizeAssumption
    <3> QED BY <2>2, <3>1, <3>2, PageEnds, PageSizeAssumption DEF a
  <2>5. ASSUME n >= q PROVE n * PageSize >= c
    <3>1. q * PageSize <= n * PageSize
      BY <2>2, <2>5, PageSizeAssumption
    <3>2. (q + 1) * PageSize = q * PageSize + PageSize /\ q * PageSize \in Nat
      BY <2>2, PageSizeAssumption
    <3> QED BY <2>2, <3>1, <3>2, PageEnds, PageSizeAssumption DEF a
  <2> QED BY <2>1, <2>2, <2>3, <2>4, <2>5
<1> QED BY <1>1, <1>2

-----------------------------------------------------------------------------
(* Places in an order. *)

(* The rows before r in the list of a query, at time t. *)
Ahead(q, t, r) == {x \in Matches(q, t) : Before(x, r, q.list)}
Places(q, t, r) == Cardinality(Ahead(q, t, r))

(* With no ties there is one order, and a row's index in it tells how many  *)
(* rows come before it.                                                     *)
LEMMA Rank ==
    ASSUME NEW q, NEW t, IsFiniteSet(Matches(q, t)), ~Tied(Matches(q, t), q.list),
           NEW s \in Orders(Matches(q, t), q.list)
    PROVE  /\ DOMAIN s = 1..Cardinality(Matches(q, t))
           /\ \A i \in DOMAIN s : s[i] \in Matches(q, t) /\ Places(q, t, s[i]) = i - 1
           /\ \A r \in Matches(q, t) : \E i \in DOMAIN s : s[i] = r
<1> DEFINE S == Matches(q, t)  D == 1..Cardinality(S)
<1>1. /\ s \in [D -> S] /\ \A i, j \in D : s[i] = s[j] => i = j
      /\ \A i, j \in D : Before(s[i], s[j], q.list) => i < j
  BY DEF Orders, SetToSeqs
<1>2. Cardinality(S) \in Nat
  BY FS_CardinalityType
<1>3. IsFiniteSet(D) /\ Cardinality(D) = Cardinality(S)
  BY <1>2, FS_Interval
<1>4. s \in Injection(D, S)
  BY <1>1 DEF Injection, IsInjective
<1>5. s \in Surjection(D, S)
  BY <1>3, <1>4, FS_Injection
<1>6. \A r \in S : \E i \in D : s[i] = r
  BY <1>5 DEF Surjection
<1>7. ASSUME NEW i \in D PROVE Places(q, t, s[i]) = i - 1
  <2> DEFINE F == 1..(i - 1)
             B == Ahead(q, t, s[i])
             f == [j \in F |-> s[j]]
  <2>1. i \in Int /\ F \subseteq D
    BY <1>2
  <2>2. \A j \in F : s[j] \in B
    <3> SUFFICES ASSUME NEW j \in F PROVE s[j] \in B
      OBVIOUS
    <3>1. j \in D /\ j # i /\ ~(i < j)
      BY <2>1
    <3>2. s[j] \in S /\ s[i] \in S /\ s[j] # s[i] /\ ~Before(s[i], s[j], q.list)
      BY <1>1, <3>1
    <3> QED BY <3>2 DEF Tied, Ahead
  <2>3. \A x \in B : \E j \in F : s[j] = x
    <3> SUFFICES ASSUME NEW x \in B PROVE \E j \in F : s[j] = x
      OBVIOUS
    <3>1. PICK j \in D : s[j] = x
      BY <1>6 DEF Ahead
    <3>2. j < i
      BY <1>1, <3>1 DEF Ahead
    <3> QED BY <2>1, <3>1, <3>2
  <2>4. f \in Bijection(F, B)
    <3>1. f \in [F -> B] /\ \A j, k \in F : f[j] = f[k] => j = k
      BY <1>1, <2>1, <2>2
    <3>2. f \in Injection(F, B)
      BY <3>1 DEF Injection, IsInjective
    <3>3. f \in Surjection(F, B)
      BY <2>3, <3>1 DEF Surjection
    <3> QED BY <3>2, <3>3 DEF Bijection
  <2>5. IsFiniteSet(F) /\ Cardinality(F) = i - 1
    <3>1. i - 1 \in Int /\ 1 \in Int /\ i >= 1
      BY <1>2
    <3>2. IsFiniteSet(1..(i - 1)) /\ Cardinality(1..(i - 1)) = IF 1 > i - 1 THEN 0 ELSE i - 1 - 1 + 1
      BY <3>1, FS_Interval
    <3> QED BY <3>1, <3>2
  <2>6. ExistsBijection(F, B)
    BY <2>4 DEF ExistsBijection
  <2>7. Cardinality(B) = Cardinality(F)
    BY <2>5, <2>6, FS_Bijection
  <2> QED BY <2>5, <2>7 DEF Places
<1> QED BY <1>1, <1>6, <1>7

(* So a page shows the rows that have at least the earlier pages' rows      *)
(* before them, and less than a page more.                                  *)
LEMMA PageShows ==
    ASSUME NEW q, NEW t, IsFiniteSet(Matches(q, t)), ~Tied(Matches(q, t), q.list),
           NEW s \in Orders(Matches(q, t), q.list), NEW n \in Nat \ {0}, NEW c \in Nat,
           NEW r \in Matches(q, t)
    PROVE  /\ Places(q, t, r) \in Nat /\ Places(q, t, r) < Cardinality(Matches(q, t))
           /\ r \in Slice(s, n, c) <=>
                 /\ (n - 1) * PageSize <= Places(q, t, r)
                 /\ Places(q, t, r) < n * PageSize /\ Places(q, t, r) < c
<1> DEFINE bottom == (n - 1) * PageSize
           top == IF bottom + PageSize >= c THEN c ELSE bottom + PageSize
           k == Places(q, t, r)
<1>1. bottom \in Nat /\ n * PageSize = bottom + PageSize /\ bottom + PageSize \in Nat /\ top \in Nat
  BY PageEnds
<1>2. Slice(s, n, c) = {s[i] : i \in DOMAIN s \cap (bottom + 1)..top}
  BY DEF Slice
<1>3. DOMAIN s = 1..Cardinality(Matches(q, t)) /\ Cardinality(Matches(q, t)) \in Nat
  BY Rank, FS_CardinalityType
<1>4. PICK i \in DOMAIN s : s[i] = r
  BY Rank
<1>5. k = i - 1 /\ i \in Nat /\ i >= 1 /\ i <= Cardinality(Matches(q, t))
  BY <1>3, <1>4, Rank
<1> HIDE DEF bottom
<1>6. r \in Slice(s, n, c) <=> i \in (bottom + 1)..top
  <2>1. ASSUME NEW j \in DOMAIN s, s[j] = r PROVE j = i
    <3>1. k = j - 1 /\ j \in Nat
      BY <1>3, <2>1, Rank
    <3> QED BY <1>5, <3>1
  <2> QED BY <1>2, <1>4, <2>1
<1> HIDE DEF k
<1>7. i \in (bottom + 1)..top <=> bottom <= k /\ k < bottom + PageSize /\ k < c
  BY <1>1, <1>5, PageSizeAssumption
<1> QED BY <1>1, <1>3, <1>5, <1>6, <1>7 DEF bottom, k

LEMMA PageIsOfList ==
    ASSUME NEW S, NEW list, NEW s \in Orders(S, list), NEW n, NEW c
    PROVE  Slice(s, n, c) \subseteq S
BY DEF Orders, SetToSeqs, Slice

-----------------------------------------------------------------------------
(* Types. *)
WalkInv ==
    /\ TypeOK /\ IsFiniteSet(rows)
    /\ pc = "slice" => now <= clock

LEMMA Facts ==
    ASSUME WalkInv
    PROVE  /\ clock \in Int /\ now \in Int /\ \A r \in rows : r.starts \in Int /\ r.id \in Ids
           /\ Walking => walk # <<>> /\ Head(walk) \in Query /\ Tail(walk) \in Seq(Query)
           /\ \A q, t : IsFiniteSet(Matches(q, t)) /\ Cardinality(Matches(q, t)) \in Nat
           /\ \A q, t, r : IsFiniteSet(Ahead(q, t, r)) /\ Places(q, t, r) \in Nat
<1>1. \A q, t : IsFiniteSet(Matches(q, t)) /\ Cardinality(Matches(q, t)) \in Nat
  <2> SUFFICES ASSUME NEW q, NEW t
               PROVE  IsFiniteSet(Matches(q, t)) /\ Cardinality(Matches(q, t)) \in Nat
    OBVIOUS
  <2>1. Matches(q, t) \in SUBSET rows
    BY DEF Matches
  <2> QED BY <2>1, FS_Subset, FS_CardinalityType DEF WalkInv
<1>2. \A q, t, r : IsFiniteSet(Ahead(q, t, r)) /\ Places(q, t, r) \in Nat
  <2> SUFFICES ASSUME NEW q, NEW t, NEW r
               PROVE  IsFiniteSet(Ahead(q, t, r)) /\ Places(q, t, r) \in Nat
    OBVIOUS
  <2>1. Ahead(q, t, r) \in SUBSET Matches(q, t)
    BY DEF Ahead
  <2> QED BY <1>1, <2>1, FS_Subset, FS_CardinalityType DEF Places
<1>3. Walking => walk # <<>> /\ Head(walk) \in Query /\ Tail(walk) \in Seq(Query)
  <2>1. Walking => walk \in Seq(Query) /\ walk # <<>>
    BY DEF WalkInv, TypeOK, Walking
  <2> QED BY <2>1, HeadTailProperties
<1>4. clock \in Int /\ now \in Int /\ \A r \in rows : r.starts \in Int /\ r.id \in Ids
  BY BoundsAssumption DEF WalkInv, TypeOK, Time, Row
<1> QED BY <1>1, <1>2, <1>3, <1>4

LEMMA InitWalk == Init => WalkInv
<1> SUFFICES ASSUME Init PROVE WalkInv
  OBVIOUS
<1>0. PICK known \in SUBSET Ids : IsFiniteSet(known) /\
        \E r \in [known -> [starts : Time, mark : Marks]] :
          rows = {[id |-> i, starts |-> r[i].starts, mark |-> r[i].mark] : i \in known}
  BY DEF Init, kSubset
<1>1. PICK r \in [known -> [starts : Time, mark : Marks]] :
        rows = {[id |-> i, starts |-> r[i].starts, mark |-> r[i].mark] : i \in known}
  BY <1>0
<1>2. IsFiniteSet(rows)
  <2> DEFINE f == [i \in known |-> [id |-> i, starts |-> r[i].starts, mark |-> r[i].mark]]
  <2>1. f \in Surjection(known, rows)
    BY <1>1 DEF Surjection
  <2> QED BY <1>0, <2>1, FS_Surjection
<1>3. rows \subseteq Row /\ \A x, y \in rows : x.id = y.id => x = y
  BY <1>1 DEF Row
<1>4. PICK plan \in Plans : Begin(plan)
  BY DEF Init
<1>5. plan \in Seq(Query) /\ plan # <<>>
  BY PlansAssumption
<1>6. there \subseteq Ids
  BY <1>3, <1>4 DEF Begin, IdsOf, Matches, Row
<1>7. clock \in Time /\ now \in Time
  BY <1>4, BoundsAssumption DEF Init, Begin, Time
<1> QED BY <1>2, <1>3, <1>4, <1>5, <1>6, <1>7, BoundsAssumption DEF Begin, WalkInv, TypeOK

(* Others' writes keep the table's rows apart. *)
LEMMA DisturbTypes ==
    ASSUME WalkInv, NEW what \in Disturbances, Disturb(what),
           rows' \subseteq Row, \A r, s \in rows' : r.id = s.id => r = s, IsFiniteSet(rows')
    PROVE  WalkInv'
BY BoundsAssumption DEF WalkInv, TypeOK, Disturb, requestVars

LEMMA CreateTypes == ASSUME WalkInv, Create PROVE WalkInv'
<1>1. PICK i \in Ids \ (IdsOf(rows) \cup there \cup shown), t \in Time, k \in Marks :
        rows' = rows \cup {[id |-> i, starts |-> t, mark |-> k]}
  BY DEF Create
<1>2. rows' \subseteq Row /\ \A r, s \in rows' : r.id = s.id => r = s
  BY <1>1 DEF WalkInv, TypeOK, Row, IdsOf
<1>3. IsFiniteSet(rows')
  BY <1>1, FS_AddElement DEF WalkInv
<1>4. Disturb("created") \/ Disturb("created in between")
  BY DEF Create
<1> QED BY <1>2, <1>3, <1>4, DisturbTypes DEF Disturbances

LEMMA DeleteTypes == ASSUME WalkInv, Delete PROVE WalkInv'
<1>1. rows' \in SUBSET rows
  BY DEF Delete
<1>2. IsFiniteSet(rows')
  BY <1>1, FS_Subset DEF WalkInv
<1>3. rows' \subseteq Row /\ \A r, s \in rows' : r.id = s.id => r = s
  BY <1>1 DEF WalkInv, TypeOK
<1> QED BY <1>2, <1>3, DisturbTypes DEF Delete, Disturbances

LEMMA PatchTypes == ASSUME WalkInv, Patch PROVE WalkInv'
<1>1. PICK r \in rows, t \in Time, k \in Marks : rows' = Saved(r, t, k)
  BY DEF Patch
<1> DEFINE n == [r EXCEPT !.starts = t, !.mark = k]
<1>2. r \in Row /\ n \in Row /\ n.id = r.id
  BY DEF WalkInv, TypeOK, Row
<1> HIDE DEF n
<1>3. rows' = (rows \ {r}) \cup {n}
  BY <1>1 DEF Saved, n
<1>4. IsFiniteSet(rows')
  BY <1>3, FS_RemoveElement, FS_AddElement DEF WalkInv
<1>5. rows' \subseteq Row /\ \A x, y \in rows' : x.id = y.id => x = y
  BY <1>2, <1>3 DEF WalkInv, TypeOK
<1> QED BY <1>4, <1>5, DisturbTypes DEF Patch, Disturbances

LEMMA TickTypes == ASSUME WalkInv, Tick PROVE WalkInv'
<1>1. clock' \in Time /\ clock <= clock'
  BY BoundsAssumption DEF WalkInv, TypeOK, Tick, Time
<1>2. started' \subseteq Ids
  BY DEF Tick, WalkInv, TypeOK, IdsOf, Row
<1>3. disturbed' \subseteq Disturbances
  BY DEF Tick, WalkInv, TypeOK, Disturbances
<1>4. pc = "slice" => now <= clock'
  <2>1. now \in Int /\ clock \in Int /\ clock' \in Int
    BY <1>1, Facts, BoundsAssumption DEF Time
  <2> QED BY <1>1, <2>1 DEF WalkInv
<1>5. UNCHANGED <<rows, there, changes, walk, page, pc, now, count, shown, repeated>>
  BY DEF Tick, requestVars
<1> QED BY <1>1, <1>2, <1>3, <1>4, <1>5 DEF WalkInv, TypeOK

LEMMA CountTypes == ASSUME WalkInv, Count PROVE WalkInv'
<1>1. count' \in Nat /\ clock <= clock
  BY Facts DEF Count
<1>2. now' = clock /\ pc' \in {"missing", "slice"} /\ pc = "count"
  BY DEF Count
<1> QED BY <1>1, <1>2 DEF WalkInv, TypeOK, Count

LEMMA FetchTypes == ASSUME WalkInv, Fetch PROVE WalkInv'
<1>1. Walking /\ pc = "slice"
  BY DEF Fetch, Walking
<1>2. PICK s \in Orders(Matches(Head(walk), now), Head(walk).list) :
        LET ids == IdsOf(Slice(s, page, count))
        IN shown' = shown \cup ids /\ repeated' = repeated \cup (shown \cap ids)
  BY DEF Fetch
<1>3. Slice(s, page, count) \subseteq rows
  BY PageIsOfList DEF Matches
<1>4. shown' \subseteq Ids /\ repeated' \subseteq Ids
  BY <1>2, <1>3 DEF WalkInv, TypeOK, IdsOf, Row
<1>5. walk' \in Seq(Query) /\ page' \in Nat \ {0} /\ pc' \in {"count", "done"}
      /\ (walk' = <<>>) = (pc' = "done")
  <2>1. walk \in Seq(Query) /\ page \in Nat \ {0} /\ walk # <<>> /\ Tail(walk) \in Seq(Query)
    BY <1>1, Facts DEF WalkInv, TypeOK
  <2>2. CASE page < NumPages(count)
    <3>1. page' = page + 1 /\ pc' = "count" /\ walk' = walk
      BY <2>2 DEF Fetch
    <3> QED BY <2>1, <3>1
  <2>3. CASE ~(page < NumPages(count))
    <3>1. page' = 1 /\ walk' = Tail(walk) /\ pc' = IF walk' = <<>> THEN "done" ELSE "count"
      BY <2>3 DEF Fetch
    <3> QED BY <2>1, <3>1
  <2> QED BY <2>2, <2>3
<1>6. disturbed' \subseteq Disturbances /\ now' \in Time /\ count' \in Nat
  <2>1. disturbed' \subseteq disturbed \cup {"tied"}
    BY DEF Fetch
  <2>2. now' = 0 /\ count' = 0 /\ 0 \in Time
    BY BoundsAssumption DEF Fetch, Time
  <2> QED BY <2>1, <2>2 DEF WalkInv, TypeOK, Disturbances
<1>7. UNCHANGED <<rows, clock, there, started, changes>>
  BY DEF Fetch
<1> QED BY <1>4, <1>5, <1>6, <1>7 DEF WalkInv, TypeOK

LEMMA WalkStep == WalkInv /\ [Next]_vars => WalkInv'
<1> SUFFICES ASSUME WalkInv, [Next]_vars PROVE WalkInv'
  OBVIOUS
<1>1. CASE UNCHANGED vars
  BY <1>1 DEF vars, WalkInv, TypeOK
<1> QED BY <1>1, CountTypes, FetchTypes, CreateTypes, DeleteTypes, PatchTypes, TickTypes DEF Next

(* Every variable always has its type, and no two rows share an id. *)
THEOREM ListsAreWellTyped == Spec => []TypeOK
<1>1. WalkInv => TypeOK
  BY DEF WalkInv
<1> QED BY <1>1, InitWalk, WalkStep, PTL DEF Spec

-----------------------------------------------------------------------------
(* What time does to a list. *)
LEMMA TimePasses ==
    ASSUME WalkInv, NEW q \in Query, NEW t \in Int, NEW u \in Int, t <= u
    PROVE  /\ q.list \in {"events", "mine"} => Matches(q, u) = Matches(q, t)
           /\ q.list = "past" => Matches(q, t) \subseteq Matches(q, u)
           /\ q.list = "upcoming" => Matches(q, u) \subseteq Matches(q, t)
           /\ (\A r \in rows : ~(t <= r.starts /\ r.starts < u)) => Matches(q, u) = Matches(q, t)
<1>1. \A r \in rows : r.starts \in Int
  BY Facts
<1>2. q.list \in {"events", "mine", "upcoming", "past"}
  BY DEF Query
<1>3. ASSUME NEW r \in rows
      PROVE  /\ q.list \in {"events", "mine"} => (InScope(r, q.list, u) <=> InScope(r, q.list, t))
             /\ q.list = "past" /\ InScope(r, q.list, t) => InScope(r, q.list, u)
             /\ q.list = "upcoming" /\ InScope(r, q.list, u) => InScope(r, q.list, t)
             /\ ~(t <= r.starts /\ r.starts < u) => (InScope(r, q.list, u) <=> InScope(r, q.list, t))
  BY <1>1, <1>2 DEF InScope
<1> QED BY <1>2, <1>3 DEF Matches

(* A tick that disturbs nothing moves no row in a list that looks at the    *)
(* time, the past excepted, where rows only arrive.                         *)
LEMMA QuietTick ==
    ASSUME WalkInv, Tick, "shifted" \notin disturbed',
           Head(walk).list \in {"events", "upcoming"}
    PROVE  \A r \in rows : r.starts # clock
BY DEF Tick, IdsOf

LEMMA TickFacts ==
    ASSUME WalkInv, Tick
    PROVE  /\ clock' = clock + 1 /\ clock' \in Int /\ Walking
           /\ rows' = rows /\ walk' = walk /\ page' = page /\ pc' = pc /\ now' = now /\ count' = count
           /\ there' = there /\ shown' = shown /\ repeated' = repeated
           /\ started \subseteq started' /\ disturbed \subseteq disturbed'
           /\ walk # <<>> /\ Head(walk) \in Query
<1>1. clock \in Int /\ clock' = clock + 1 /\ Walking
  BY Facts DEF Tick
<1>2. /\ rows' = rows /\ walk' = walk /\ page' = page /\ pc' = pc /\ now' = now /\ count' = count
      /\ there' = there /\ shown' = shown /\ repeated' = repeated
      /\ started \subseteq started' /\ disturbed \subseteq disturbed'
  BY DEF Tick, requestVars
<1> QED BY <1>1, <1>2, Facts

(* The steps of others leave the reader where it is. *)
LEMMA WriteFacts ==
    ASSUME WalkInv, Create \/ Delete \/ Patch
    PROVE  /\ clock' = clock /\ Walking /\ walk' = walk /\ page' = page /\ pc' = pc
           /\ now' = now /\ count' = count
           /\ there' = there /\ shown' = shown /\ repeated' = repeated /\ started' = started
           /\ disturbed \subseteq disturbed'
           /\ Create => rows \subseteq rows' /\ \/ pc = "count" /\ "created" \in disturbed'
                                                \/ pc = "slice" /\ "created in between" \in disturbed'
           /\ Delete => rows' \subseteq rows /\ "deleted" \in disturbed'
           /\ Patch => "changed" \in disturbed'
           /\ walk # <<>> /\ Head(walk) \in Query
<1>1. \E what : Disturb(what)
  BY DEF Create, Delete, Patch
<1>2. Walking
  BY <1>1 DEF Disturb
<1>3. /\ Create => rows \subseteq rows' /\ \/ pc = "count" /\ "created" \in disturbed'
                                           \/ pc = "slice" /\ "created in between" \in disturbed'
      /\ Delete => rows' \subseteq rows /\ "deleted" \in disturbed'
      /\ Patch => "changed" \in disturbed'
  BY <1>2 DEF Create, Delete, Patch, Disturb, Walking
<1>4. /\ clock' = clock /\ walk' = walk /\ page' = page /\ pc' = pc
      /\ now' = now /\ count' = count
      /\ there' = there /\ shown' = shown /\ repeated' = repeated /\ started' = started
      /\ disturbed \subseteq disturbed'
  BY <1>1 DEF Disturb, requestVars
<1> QED BY <1>2, <1>3, <1>4, Facts

-----------------------------------------------------------------------------
(* Where `next` leads.                                                      *)

(* The rows of the pages before the current one. *)
Read == (page - 1) * PageSize

(* Nothing has taken rows out of the current list. *)
Steady ==
    /\ Undisturbed({"deleted", "changed"})
    /\ Head(walk).list = "upcoming" => Undisturbed({"shifted"})

(* A page that was offered has rows, and a COUNT is not ahead of the list.  *)
NextInv ==
    Steady =>
        /\ pc = "count" /\ page > 1 => Cardinality(Matches(Head(walk), clock)) > Read
        /\ pc = "slice" => count <= Cardinality(Matches(Head(walk), clock))
        /\ pc # "missing"

(* While the list grows, it keeps. *)
LEMMA ListGrows ==
    ASSUME WalkInv, WalkInv', NextInv, UNCHANGED <<walk, page, pc, count>>,
           disturbed \subseteq disturbed',
           Steady' => Matches(Head(walk), clock) \subseteq Matches(Head(walk), clock)'
    PROVE  NextInv'
<1> SUFFICES ASSUME Steady' PROVE NextInv'
  BY DEF NextInv
<1> DEFINE S == Matches(Head(walk), clock)
<1>1. Steady
  BY DEF Steady, Undisturbed
<1>2. IsFiniteSet(S') /\ Cardinality(S') \in Nat
  <2>1. S' \in SUBSET rows' /\ IsFiniteSet(rows')
    BY DEF Matches, WalkInv
  <2> QED BY <2>1, FS_Subset, FS_CardinalityType
<1>3. Cardinality(S) <= Cardinality(S') /\ Cardinality(S) \in Nat
  BY <1>2, FS_Subset, FS_CardinalityType
<1>4. Read' = Read /\ Read \in Nat /\ page \in Nat \ {0} /\ count \in Nat
  BY PageEnds DEF Read, WalkInv, TypeOK
<1>5. (Head(walk))' = Head(walk)
  OBVIOUS
<1> QED BY <1>1, <1>2, <1>3, <1>4, <1>5 DEF NextInv

LEMMA NextCount == ASSUME WalkInv, NextInv, Count PROVE NextInv'
<1> SUFFICES ASSUME Steady' PROVE NextInv'
  BY DEF NextInv
<1> DEFINE c == Cardinality(Matches(Head(walk), clock))
<1>1. /\ pc = "count" /\ count' = c
      /\ UNCHANGED <<rows, clock, walk, page, disturbed>>
      /\ pc' = IF page > NumPages(c) THEN "missing" ELSE "slice"
  BY DEF Count
<1>2. Steady
  BY <1>1 DEF Steady, Undisturbed
<1>3. c \in Nat /\ page \in Nat \ {0}
  BY Facts DEF WalkInv, TypeOK
<1>4. c = Cardinality(Matches(Head(walk), clock))'
  BY <1>1 DEF Matches
<1>5. page > 1 => c > Read
  BY <1>1, <1>2 DEF NextInv
<1> HIDE DEF c
<1>6. page <= NumPages(c)
  <2>1. NumPages(c) \in Nat \ {0}
    BY <1>3, Pages
  <2>2. CASE page > 1
    <3>1. page - 1 \in Nat \ {0} /\ (page - 1) * PageSize < c /\ (page - 1) * PageSize \in Nat
      BY <1>3, <1>5, <2>2, PageEnds DEF Read
    <3>2. page - 1 < NumPages(c)
      BY <1>3, <2>1, <3>1, Pages
    <3> QED BY <1>3, <2>1, <3>2
  <2> QED BY <1>3, <2>1, <2>2
<1> QED BY <1>1, <1>3, <1>4, <1>6, Pages DEF NextInv

LEMMA NextFetch == ASSUME WalkInv, NextInv, Fetch PROVE NextInv'
<1> SUFFICES ASSUME Steady' PROVE NextInv'
  BY DEF NextInv
<1>1. pc = "slice" /\ rows' = rows /\ clock' = clock /\ disturbed \subseteq disturbed'
  BY DEF Fetch
<1>2. CASE page < NumPages(count)
  <2>1. page' = page + 1 /\ pc' = "count" /\ walk' = walk
    BY <1>2 DEF Fetch
  <2>2. Steady
    BY <1>1, <2>1 DEF Steady, Undisturbed
  <2>3. count <= Cardinality(Matches(Head(walk), clock))
    BY <1>1, <2>2 DEF NextInv
  <2>4. page \in Nat \ {0} /\ count \in Nat /\ Cardinality(Matches(Head(walk), clock)) \in Nat
    BY Facts DEF WalkInv, TypeOK
  <2>5. page * PageSize < count /\ page * PageSize \in Nat /\ Read' = page * PageSize
    <3>1. Read' = (page + 1 - 1) * PageSize /\ page + 1 - 1 = page
      BY <2>1, <2>4 DEF Read
    <3> QED BY <1>2, <2>4, <3>1, Pages, PageEnds
  <2>6. Cardinality(Matches(Head(walk), clock))' = Cardinality(Matches(Head(walk), clock))
    BY <1>1, <2>1 DEF Matches
  <2> QED BY <2>1, <2>3, <2>4, <2>5, <2>6 DEF NextInv
<1>3. CASE ~(page < NumPages(count))
  <2>1. page' = 1 /\ pc' \in {"count", "done"}
    BY <1>3 DEF Fetch
  <2> QED BY <2>1 DEF NextInv
<1> QED BY <1>2, <1>3

LEMMA NextTick == ASSUME WalkInv, WalkInv', NextInv, Tick PROVE NextInv'
<1> DEFINE q == Head(walk)
<1>1. /\ clock \in Int /\ clock' \in Int /\ clock' = clock + 1 /\ q \in Query
      /\ rows' = rows /\ walk' = walk
  BY TickFacts, Facts
<1>2. Matches(q, clock)' = Matches(q, clock')
  BY <1>1 DEF Matches
<1>3. ASSUME Steady' PROVE Matches(q, clock) \subseteq Matches(q, clock')
  <2>1. CASE q.list = "upcoming"
    <3>1. "shifted" \notin disturbed'
      BY <1>1, <1>3, <2>1 DEF Steady, Undisturbed
    <3>2. \A r \in rows : r.starts # clock /\ r.starts \in Int
      BY <2>1, <3>1, QuietTick, Facts
    <3>3. \A r \in rows : ~(clock <= r.starts /\ r.starts < clock')
      BY <1>1, <3>2
    <3> QED BY <1>1, <3>3, TimePasses
  <2>2. CASE q.list # "upcoming"
    <3>1. q.list \in {"events", "mine", "past"}
      BY <1>1, <2>2 DEF Query
    <3> QED BY <1>1, <3>1, TimePasses
  <2> QED BY <2>1, <2>2
<1> QED BY <1>2, <1>3, ListGrows, TickFacts

LEMMA NextWrite == ASSUME WalkInv, WalkInv', NextInv, Create \/ Delete \/ Patch PROVE NextInv'
<1>1. CASE Delete \/ Patch
  BY <1>1, WriteFacts DEF NextInv, Steady, Undisturbed
<1>2. CASE Create
  <2>1. Matches(Head(walk), clock) \subseteq Matches(Head(walk), clock)'
    BY <1>2, WriteFacts DEF Matches
  <2> QED BY <2>1, ListGrows, WriteFacts
<1> QED BY <1>1, <1>2

(* Following `next` is answered 404 only if rows were deleted or changed    *)
(* since, or, in scope=upcoming, started.                                   *)
THEOREM NextIsThere == Spec => []NextLeadsSomewhere
<1>1. Init => NextInv
  BY DEF Init, Begin, NextInv
<1>2. WalkInv /\ WalkInv' /\ NextInv /\ [Next]_vars => NextInv'
  <2> SUFFICES ASSUME WalkInv, WalkInv', NextInv, [Next]_vars PROVE NextInv'
    OBVIOUS
  <2>1. CASE UNCHANGED vars
    BY <2>1 DEF vars, NextInv, Steady, Undisturbed, Matches, Read
  <2> QED BY <2>1, NextCount, NextFetch, NextTick, NextWrite DEF Next
<1>3. NextInv => NextLeadsSomewhere
  BY DEF NextInv, Steady, NextLeadsSomewhere, Undisturbed
<1> QED BY <1>1, <1>2, <1>3, InitWalk, WalkStep, PTL DEF Spec

-----------------------------------------------------------------------------
(* Between a page's two statements. *)

(* The moment the current page is of. *)
Moment == IF pc = "slice" THEN now ELSE clock

(* A row that has not started is in the same scopes for both statements.    *)
ScopesHold ==
    pc = "slice" /\ Undisturbed({"created in between", "changed"}) =>
        \A r \in rows : \A q \in Range(walk) :
            r.id \notin started => (InScope(r, q.list, now) <=> InScope(r, q.list, clock))

LEMMA Queries ==
    ASSUME NEW w \in Seq(Query), w # <<>>
    PROVE  /\ Head(w) = w[1] /\ Head(w) \in Range(w) /\ Range(w) \subseteq Query
           /\ Range(w) = {Head(w)} \cup Range(Tail(w))
           /\ Len(Tail(w)) = Len(w) - 1 /\ \A k \in 1..Len(Tail(w)) : Tail(w)[k] = w[k + 1]
<1>1. /\ Len(w) \in Nat \ {0} /\ Head(w) = w[1] /\ Tail(w) \in Seq(Query)
      /\ Len(Tail(w)) = Len(w) - 1 /\ \A k \in 1..Len(Tail(w)) : Tail(w)[k] = w[k + 1]
  BY HeadTailProperties
<1>2. DOMAIN w = 1..Len(w) /\ DOMAIN Tail(w) = 1..Len(Tail(w)) /\ \A k \in 1..Len(w) : w[k] \in Query
  BY <1>1
<1>3. Head(w) \in Range(w) /\ Range(w) \subseteq Query
  BY <1>1, <1>2 DEF Range
<1>4. Range(Tail(w)) \subseteq Range(w)
  BY <1>1, <1>2 DEF Range
<1>5. ASSUME NEW q \in Range(w), q # Head(w) PROVE q \in Range(Tail(w))
  <2>1. PICK k \in 1..Len(w) : w[k] = q
    BY <1>2 DEF Range
  <2>2. k # 1 /\ k - 1 \in 1..Len(Tail(w)) /\ Tail(w)[k - 1] = w[(k - 1) + 1] /\ (k - 1) + 1 = k
    BY <1>1, <1>5, <2>1
  <2> QED BY <1>2, <2>1, <2>2 DEF Range
<1> QED BY <1>1, <1>3, <1>4, <1>5

(* A tick takes only rows that start in or out of a scope. *)
LEMMA TickScope ==
    ASSUME WalkInv, Tick, NEW r \in rows, NEW q \in Range(walk), r.id \notin started'
    PROVE  InScope(r, q.list, clock) <=> InScope(r, q.list, clock')
<1>1. clock \in Int /\ clock' = clock + 1 /\ r.starts \in Int
  BY Facts, TickFacts
<1>2. CASE q.list = "mine"
  BY <1>2 DEF InScope
<1>3. CASE q.list # "mine"
  <2>1. r.starts # clock
    BY <1>3 DEF Tick, IdsOf
  <2> QED BY <1>1, <2>1 DEF InScope
<1> QED BY <1>2, <1>3

LEMMA ScopesStep == ASSUME WalkInv, ScopesHold, [Next]_vars PROVE ScopesHold'
<1> SUFFICES ASSUME (pc = "slice")', Undisturbed({"created in between", "changed"})',
                    NEW r \in rows', NEW q \in Range(walk'), r.id \notin started'
             PROVE  InScope(r, q.list, now') <=> InScope(r, q.list, clock')
  BY DEF ScopesHold, InScope
<1>1. CASE UNCHANGED vars
  BY <1>1 DEF vars, ScopesHold, Undisturbed
<1>2. CASE Count
  BY <1>2 DEF Count
<1>3. CASE Fetch
  BY <1>3 DEF Fetch
<1>4. CASE Create \/ Delete \/ Patch
  <2>1. Delete /\ r \in rows /\ UNCHANGED <<clock, now, walk, pc, started>>
        /\ Undisturbed({"created in between", "changed"})
    BY <1>4, WriteFacts DEF Undisturbed
  <2> QED BY <2>1 DEF ScopesHold
<1>5. CASE Tick
  <2>1. /\ rows' = rows /\ walk' = walk /\ now' = now /\ pc' = pc /\ r.id \notin started
        /\ Undisturbed({"created in between", "changed"})
    BY <1>5, TickFacts DEF Undisturbed
  <2>2. InScope(r, q.list, now) <=> InScope(r, q.list, clock)
    BY <2>1 DEF ScopesHold
  <2> QED BY <1>5, <2>1, <2>2, TickScope
<1> QED BY <1>1, <1>2, <1>3, <1>4, <1>5 DEF Next

-----------------------------------------------------------------------------
(* Nothing is missed. *)
MissCauses == {"created in between", "deleted", "changed", "shifted", "tied"}

(* The COUNT of a page is still that of its SELECT, and what the SELECT     *)
(* lists is still listed.                                                   *)
PageHolds ==
    pc = "slice" /\ Undisturbed(MissCauses) =>
        /\ count = Cardinality(Matches(Head(walk), now))
        /\ Matches(Head(walk), now) \subseteq Matches(Head(walk), clock)

(* A row still to be shown is in a list still to be read, and not on the    *)
(* pages that have been.                                                    *)
Waiting(r) ==
    /\ \E q \in Range(walk) : r \in Matches(q, Moment)
    /\ r \in Matches(Head(walk), Moment) => Places(Head(walk), Moment, r) >= Read

MissInv ==
    pc # "missing" /\ Undisturbed(MissCauses) =>
        \A i \in there \ (shown \cup started) : \E r \in rows : r.id = i /\ Waiting(r)

(* Where no row moves by starting, the order stays and lists lose nothing.  *)
LEMMA TickLists ==
    ASSUME WalkInv, Tick, "shifted" \notin disturbed', NEW q, q = Head(walk)
    PROVE  /\ \A x, r \in rows : Before(x, r, q.list)' = Before(x, r, q.list)
           /\ Matches(q, clock) \subseteq Matches(q, clock')
<1>1. /\ clock \in Int /\ clock' \in Int /\ clock' = clock + 1 /\ q \in Query
      /\ \A r \in rows : r.starts \in Int
  BY Facts, TickFacts
<1>2. CASE q.list \in {"events", "upcoming"}
  <2>1. \A r \in rows : r.starts # clock
    BY <1>2, QuietTick
  <2>2. \A r \in rows : ~(clock <= r.starts /\ r.starts < clock') /\ IsPast(r)' = IsPast(r)
    BY <1>1, <2>1 DEF IsPast
  <2> QED BY <1>1, <2>2, TimePasses DEF Before
<1>3. CASE q.list \in {"mine", "past"}
  BY <1>1, <1>3, TimePasses DEF Before
<1> QED BY <1>1, <1>2, <1>3 DEF Query

LEMMA PageHoldsStep == ASSUME WalkInv, PageHolds, [Next]_vars PROVE PageHolds'
<1> SUFFICES ASSUME (pc = "slice")', Undisturbed(MissCauses)'
             PROVE  /\ count' = Cardinality(Matches(Head(walk), now))'
                    /\ Matches(Head(walk), now)' \subseteq Matches(Head(walk), clock)'
  BY DEF PageHolds
<1>1. CASE UNCHANGED vars
  BY <1>1 DEF vars, PageHolds, Undisturbed, Matches
<1>2. CASE Count
  BY <1>2 DEF Count, Matches
<1>3. CASE Fetch
  BY <1>3 DEF Fetch
<1>4. CASE Create \/ Delete \/ Patch
  BY <1>4, WriteFacts DEF Undisturbed, MissCauses
<1>5. CASE Tick
  <2>1. /\ rows' = rows /\ walk' = walk /\ now' = now /\ pc' = pc /\ count' = count
        /\ Undisturbed(MissCauses) /\ "shifted" \notin disturbed'
    BY <1>5, TickFacts DEF Undisturbed, MissCauses
  <2>2. /\ count = Cardinality(Matches(Head(walk), now))
        /\ Matches(Head(walk), now) \subseteq Matches(Head(walk), clock)
        /\ Matches(Head(walk), clock) \subseteq Matches(Head(walk), clock')
    BY <1>5, <2>1, TickLists DEF PageHolds
  <2>3. /\ Matches(Head(walk), now)' = Matches(Head(walk), now)
        /\ Matches(Head(walk), clock)' = Matches(Head(walk), clock')
    BY <2>1 DEF Matches
  <2> QED BY <2>1, <2>2, <2>3
<1> QED BY <1>1, <1>2, <1>3, <1>4, <1>5 DEF Next

LEMMA InitMiss == Init => MissInv
<1> SUFFICES ASSUME Init, NEW i \in there PROVE \E r \in rows : r.id = i /\ Waiting(r)
  BY DEF MissInv
<1>1. PICK plan \in Plans : Begin(plan)
  BY DEF Init
<1>2. PICK q \in Range(walk) : \E r \in Matches(q, clock) : r.id = i
  BY <1>1 DEF Begin, IdsOf
<1>3. PICK r \in Matches(q, clock) : r.id = i
  BY <1>2
<1>5. Places(Head(walk), Moment, r) \in Nat /\ r \in rows
  BY <1>3, InitWalk, Facts DEF Matches
<1>4. Moment = clock /\ Read = 0
  BY <1>1, PageEnds, PageSizeAssumption DEF Begin, Moment, Read
<1> QED BY <1>2, <1>3, <1>4, <1>5 DEF Waiting

(* A step that leaves the reader where it is keeps a row waiting if the     *)
(* lists and the rows ahead only grow.                                      *)
LEMMA StillWaiting ==
    ASSUME WalkInv, WalkInv', UNCHANGED <<walk, page>>, walk # <<>>,
           NEW r \in rows, Waiting(r),
           \A q \in Range(walk) : r \in Matches(q, Moment) <=> r \in Matches(q, Moment)',
           Ahead(Head(walk), Moment, r) \subseteq Ahead(Head(walk), Moment, r)'
    PROVE  Waiting(r)'
<1>1. walk \in Seq(Query) /\ page \in Nat \ {0}
  BY DEF WalkInv, TypeOK
<1> DEFINE h == Head(walk)  n == Places(h, Moment, r)
<1>2. h \in Range(walk)
  BY <1>1, Queries
<1>3. n \in Nat /\ n' \in Nat /\ n <= n'
  <2>1. Ahead(h, Moment, r)' \in SUBSET rows' /\ IsFiniteSet(rows')
    BY DEF Ahead, Matches, WalkInv
  <2>2. IsFiniteSet(Ahead(h, Moment, r)') /\ n' \in Nat
    BY <2>1, FS_Subset, FS_CardinalityType DEF Places
  <2>3. n <= n'
    BY <2>2, FS_Subset DEF Places
  <2> QED BY <2>2, <2>3, Facts
<1>5. Read \in Nat /\ Read' = Read
  BY <1>1, PageEnds DEF Read
<1> QED BY <1>2, <1>3, <1>5 DEF Waiting

LEMMA TickMiss == ASSUME WalkInv, WalkInv', MissInv, Tick PROVE MissInv'
<1> SUFFICES ASSUME (pc # "missing")', Undisturbed(MissCauses)',
                    NEW i \in (there \ (shown \cup started))'
             PROVE  \E r \in rows' : r.id = i /\ Waiting(r)'
  BY DEF MissInv
<1>1. /\ Undisturbed(MissCauses) /\ "shifted" \notin disturbed'
      /\ pc' = pc /\ i \in there \ (shown \cup started) /\ i \notin started'
      /\ rows' = rows /\ walk' = walk /\ page' = page /\ now' = now /\ walk # <<>>
  BY TickFacts DEF Undisturbed, MissCauses
<1>2. PICK r \in rows : r.id = i /\ Waiting(r)
  BY <1>1 DEF MissInv
<1>3. ASSUME NEW q \in Range(walk)
      PROVE  r \in Matches(q, Moment) <=> r \in Matches(q, Moment)'
  <2>1. InScope(r, q.list, clock) <=> InScope(r, q.list, clock')
    BY <1>1, <1>2, TickScope
  <2>2. Moment' = Moment \/ (Moment = clock /\ Moment' = clock')
    BY <1>1 DEF Moment
  <2> QED BY <1>1, <2>1, <2>2 DEF Matches
<1>4. PICK h : h = Head(walk)
  OBVIOUS
<1>5. Ahead(h, Moment, r) \subseteq Ahead(h, Moment, r)'
  <2>1. /\ \A x \in rows : Before(x, r, h.list)' = Before(x, r, h.list)
        /\ Matches(h, clock) \subseteq Matches(h, clock')
    BY <1>1, <1>4, TickLists
  <2>2. Matches(h, Moment) \subseteq Matches(h, Moment)'
    <3>1. Moment' = Moment \/ (Moment = clock /\ Moment' = clock')
      BY <1>1 DEF Moment
    <3>2. Matches(h, Moment)' = Matches(h, Moment')
      BY <1>1 DEF Matches
    <3> QED BY <2>1, <3>1, <3>2
  <2>3. Matches(h, Moment) \subseteq rows
    BY DEF Matches
  <2> QED BY <2>1, <2>2, <2>3 DEF Ahead
<1> QED BY <1>1, <1>2, <1>3, <1>4, <1>5, StillWaiting

LEMMA WriteMiss == ASSUME WalkInv, WalkInv', MissInv, Create \/ Delete \/ Patch PROVE MissInv'
<1> SUFFICES ASSUME Undisturbed(MissCauses)', NEW i \in (there \ (shown \cup started))'
             PROVE  \E r \in rows' : r.id = i /\ Waiting(r)'
  BY DEF MissInv
<1>1. /\ Create /\ rows \subseteq rows' /\ Undisturbed(MissCauses) /\ pc = "count"
      /\ pc' = pc /\ i \in there \ (shown \cup started) /\ clock' = clock
      /\ walk' = walk /\ page' = page /\ walk # <<>>
  BY WriteFacts DEF Undisturbed, MissCauses
<1>2. PICK r \in rows : r.id = i /\ Waiting(r)
  BY <1>1 DEF MissInv
<1>3. \A q : Matches(q, Moment) \subseteq Matches(q, Moment)'
  BY <1>1 DEF Matches, Moment
<1>4. \A q : r \in Matches(q, Moment) <=> r \in Matches(q, Moment)'
  BY <1>1, <1>2 DEF Matches, Moment
<1>5. Ahead(Head(walk), Moment, r) \subseteq Ahead(Head(walk), Moment, r)'
  BY <1>1, <1>3 DEF Ahead, Before, IsPast
<1> QED BY <1>1, <1>2, <1>4, <1>5, StillWaiting

LEMMA CountMiss == ASSUME WalkInv, WalkInv', MissInv, Count PROVE MissInv'
<1> SUFFICES ASSUME Undisturbed(MissCauses)', NEW i \in (there \ (shown \cup started))'
             PROVE  \E r \in rows' : r.id = i /\ Waiting(r)'
  BY DEF MissInv
<1>1. /\ Undisturbed(MissCauses) /\ pc = "count" /\ i \in there \ (shown \cup started)
      /\ UNCHANGED <<rows, clock, walk, page>> /\ pc' \in {"slice", "missing"} /\ now' = clock
  BY DEF Count, Undisturbed
<1>2. PICK r \in rows : r.id = i /\ Waiting(r)
  BY <1>1 DEF MissInv
<1>3. walk # <<>> /\ Moment' = Moment
  BY <1>1, Facts DEF Walking, Moment
<1>4. /\ \A q : r \in Matches(q, Moment) <=> r \in Matches(q, Moment)'
      /\ Ahead(Head(walk), Moment, r) \subseteq Ahead(Head(walk), Moment, r)'
  BY <1>1, <1>3 DEF Ahead, Matches, Before, IsPast
<1> QED BY <1>1, <1>2, <1>3, <1>4, StillWaiting

(* What Fetch shows and where it leaves the reader. *)
LEMMA FetchFacts ==
    ASSUME WalkInv, Fetch, NEW h, h = Head(walk)
    PROVE  /\ pc = "slice" /\ walk \in Seq(Query) /\ walk # <<>> /\ h \in Range(walk)
           /\ UNCHANGED <<rows, clock, there, started>> /\ disturbed \subseteq disturbed'
           /\ Tied(Matches(h, now), h.list) => "tied" \in disturbed'
           /\ \E s \in Orders(Matches(h, now), h.list) :
                 /\ shown' = shown \cup IdsOf(Slice(s, page, count))
                 /\ repeated' = repeated \cup (shown \cap IdsOf(Slice(s, page, count)))
           /\ page < NumPages(count) => page' = page + 1 /\ pc' = "count" /\ walk' = walk
           /\ ~(page < NumPages(count)) =>
                 page' = 1 /\ walk' = Tail(walk) /\ pc' = IF walk' = <<>> THEN "done" ELSE "count"
<1>1. pc = "slice" /\ walk \in Seq(Query) /\ walk # <<>>
  BY DEF Fetch, WalkInv, TypeOK
<1>2. h \in Range(walk)
  BY <1>1, Queries
<1> QED BY <1>1, <1>2 DEF Fetch

(* A row the page did not show is on a later one, or of a later list. *)
LEMMA StaysWaiting ==
    ASSUME WalkInv, ScopesHold, PageHolds, Undisturbed(MissCauses)', Fetch,
           NEW r \in rows, Waiting(r), r.id \notin started, r.id \notin shown'
    PROVE  Waiting(r)'
<1> DEFINE P == page * PageSize
<1>0. PICK h : h = Head(walk)
  OBVIOUS
<1> DEFINE S == Matches(h, now)  k == Places(h, now, r)
<1>1. /\ pc = "slice" /\ walk \in Seq(Query) /\ walk # <<>> /\ h \in Range(walk)
      /\ rows' = rows /\ clock' = clock /\ ~Tied(S, h.list)
      /\ Undisturbed(MissCauses) /\ Undisturbed({"created in between", "changed"})
  BY <1>0, FetchFacts DEF Undisturbed, MissCauses
<1>2. PICK s \in Orders(S, h.list) : shown' = shown \cup IdsOf(Slice(s, page, count))
  BY <1>0, FetchFacts
<1>3. r \notin Slice(s, page, count)
  BY <1>2 DEF IdsOf
<1>4. Moment = now /\ Moment' = clock
  <2>1. pc' # "slice"
    BY <1>0, FetchFacts
  <2> QED BY <1>1, <2>1 DEF Moment
<1>5. /\ \E q \in Range(walk) : r \in Matches(q, now)
      /\ r \in S => k >= Read
  BY <1>0, <1>4 DEF Waiting
<1>6. \A q \in Range(walk) : r \in Matches(q, now) <=> r \in Matches(q, clock)
  BY <1>1 DEF ScopesHold, Matches
<1>7. \A q, t : Matches(q, t)' = Matches(q, t)
  BY <1>1 DEF Matches
<1>8. IsFiniteSet(S) /\ k \in Nat /\ page \in Nat \ {0} /\ count \in Nat /\ count = Cardinality(S)
      /\ S \subseteq Matches(h, clock)
  BY <1>0, <1>1, Facts DEF PageHolds, WalkInv, TypeOK
<1>9. P \in Nat /\ Read \in Nat /\ P = Read + PageSize
  BY <1>8, PageEnds DEF Read
<1>10. r \in S =>
         k < count /\ (r \in Slice(s, page, count) <=> Read <= k /\ k < P /\ k < count)
  BY <1>1, <1>2, <1>8, PageShows DEF Read
<1>11. CASE page < NumPages(count)
  <2>1. page' = page + 1 /\ walk' = walk
    BY <1>0, <1>11, FetchFacts
  <2>2. P < count /\ Read' = P
    <3>1. Read' = (page + 1 - 1) * PageSize /\ page + 1 - 1 = page
      BY <1>8, <2>1 DEF Read
    <3> QED BY <1>8, <1>11, <3>1, Pages
  <2>3. ASSUME r \in Matches(h, clock) PROVE Places(h, clock, r) >= P
    <3>1. r \in S
      BY <1>1, <1>6, <2>3
    <3>2. k >= P
      BY <1>3, <1>5, <1>8, <1>9, <1>10, <2>2, <3>1
    <3>3. Ahead(h, now, r) \in SUBSET Ahead(h, clock, r)
      BY <1>8 DEF Ahead
    <3>4. k <= Places(h, clock, r)
      BY <3>3, Facts, FS_Subset DEF Places
    <3>5. Places(h, clock, r) \in Nat
      BY Facts
    <3> QED BY <1>8, <1>9, <3>2, <3>4, <3>5
  <2>4. Places(h, clock, r)' = Places(h, clock, r)
    BY <1>1 DEF Places, Ahead, Matches, Before, IsPast
  <2>5. \E q \in Range(walk) : r \in Matches(q, clock)
    BY <1>5, <1>6
  <2>6. r \in Matches(Head(walk), Moment)' => Places(Head(walk), Moment, r)' >= Read'
    <3>1. Matches(Head(walk), Moment)' = Matches(h, clock)
      BY <1>0, <1>1, <1>4, <2>1 DEF Matches
    <3>2. Places(Head(walk), Moment, r)' = Places(h, clock, r)
      BY <1>0, <1>1, <1>4, <2>1 DEF Places, Ahead, Matches, Before, IsPast
    <3> QED BY <2>2, <2>3, <3>1, <3>2
  <2>7. (\E q \in Range(walk) : r \in Matches(q, Moment))'
    <3>1. PICK q \in Range(walk) : r \in Matches(q, clock)
      BY <2>5
    <3>2. r \in Matches(q, Moment)' /\ q \in Range(walk')
      BY <1>1, <1>4, <2>1, <3>1 DEF Matches
    <3> QED BY <3>2
  <2> QED BY <2>6, <2>7 DEF Waiting
<1>12. CASE ~(page < NumPages(count))
  <2>1. page' = 1 /\ walk' = Tail(walk)
    BY <1>0, <1>12, FetchFacts
  <2>2. r \notin S
    <3> SUFFICES ASSUME r \in S PROVE FALSE
      OBVIOUS
    <3>1. P >= count
      <4>1. NumPages(count) \in Nat /\ page >= NumPages(count)
        BY <1>8, <1>12, Pages
      <4> QED BY <1>8, <4>1, Pages
    <3> QED BY <1>3, <1>5, <1>8, <1>9, <1>10, <3>1
  <2>3. PICK q \in Range(Tail(walk)) : r \in Matches(q, clock)
    <3>1. PICK q \in Range(walk) : r \in Matches(q, now)
      BY <1>5
    <3>2. q \in Range(Tail(walk))
      BY <1>0, <1>1, <2>2, <3>1, Queries
    <3> QED BY <1>6, <3>1, <3>2
  <2>4. q \in Range(walk') /\ r \in Matches(q, Moment)'
    BY <1>1, <1>4, <2>1, <2>3 DEF Matches
  <2>5. Places(Head(walk), Moment, r)' >= Read'
    <3>1. Read' = (1 - 1) * PageSize
      BY <2>1 DEF Read
    <3>2. Read' = 0
      BY <3>1, PageSizeAssumption
    <3>3. Ahead(Head(walk), Moment, r)' \in SUBSET rows /\ IsFiniteSet(rows)
      BY <1>1 DEF Ahead, Matches, WalkInv
    <3>4. Places(Head(walk), Moment, r)' \in Nat
      BY <3>3, FS_Subset, FS_CardinalityType DEF Places
    <3> QED BY <3>2, <3>4
  <2> QED BY <2>4, <2>5 DEF Waiting
<1> QED BY <1>11, <1>12

LEMMA FetchMiss == ASSUME WalkInv, ScopesHold, PageHolds, MissInv, Fetch PROVE MissInv'
<1> SUFFICES ASSUME Undisturbed(MissCauses)', NEW i \in (there \ (shown \cup started))'
             PROVE  \E r \in rows' : r.id = i /\ Waiting(r)'
  BY DEF MissInv
<1>1. PICK h : h = Head(walk)
  OBVIOUS
<1>2. /\ pc = "slice" /\ UNCHANGED <<rows, there, started>> /\ Undisturbed(MissCauses)
      /\ i \notin shown' /\ i \in there \ (shown \cup started)
  BY <1>1, FetchFacts DEF Undisturbed
<1>3. PICK r \in rows : r.id = i /\ Waiting(r)
  BY <1>2 DEF MissInv
<1> QED BY <1>2, <1>3, StaysWaiting

LEMMA StutterMiss == ASSUME WalkInv, WalkInv', MissInv, UNCHANGED vars PROVE MissInv'
<1> SUFFICES ASSUME pc # "missing", Undisturbed(MissCauses), NEW i \in there \ (shown \cup started)
             PROVE  \E r \in rows : r.id = i /\ Waiting(r)'
  BY DEF MissInv, vars, Undisturbed
<1>1. PICK r \in rows : r.id = i /\ Waiting(r)
  BY DEF MissInv
<1>2. walk # <<>>
  <2>1. walk = <<>> => Range(walk) = {}
    BY DEF Range
  <2> QED BY <1>1, <2>1 DEF Waiting
<1>3. /\ \A q : r \in Matches(q, Moment) <=> r \in Matches(q, Moment)'
      /\ Ahead(Head(walk), Moment, r) \subseteq Ahead(Head(walk), Moment, r)'
  BY DEF vars, Matches, Moment, Ahead, Before, IsPast
<1> QED BY <1>1, <1>2, <1>3, StillWaiting DEF vars

MissedInv == ScopesHold /\ PageHolds /\ MissInv

(* A walk that is over has shown every row its plan matched when it began,  *)
(* unless rows left the list, tied, or were created between a page's two    *)
(* statements, or the row itself started.                                   *)
THEOREM NoRowIsMissed == Spec => []NothingMissed
<1>1. Init => MissedInv
  <2>1. Init => pc # "slice"
    BY DEF Init, Begin
  <2> QED BY <2>1, InitMiss DEF MissedInv, ScopesHold, PageHolds
<1>2. WalkInv /\ WalkInv' /\ MissedInv /\ [Next]_vars => MissedInv'
  <2> SUFFICES ASSUME WalkInv, WalkInv', MissedInv, [Next]_vars PROVE MissedInv'
    OBVIOUS
  <2>1. MissInv'
    BY CountMiss, FetchMiss, TickMiss, WriteMiss, StutterMiss DEF Next, MissedInv
  <2> QED BY <2>1, ScopesStep, PageHoldsStep DEF MissedInv
<1>3. WalkInv /\ MissedInv => NothingMissed
  <2> SUFFICES ASSUME WalkInv, MissedInv, pc = "done", Undisturbed(MissCauses)
               PROVE  there \ shown \subseteq started
    BY DEF NothingMissed, MissCauses
  <2>1. Range(walk) = {}
    BY DEF WalkInv, TypeOK, Range
  <2> QED BY <2>1 DEF MissedInv, MissInv, Waiting
<1> QED BY <1>1, <1>2, <1>3, InitWalk, WalkStep, PTL DEF Spec

-----------------------------------------------------------------------------
(* Nothing is repeated. *)

RepeatCauses == {"created", "created in between", "changed", "tied"}

(* A row that was shown is in none of the lists to come, and in this one it *)
(* is on a page that has been.                                              *)
Finished(r) ==
    /\ \A k \in 2..Len(walk) : r \notin Matches(walk[k], Moment)
    /\ r \in Matches(Head(walk), Moment) => Places(Head(walk), Moment, r) < Read

RepeatInv ==
    Undisturbed(RepeatCauses) =>
        /\ repeated \subseteq started
        /\ Walking => \A r \in rows : r.id \in shown \ started => Finished(r)

LEMMA ApartStep == WalkInv /\ Apart(walk) /\ [Next]_vars => Apart(walk)'
<1> SUFFICES ASSUME WalkInv, Apart(walk), [Next]_vars PROVE Apart(walk')
  BY DEF Apart, Passes, InScope
<1>1. CASE UNCHANGED walk
  BY <1>1
<1>2. CASE walk \in Seq(Query) /\ walk # <<>> /\ walk' = Tail(walk)
  <2>1. /\ Len(walk) \in Nat /\ Len(walk') = Len(walk) - 1
        /\ \A k \in 1..Len(walk') : walk'[k] = walk[k + 1]
    BY <1>2, Queries
  <2>2. \A k \in 1..Len(walk') : k + 1 \in 1..Len(walk)
    BY <2>1
  <2>3. \A i, j \in 1..Len(walk') : i # j => i + 1 # j + 1
    BY <2>1
  <2> QED BY <2>1, <2>2, <2>3 DEF Apart
<1>3. CASE Fetch
  BY <1>1, <1>2, <1>3, FetchFacts
<1>4. CASE UNCHANGED vars \/ Count \/ Tick \/ Create \/ Delete \/ Patch
  BY <1>1, <1>4, TickFacts, WriteFacts DEF vars, Count
<1> QED BY <1>3, <1>4 DEF Next

(* A row keeps or gives up its place when the clock goes on: what comes     *)
(* into a list comes behind it.                                             *)
LEMMA LaterAhead ==
    ASSUME WalkInv, NEW q \in Query, NEW t \in Int, NEW u \in Int, t <= u,
           NEW r \in Matches(q, t)
    PROVE  Ahead(q, u, r) \subseteq Ahead(q, t, r)
<1>1. /\ \A x \in rows : x.starts \in Int
      /\ q.list \in {"events", "mine", "upcoming", "past"} /\ r \in rows
  BY Facts DEF Query, Matches
<1>2. CASE q.list # "past"
  BY <1>1, <1>2, TimePasses DEF Ahead
<1>3. CASE q.list = "past"
  <2> SUFFICES ASSUME NEW x \in Ahead(q, u, r) PROVE x \in Ahead(q, t, r)
    OBVIOUS
  <2>1. x \in rows /\ Passes(x, q) /\ Before(x, r, q.list)
    BY DEF Ahead, Matches
  <2>2. x.starts < r.starts /\ r.starts < t
    BY <1>3, <2>1 DEF Before, Matches, InScope
  <2>3. x.starts < t
    BY <1>1, <2>1, <2>2
  <2> QED BY <1>3, <2>1, <2>3 DEF Ahead, Matches, InScope
<1> QED BY <1>2, <1>3

(* A row that starts goes behind the others. *)
LEMMA TickBefore ==
    ASSUME WalkInv, Tick, NEW q, q = Head(walk), NEW x \in rows, NEW r \in rows,
           r.id \notin started', Before(x, r, q.list)'
    PROVE  Before(x, r, q.list)
<1>1. /\ clock \in Int /\ clock' = clock + 1 /\ x.starts \in Int /\ r.starts \in Int
      /\ walk \in Seq(Query) /\ walk # <<>>
  BY Facts, TickFacts DEF WalkInv, TypeOK
<1>2. CASE q.list # "events"
  BY <1>2 DEF Before
<1>3. CASE q.list = "events"
  <2>1. q \in Range(walk)
    BY <1>1, Queries
  <2>2. r.starts # clock
    BY <1>3, <2>1 DEF Tick, IdsOf
  <2> QED BY <1>1, <1>3, <2>2 DEF Before, IsPast
<1> QED BY <1>2, <1>3

LEMMA StillFinished ==
    ASSUME WalkInv, WalkInv', UNCHANGED <<walk, page>>, walk # <<>>,
           NEW r, Finished(r),
           \A q \in Range(walk) : r \in Matches(q, Moment)' => r \in Matches(q, Moment),
           r \in Matches(Head(walk), Moment)' =>
              Ahead(Head(walk), Moment, r)' \subseteq Ahead(Head(walk), Moment, r)
    PROVE  Finished(r)'
<1> DEFINE h == Head(walk)  n == Places(h, Moment, r)
<1>1. walk \in Seq(Query) /\ page \in Nat \ {0}
  BY DEF WalkInv, TypeOK
<1>2. h \in Range(walk) /\ \A k \in 2..Len(walk) : walk[k] \in Range(walk)
  <2>1. Len(walk) \in Nat /\ DOMAIN walk = 1..Len(walk)
    BY <1>1
  <2> QED BY <1>1, <2>1, Queries DEF Range
<1>3. IsFiniteSet(Ahead(h, Moment, r)) /\ n \in Nat
  BY Facts
<1>4. r \in Matches(h, Moment)' => n' \in Nat /\ n' <= n
  <2> SUFFICES ASSUME r \in Matches(h, Moment)' PROVE n' \in Nat /\ n' <= n
    OBVIOUS
  <2>1. Ahead(h, Moment, r)' \in SUBSET Ahead(h, Moment, r)
    OBVIOUS
  <2>2. IsFiniteSet(Ahead(h, Moment, r)')
    BY <1>3, <2>1, FS_Subset
  <2> QED BY <1>3, <2>1, <2>2, FS_Subset, FS_CardinalityType DEF Places
<1>5. Read \in Nat /\ Read' = Read
  BY <1>1, PageEnds DEF Read
<1>6. \A k \in 2..Len(walk) : r \notin Matches(walk[k], Moment)'
  BY <1>2 DEF Finished
<1>7. r \in Matches(h, Moment)' => n' < Read'
  BY <1>2, <1>3, <1>4, <1>5 DEF Finished
<1> QED BY <1>6, <1>7 DEF Finished

LEMMA TickRepeat == ASSUME WalkInv, WalkInv', RepeatInv, Tick PROVE RepeatInv'
<1> SUFFICES ASSUME Undisturbed(RepeatCauses)'
             PROVE  /\ repeated' \subseteq started'
                    /\ \A r \in rows' : r.id \in (shown \ started)' => Finished(r)'
  BY DEF RepeatInv
<1>1. /\ Undisturbed(RepeatCauses) /\ started \subseteq started' /\ Walking /\ pc' = pc
      /\ rows' = rows /\ walk' = walk /\ page' = page /\ now' = now /\ walk # <<>>
      /\ repeated' = repeated /\ shown' = shown /\ clock \in Int /\ clock' \in Int /\ clock' = clock + 1
  BY TickFacts, Facts DEF Undisturbed
<1>2. repeated \subseteq started
  BY <1>1 DEF RepeatInv
<1>3. ASSUME NEW r \in rows, r.id \in shown \ started' PROVE Finished(r)'
  <2>1. Finished(r)
    BY <1>1, <1>3 DEF RepeatInv
  <2>2. Moment' = Moment \/ (Moment = clock /\ Moment' = clock')
    BY <1>1 DEF Moment
  <2>3. \A q, t : Matches(q, t)' = Matches(q, t)
    BY <1>1 DEF Matches
  <2>4. ASSUME NEW q \in Range(walk), r \in Matches(q, Moment)' PROVE r \in Matches(q, Moment)
    <3>1. InScope(r, q.list, clock) <=> InScope(r, q.list, clock')
      BY <1>3, TickScope
    <3> QED BY <1>1, <2>2, <2>4, <3>1 DEF Matches
  <2>5. PICK h \in Query : h = Head(walk) /\ h \in Range(walk)
    <3>1. walk \in Seq(Query)
      BY DEF WalkInv, TypeOK
    <3> QED BY <1>1, <3>1, Queries
  <2>6. ASSUME r \in Matches(h, Moment)' PROVE Ahead(h, Moment, r)' \subseteq Ahead(h, Moment, r)
    <3>1. r \in Matches(h, Moment)
      BY <2>4, <2>5, <2>6
    <3> SUFFICES ASSUME NEW x \in Ahead(h, Moment, r)' PROVE x \in Ahead(h, Moment, r)
      OBVIOUS
    <3>2. x \in rows /\ Before(x, r, h.list)' /\ x \in Matches(h, Moment')
      BY <1>1 DEF Ahead, Matches
    <3>3. Before(x, r, h.list)
      BY <1>3, <2>5, <3>2, TickBefore
    <3>4. CASE Moment' = Moment
      BY <3>2, <3>3, <3>4 DEF Ahead
    <3>5. CASE Moment = clock /\ Moment' = clock'
      <4>1. x \in Ahead(h, clock', r)
        BY <3>2, <3>3, <3>5 DEF Ahead
      <4>2. r \in Matches(h, clock) /\ clock <= clock'
        BY <1>1, <3>1, <3>5
      <4> QED BY <1>1, <3>5, <4>1, <4>2, LaterAhead
    <3> QED BY <2>2, <3>4, <3>5
  <2>7. r \in Matches(Head(walk), Moment)' =>
           Ahead(Head(walk), Moment, r)' \subseteq Ahead(Head(walk), Moment, r)
    BY <1>1, <2>5, <2>6 DEF Ahead, Matches, Before, IsPast
  <2> QED BY <1>1, <2>1, <2>4, <2>7, StillFinished
<1> QED BY <1>1, <1>2, <1>3

LEMMA WriteRepeat == ASSUME WalkInv, WalkInv', RepeatInv, Create \/ Delete \/ Patch PROVE RepeatInv'
<1> SUFFICES ASSUME Undisturbed(RepeatCauses)'
             PROVE  /\ repeated' \subseteq started'
                    /\ \A r \in rows' : r.id \in (shown \ started)' => Finished(r)'
  BY DEF RepeatInv
<1>1. /\ Undisturbed(RepeatCauses) /\ started' = started /\ Walking /\ pc' = pc
      /\ rows' \subseteq rows /\ walk' = walk /\ page' = page /\ now' = now /\ walk # <<>>
      /\ repeated' = repeated /\ shown' = shown /\ clock' = clock
  BY WriteFacts DEF Undisturbed, RepeatCauses
<1>2. repeated \subseteq started
  BY <1>1 DEF RepeatInv
<1>3. ASSUME NEW r \in rows', r.id \in shown \ started PROVE Finished(r)'
  <2>1. Finished(r)
    BY <1>1, <1>3 DEF RepeatInv
  <2>2. Moment' = Moment
    BY <1>1 DEF Moment
  <2>3. \A q \in Range(walk) : r \in Matches(q, Moment)' => r \in Matches(q, Moment)
    BY <1>1, <2>2 DEF Matches
  <2>4. Ahead(Head(walk), Moment, r)' \subseteq Ahead(Head(walk), Moment, r)
    BY <1>1, <2>2 DEF Ahead, Matches, Before, IsPast
  <2> QED BY <1>1, <2>1, <2>3, <2>4, StillFinished
<1> QED BY <1>1, <1>2, <1>3

LEMMA CountRepeat == ASSUME WalkInv, WalkInv', RepeatInv, Count PROVE RepeatInv'
<1> SUFFICES ASSUME Undisturbed(RepeatCauses)'
             PROVE  /\ repeated' \subseteq started'
                    /\ Walking' => \A r \in rows' : r.id \in (shown \ started)' => Finished(r)'
  BY DEF RepeatInv
<1>1. /\ Undisturbed(RepeatCauses) /\ Walking /\ pc = "count"
      /\ UNCHANGED <<rows, walk, page, repeated, shown, clock, started>>
      /\ now' = clock /\ pc' \in {"slice", "missing"}
  BY DEF Count, Undisturbed, Walking
<1>2. repeated \subseteq started
  BY <1>1 DEF RepeatInv
<1>3. ASSUME NEW r \in rows, r.id \in shown \ started PROVE Finished(r)'
  <2>1. Finished(r)
    BY <1>1, <1>3 DEF RepeatInv
  <2>2. Moment' = Moment /\ walk # <<>>
    BY <1>1, Facts DEF Moment
  <2>3. \A q \in Range(walk) : r \in Matches(q, Moment)' => r \in Matches(q, Moment)
    BY <1>1, <2>2 DEF Matches
  <2>4. Ahead(Head(walk), Moment, r)' \subseteq Ahead(Head(walk), Moment, r)
    BY <1>1, <2>2 DEF Ahead, Matches, Before, IsPast
  <2> QED BY <1>1, <2>1, <2>2, <2>3, <2>4, StillFinished
<1> QED BY <1>1, <1>2, <1>3

LEMMA StutterRepeat == ASSUME WalkInv, WalkInv', RepeatInv, UNCHANGED vars PROVE RepeatInv'
<1> SUFFICES ASSUME Undisturbed(RepeatCauses)
             PROVE  /\ repeated' \subseteq started'
                    /\ Walking => \A r \in rows : r.id \in (shown \ started) => Finished(r)'
  BY DEF RepeatInv, vars, Undisturbed, Walking
<1>1. repeated \subseteq started /\ UNCHANGED <<repeated, started>>
  BY DEF RepeatInv, vars
<1>2. ASSUME Walking, NEW r \in rows, r.id \in shown \ started PROVE Finished(r)'
  <2>1. Finished(r) /\ walk # <<>> /\ UNCHANGED <<walk, page>>
    BY <1>2, Facts DEF RepeatInv, vars
  <2>2. /\ \A q \in Range(walk) : r \in Matches(q, Moment)' => r \in Matches(q, Moment)
        /\ Ahead(Head(walk), Moment, r)' \subseteq Ahead(Head(walk), Moment, r)
    BY DEF vars, Matches, Moment, Ahead, Before, IsPast
  <2> QED BY <2>1, <2>2, StillFinished
<1> QED BY <1>1, <1>2

(* A row the page did show is on it, or before it. *)
LEMMA PageFinishes ==
    ASSUME WalkInv, Apart(walk), Fetch, NEW h, h = Head(walk), ~Tied(Matches(h, now), h.list),
           NEW s \in Orders(Matches(h, now), h.list), NEW r \in rows,
           r.id \in IdsOf(Slice(s, page, count)) \/ Finished(r)
    PROVE  /\ \A k \in 2..Len(walk) : r \notin Matches(walk[k], now)
           /\ r \in Matches(h, now) => Places(h, now, r) < page * PageSize
<1> DEFINE S == Matches(h, now)
<1>1. pc = "slice" /\ walk \in Seq(Query) /\ walk # <<>> /\ Moment = now /\ h = walk[1]
  BY FetchFacts, Queries DEF Moment
<1>2. page \in Nat \ {0} /\ count \in Nat /\ IsFiniteSet(S) /\ now \in Time
  BY Facts DEF WalkInv, TypeOK
<1>3. page * PageSize \in Nat /\ Read \in Nat /\ page * PageSize = Read + PageSize
  BY <1>2, PageEnds DEF Read
<1>4. CASE Finished(r)
  <2>1. r \in S => Places(h, now, r) < Read
    BY <1>1, <1>4 DEF Finished
  <2>2. Places(h, now, r) \in Nat
    BY Facts
  <2> QED BY <1>1, <1>3, <1>4, <2>1, <2>2, PageSizeAssumption DEF Finished
<1>5. CASE r.id \in IdsOf(Slice(s, page, count))
  <2>1. r \in Slice(s, page, count) /\ r \in S
    <3>1. PICK x \in Slice(s, page, count) : x.id = r.id
      BY <1>5 DEF IdsOf
    <3>2. x \in S /\ x \in rows
      BY PageIsOfList DEF Matches
    <3> QED BY <3>1, <3>2 DEF WalkInv, TypeOK
  <2>2. Places(h, now, r) < page * PageSize
    BY <1>2, <2>1, PageShows
  <2>3. ASSUME NEW k \in 2..Len(walk) PROVE r \notin Matches(walk[k], now)
    <3>1. 1 \in 1..Len(walk) /\ k \in 1..Len(walk) /\ k # 1
      BY <1>1, <2>3
    <3>2. r \in Row
      BY DEF WalkInv, TypeOK
    <3> QED BY <1>1, <1>2, <2>1, <3>1, <3>2 DEF Apart, Matches
  <2> QED BY <2>2, <2>3
<1> QED BY <1>4, <1>5

LEMMA FetchRepeat ==
    ASSUME WalkInv, Apart(walk), ScopesHold, RepeatInv, Fetch
    PROVE  RepeatInv'
<1> SUFFICES ASSUME Undisturbed(RepeatCauses)'
             PROVE  /\ repeated' \subseteq started'
                    /\ Walking' => \A r \in rows' : r.id \in (shown \ started)' => Finished(r)'
  BY DEF RepeatInv
<1>0. PICK h : h = Head(walk)
  OBVIOUS
<1> DEFINE S == Matches(h, now)
<1>1. /\ pc = "slice" /\ walk \in Seq(Query) /\ walk # <<>> /\ h \in Range(walk) /\ h \in Query
      /\ UNCHANGED <<rows, clock, started>> /\ ~Tied(S, h.list) /\ Walking
      /\ Undisturbed(RepeatCauses) /\ Undisturbed({"created in between", "changed"})
  BY <1>0, FetchFacts, Facts DEF Undisturbed, RepeatCauses, Walking
<1>2. PICK s \in Orders(S, h.list) :
        /\ shown' = shown \cup IdsOf(Slice(s, page, count))
        /\ repeated' = repeated \cup (shown \cap IdsOf(Slice(s, page, count)))
  BY <1>0, FetchFacts
<1>3. /\ page \in Nat \ {0} /\ count \in Nat /\ IsFiniteSet(S)
      /\ now \in Int /\ clock \in Int /\ now <= clock
  BY <1>1, Facts DEF WalkInv, TypeOK
<1>4. Moment = now /\ Moment' = clock
  <2>1. pc' # "slice"
    BY <1>0, FetchFacts
  <2> QED BY <1>1, <2>1 DEF Moment
<1>5. repeated \subseteq started /\ \A r \in rows : r.id \in shown \ started => Finished(r)
  BY <1>1 DEF RepeatInv
<1>6. ASSUME NEW i \in shown \cap IdsOf(Slice(s, page, count)) PROVE i \in started
  <2> SUFFICES ASSUME i \notin started PROVE FALSE
    OBVIOUS
  <2>1. PICK r \in Slice(s, page, count) : r.id = i
    BY DEF IdsOf
  <2>2. r \in S /\ r \in rows
    BY PageIsOfList DEF Matches
  <2>3. Places(h, now, r) < Read
    BY <1>0, <1>4, <1>5, <2>1, <2>2 DEF Finished
  <2>4. Read <= Places(h, now, r) /\ Places(h, now, r) \in Nat
    BY <1>1, <1>2, <1>3, <2>1, <2>2, PageShows DEF Read
  <2>5. Read \in Nat
    BY <1>3, PageEnds DEF Read
  <2> QED BY <2>3, <2>4, <2>5
<1>7. repeated' \subseteq started'
  BY <1>1, <1>2, <1>5, <1>6
<1>8. ASSUME Walking', NEW r \in rows, r.id \in shown' \ started PROVE Finished(r)'
  <2>1. /\ \A k \in 2..Len(walk) : r \notin Matches(walk[k], now)
        /\ r \in S => Places(h, now, r) < page * PageSize
    BY <1>0, <1>1, <1>2, <1>5, <1>8, PageFinishes
  <2>2. \A q \in Range(walk) : r \in Matches(q, now) <=> r \in Matches(q, clock)
    BY <1>1, <1>8 DEF ScopesHold, Matches
  <2>3. \A k \in 2..Len(walk) : walk[k] \in Range(walk)
    <3>1. DOMAIN walk = 1..Len(walk) /\ Len(walk) \in Nat
      BY <1>1, LenProperties
    <3> QED BY <3>1 DEF Range
  <2>4. \A k \in 2..Len(walk) : r \notin Matches(walk[k], clock)
    BY <2>1, <2>2, <2>3
  <2>5. \A q, t : Matches(q, t)' = Matches(q, t)
    BY <1>1 DEF Matches
  <2>6. CASE page < NumPages(count)
    <3>1. page' = page + 1 /\ walk' = walk
      BY <1>0, <2>6, FetchFacts
    <3>2. Read' = page * PageSize /\ page * PageSize \in Nat
      <4>1. Read' = (page + 1 - 1) * PageSize /\ page + 1 - 1 = page
        BY <1>3, <3>1 DEF Read
      <4> QED BY <1>3, <4>1, PageEnds
    <3>3. ASSUME r \in Matches(h, clock) PROVE Places(h, clock, r) < page * PageSize
      <4>1. r \in S
        BY <1>1, <2>2, <3>3
      <4>2. Ahead(h, clock, r) \in SUBSET Ahead(h, now, r)
        BY <1>1, <1>3, <4>1, LaterAhead
      <4>3. Places(h, clock, r) <= Places(h, now, r)
        BY <4>2, Facts, FS_Subset DEF Places
      <4>4. Places(h, clock, r) \in Nat /\ Places(h, now, r) \in Nat
        BY Facts
      <4> QED BY <2>1, <3>2, <4>1, <4>3, <4>4
    <3>4. Matches(Head(walk), Moment)' = Matches(h, clock)
      BY <1>0, <1>1, <1>4, <3>1 DEF Matches
    <3>5. Places(Head(walk), Moment, r)' = Places(h, clock, r)
      BY <1>0, <1>1, <1>4, <3>1 DEF Places, Ahead, Matches, Before, IsPast
    <3>6. \A k \in 2..Len(walk') : r \notin Matches(walk[k], Moment)'
      BY <1>1, <1>4, <2>4, <3>1 DEF Matches
    <3> QED BY <3>2, <3>3, <3>4, <3>5, <3>6 DEF Finished
  <2>7. CASE ~(page < NumPages(count))
    <3>1. walk' = Tail(walk) /\ pc' = IF walk' = <<>> THEN "done" ELSE "count"
      BY <1>0, <2>7, FetchFacts
    <3>2. walk' # <<>> /\ walk' \in Seq(Query)
      BY <1>1, <1>8, <3>1, Facts DEF Walking
    <3>3. /\ Len(walk') = Len(walk) - 1 /\ Len(walk) \in Nat /\ Len(walk') \in Nat \ {0}
          /\ \A k \in 1..Len(walk') : walk'[k] = walk[k + 1]
      <4>1. /\ Len(walk') = Len(walk) - 1 /\ \A k \in 1..Len(walk') : walk'[k] = walk[k + 1]
        BY <1>1, <3>1, Queries
      <4>2. Len(walk') \in Nat /\ Len(walk') # 0
        BY <3>2, EmptySeq
      <4>3. Len(walk) \in Nat
        BY <1>1, LenProperties
      <4> QED BY <4>1, <4>2, <4>3
    <3>4. \A k \in 1..Len(walk') : r \notin Matches(walk'[k], clock)
      <4> SUFFICES ASSUME NEW k \in 1..Len(walk') PROVE r \notin Matches(walk[k + 1], clock)
        BY <3>3
      <4>1. k + 1 \in 2..Len(walk)
        BY <3>3
      <4> QED BY <2>4, <4>1
    <3>5. Head(walk') = walk'[1]
      BY <3>2, Queries
    <3>6. r \notin Matches(Head(walk), Moment)'
      <4>1. r \notin Matches(walk'[1], clock)
        BY <3>3, <3>4
      <4> QED BY <1>1, <1>4, <3>5, <4>1 DEF Matches
    <3>7. \A k \in 2..Len(walk') : r \notin Matches(walk[k], Moment)'
      <4>1. \A k \in 2..Len(walk') : k \in 1..Len(walk')
        BY <3>3
      <4>2. \A k \in 2..Len(walk') : r \notin Matches(walk'[k], clock)
        BY <3>4, <4>1
      <4> QED BY <1>1, <1>4, <4>2 DEF Matches
    <3> QED BY <3>6, <3>7 DEF Finished
  <2> QED BY <2>6, <2>7
<1> QED BY <1>1, <1>7, <1>8

(* What readers do is walk disjoint queries: a single list, the two scopes  *)
(* of the enrollments in either order, or one window of starts next to      *)
(* another, whose rows the strict filters keep apart.                       *)
THEOREM ReadersStayApart ==
    ASSUME NEW p \in Query, NEW q \in Query
    PROVE  /\ Apart(<<p>>)
           /\ {p.list, q.list} = {"past", "upcoming"} => Apart(<<p, q>>)
           /\ p.before # Absent /\ q.after # Absent /\ p.before <= q.after + 1
                 => Apart(<<p, q>>)
<1>1. ASSUME \A r \in Row, t \in Time :
               ~(/\ Passes(r, p) /\ InScope(r, p.list, t)
                 /\ Passes(r, q) /\ InScope(r, q.list, t))
      PROVE  Apart(<<p, q>>)
  <2>1. \A i, j \in 1..2 : i # j => (i = 1 /\ j = 2) \/ (i = 2 /\ j = 1)
    OBVIOUS
  <2> QED BY <1>1, <2>1 DEF Apart
<1>2. Apart(<<p>>)
  BY DEF Apart
<1>3. \A r \in Row : r.starts \in Int
  BY BoundsAssumption DEF Row, Time
<1>4. /\ Time \subseteq Int /\ p.before \in Time \cup {Absent}
      /\ q.after \in Time \cup {Absent}
  BY BoundsAssumption DEF Time, Query
<1>5. ASSUME {p.list, q.list} = {"past", "upcoming"} PROVE Apart(<<p, q>>)
  <2>1. \A r \in Row, t \in Time : r.starts < t => ~(r.starts >= t)
    BY <1>3, <1>4
  <2> QED BY <1>1, <1>5, <2>1 DEF InScope
<1>6. ASSUME p.before # Absent, q.after # Absent, p.before <= q.after + 1
      PROVE  Apart(<<p, q>>)
  <2>1. p.before \in Int /\ q.after \in Int
    BY <1>4, <1>6
  <2>2. \A b, a, n \in Int : b <= a + 1 => ~(n < b /\ n > a)
    OBVIOUS
  <2>3. \A r \in Row : ~(r.starts < p.before /\ r.starts > q.after)
    BY <1>3, <1>6, <2>1, <2>2
  <2> QED BY <1>1, <1>6, <2>3 DEF Passes
<1> QED BY <1>2, <1>5, <1>6

RepeatedInv == Apart(walk) /\ ScopesHold /\ RepeatInv

(* A walk of disjoint queries shows a row twice only if rows were created,  *)
(* changed or tied, or that row itself started meanwhile.                   *)
THEOREM NoRowIsRepeated == ASSUME DisjointPlans PROVE Spec => []NothingRepeated
<1>1. Init => RepeatedInv
  <2> SUFFICES ASSUME Init PROVE RepeatedInv
    OBVIOUS
  <2>1. PICK plan \in Plans : Begin(plan)
    BY DEF Init
  <2> QED BY <2>1 DEF DisjointPlans, Begin, RepeatedInv, ScopesHold, RepeatInv
<1>2. WalkInv /\ WalkInv' /\ RepeatedInv /\ [Next]_vars => RepeatedInv'
  <2> SUFFICES ASSUME WalkInv, WalkInv', RepeatedInv, [Next]_vars PROVE RepeatedInv'
    OBVIOUS
  <2>1. RepeatInv'
    BY CountRepeat, FetchRepeat, TickRepeat, WriteRepeat, StutterRepeat DEF Next, RepeatedInv
  <2> QED BY <2>1, ApartStep, ScopesStep DEF RepeatedInv
<1>3. RepeatedInv => NothingRepeated
  BY DEF RepeatedInv, RepeatInv, RepeatCauses, NothingRepeated
<1> QED BY <1>1, <1>2, <1>3, InitWalk, WalkStep, PTL DEF Spec
=============================================================================
