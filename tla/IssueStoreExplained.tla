------------------------ MODULE IssueStoreExplained -------------------------
(* The log explains the row (RowExplained), for every workflow template, every set *)
(* of issues and agents and every bound.  That the newest entry of a column which  *)
(* no undo reversed tells its value is not inductive: an undo turns the entry      *)
(* before it into the newest.  What is inductive is a chain: among the entries of a *)
(* column that are not undone, each starts from the value that the one before it   *)
(* left, and the row shows what the newest left.  Undo takes the newest reversible *)
(* entry of all columns, so it takes a chain's last link or leaves it alone;       *)
(* compaction cuts a chain at its old end.                                        *)
EXTENDS IssueStoreProofs

ColumnKinds == {"status_changed", "priority_changed", "fields_changed"}

\* What a reader of the row and of an entry's value would call the same.
Shows(r, kind, v) ==
    CASE kind = "status_changed" -> r.status = v \/ (r.status = Archived /\ IsDone(v))
      [] kind = "priority_changed" -> r.priority = v
      [] OTHER -> r.fields \ {CloseReason} = v \ {CloseReason}

\* An entry that starts at w may follow one that left v.
Leads(kind, v, w) ==
    IF kind = "fields_changed" THEN v \ {CloseReason} = w \ {CloseReason} ELSE v = w

\* The entries at positions N are a chain, and the row shows its end.
ChainOn(N, events, kind, r) ==
    /\ \A j, k \in N : j < k /\ (\A m \in N : m <= j \/ k <= m)
                       => Leads(kind, events[j].new, events[k].old)
    /\ \A k \in N : (\A m \in N : m <= k) => Shows(r, kind, events[k].new)

Column(events, kind, r) == ChainOn(NewestDone(events, kind), events, kind, r)

HolderTold(events, holder) ==
    \A k \in HolderEntries(events) :
        (\A m \in HolderEntries(events) : m <= k) => TellsHolder(events, k, holder)

\* The log of an issue tells its row.
Tells(events, r) ==
    /\ HolderTold(events, r.assignee)
    /\ \A kind \in ColumnKinds : Column(events, kind, r)

Explained == \A i \in Live : Tells(log[i], row[i])

-----------------------------------------------------------------------------
(* Chains                                                                        *)

LEMMA ChainStays ==
  ASSUME NEW N, NEW l, NEW b, NEW kind, NEW r, NEW s, ChainOn(N, l, kind, r),
         \A k \in N : b[k] = l[k],
         \A v : Shows(r, kind, v) => Shows(s, kind, v)
  PROVE  ChainOn(N, b, kind, s)
  BY DEF ChainOn

LEMMA ChainGrows ==
  ASSUME NEW N, NEW l, NEW b, NEW kind, NEW r, NEW s, ChainOn(N, l, kind, r),
         NEW p \in Nat, \A k \in N : k \in Nat /\ k < p /\ b[k] = l[k],
         \A v : Shows(r, kind, v) => Leads(kind, v, b[p].old),
         Shows(s, kind, b[p].new)
  PROVE  ChainOn(N \cup {p}, b, kind, s)
<1> DEFINE M == N \cup {p}
<1>1. ASSUME NEW j \in M, NEW k \in M, j < k, \A m \in M : m <= j \/ k <= m
      PROVE  Leads(kind, b[j].new, b[k].old)
  <2>1. j \in N
    BY <1>1
  <2>2. CASE k \in N
    BY <1>1, <2>1, <2>2 DEF ChainOn
  <2>3. CASE k = p
    <3>1. \A m \in N : m <= j
      BY <1>1, <2>3
    <3>2. Shows(r, kind, l[j].new)
      BY <2>1, <3>1 DEF ChainOn
    <3> QED
      BY <2>1, <2>3, <3>2
  <2> QED
    BY <2>2, <2>3
<1>2. ASSUME NEW k \in M, \A m \in M : m <= k
      PROVE  Shows(s, kind, b[k].new)
  <2>1. k = p
    BY <1>2
  <2> QED
    BY <2>1
<1> QED
  BY <1>1, <1>2 DEF ChainOn

LEMMA ChainShrinks ==
  ASSUME NEW N, NEW l, NEW b, NEW kind, NEW r, NEW s, ChainOn(N, l, kind, r),
         NEW t \in N, \A k \in N : k \in Nat /\ k <= t /\ b[k] = l[k],
         Shows(s, kind, l[t].old), kind \in ColumnKinds
  PROVE  ChainOn(N \ {t}, b, kind, s)
<1> DEFINE M == N \ {t}
<1>1. ASSUME NEW j \in M, NEW k \in M, j < k, \A m \in M : m <= j \/ k <= m
      PROVE  Leads(kind, b[j].new, b[k].old)
  <2>1. \A m \in N : m <= j \/ k <= m
    BY <1>1
  <2> QED
    BY <1>1, <2>1 DEF ChainOn
<1>2. ASSUME NEW k \in M, \A m \in M : m <= k
      PROVE  Shows(s, kind, b[k].new)
  <2>1. k < t /\ \A m \in N : m <= k \/ t <= m
    BY <1>2
  <2>2. Leads(kind, l[k].new, l[t].old)
    BY <2>1 DEF ChainOn
  <2> QED
    BY <2>2 DEF Leads, Shows, ColumnKinds
<1> QED
  BY <1>1, <1>2 DEF ChainOn

LEMMA ChainCut ==
  ASSUME NEW N, NEW M, NEW l, NEW b, NEW kind, NEW r, ChainOn(N, l, kind, r), NEW d \in Nat,
         N \subseteq Nat, \A k \in M : k \in Nat /\ k + d \in N /\ b[k] = l[k + d],
         \A k \in N : k <= d \/ k - d \in M
  PROVE  ChainOn(M, b, kind, r)
<1>1. ASSUME NEW j \in M, NEW k \in M, j < k, \A m \in M : m <= j \/ k <= m
      PROVE  Leads(kind, b[j].new, b[k].old)
  <2>1. ASSUME NEW m \in N PROVE m <= j + d \/ k + d <= m
    <3>1. CASE m <= d
      BY <2>1, <3>1
    <3>2. CASE m - d \in M
      <4>1. m - d <= j \/ k <= m - d
        BY <1>1, <3>2
      <4> QED
        BY <2>1, <4>1
    <3> QED
      BY <3>1, <3>2
  <2>2. j + d < k + d /\ j + d \in N /\ k + d \in N
    BY <1>1
  <2>3. Leads(kind, l[j + d].new, l[k + d].old)
    BY <2>1, <2>2 DEF ChainOn
  <2> QED
    BY <2>3
<1>2. ASSUME NEW k \in M, \A m \in M : m <= k
      PROVE  Shows(r, kind, b[k].new)
  <2>1. ASSUME NEW m \in N PROVE m <= k + d
    <3>1. CASE m <= d
      BY <2>1, <3>1
    <3>2. CASE m - d \in M
      <4>1. m - d <= k
        BY <1>2, <3>2
      <4> QED
        BY <2>1, <4>1
    <3> QED
      BY <3>1, <3>2
  <2>2. Shows(r, kind, l[k + d].new)
    BY <2>1 DEF ChainOn
  <2> QED
    BY <2>2
<1> QED
  BY <1>1, <1>2 DEF ChainOn

-----------------------------------------------------------------------------
(* A log and what a write appends to it                                          *)

\* b is the log l followed by those events, stamped with the ids after last.
Extends(b, l, events, last) ==
    /\ IsSequence(b)
    /\ \A k \in DOMAIN l : k \in DOMAIN b /\ b[k] = l[k]
    /\ \A k \in DOMAIN events :
          /\ Len(l) + k \in DOMAIN b /\ b[Len(l) + k].id = last + k
          /\ b[Len(l) + k].kind = events[k].kind
          /\ b[Len(l) + k].old = events[k].old /\ b[Len(l) + k].new = events[k].new
    /\ \A m \in DOMAIN b : m \in DOMAIN l \/ \E k \in DOMAIN events : m = Len(l) + k

LEMMA StampExtends ==
  ASSUME NEW i, NEW l, IsSequence(l), NEW events, IsSequence(events)
  PROVE  Extends(l \o Stamp(i, events), l, events, lastId[i])
<1> DEFINE s == Stamp(i, events)
           b == l \o s
           n == Len(l)
<1>1. s = [j \in 1..Len(events) |-> s[j]] /\ Len(events) \in Nat /\ DOMAIN events = 1..Len(events)
  BY DEF Stamp, IsSequence
<1>2. \A k \in DOMAIN events :
         /\ s[k].kind = events[k].kind /\ s[k].new = events[k].new
         /\ s[k].old = events[k].old /\ s[k].id = lastId[i] + k
  BY DEF Stamp
<1> HIDE DEF s
<1>3. IsSequence(s) /\ Len(s) = Len(events)
  BY <1>1, FunctionIsSequence
<1>4. /\ Len(b) = Len(l) + Len(s) /\ DOMAIN b = 1..(Len(l) + Len(s))
      /\ \A k \in 1..(Len(l) + Len(s)) :
            b[k] = IF k <= Len(l) THEN l[k] ELSE s[k - Len(l)]
  BY <1>3, ConcatIs
<1>5. n \in Nat /\ DOMAIN l = 1..n /\ Len(s) \in Nat
  BY <1>3 DEF IsSequence
<1> HIDE DEF b, n
<1>6. IsSequence(b)
  BY <1>4, <1>5 DEF IsSequence, n
<1>7. ASSUME NEW k \in DOMAIN l PROVE k \in DOMAIN b /\ b[k] = l[k]
  BY <1>4, <1>5 DEF n
<1>8. ASSUME NEW k \in DOMAIN events PROVE n + k \in DOMAIN b /\ b[n + k] = s[k]
  <2> DEFINE m == n + k
  <2>1. m \in 1..(n + Len(s)) /\ ~(m <= n) /\ m - n = k
    BY <1>1, <1>3, <1>5
  <2> HIDE DEF m
  <2>2. m \in DOMAIN b /\ b[m] = s[k]
    BY <1>4, <2>1 DEF n
  <2> QED
    BY <2>2 DEF m
<1>9. ASSUME NEW m \in DOMAIN b PROVE m \in DOMAIN l \/ \E k \in DOMAIN events : m = n + k
  <2>1. CASE m <= n
    BY <1>4, <1>5, <2>1 DEF n
  <2>2. CASE ~(m <= n)
    <3>1. m - n \in DOMAIN events /\ m = n + (m - n)
      BY <1>1, <1>3, <1>4, <1>5, <2>2 DEF n
    <3> QED
      BY <3>1
  <2> QED
    BY <2>1, <2>2
<1> QED
  BY <1>2, <1>6, <1>7, <1>8, <1>9 DEF Extends, b, n, s

\* What one issue's log must satisfy for the lemmas below.
Logged(l, last) == last \in Nat /\ LogOK(l, last) /\ MarksEarlier(l)

\* Appended events come after the old ones, under ids that no marker names.
LEMMA AppendedIsNew ==
  ASSUME NEW l, NEW last, Logged(l, last), NEW events, IsSequence(events),
         NEW b, Extends(b, l, events, last), NEW k \in DOMAIN events
  PROVE  /\ Len(l) + k \in Nat /\ \A j \in DOMAIN l : j \in Nat /\ j < Len(l) + k
         /\ \A j \in DOMAIN l : l[j].id # b[Len(l) + k].id
         /\ ~IsUndone(l, b[Len(l) + k].id)
<1>1. /\ Len(l) \in Nat /\ DOMAIN l = 1..Len(l) /\ k \in Nat /\ k > 0
      /\ b[Len(l) + k].id = last + k /\ last \in Nat
  BY DEF Logged, LogOK, IsSequence, Extends
<1>2. ASSUME NEW j \in DOMAIN l PROVE l[j].id \in 1..last
  BY DEF Logged, LogOK
<1>3. ASSUME NEW j \in DOMAIN l PROVE l[j].id # last + k
  BY <1>1, <1>2
<1>4. ASSUME NEW j \in DOMAIN l, l[j].kind = "undone" PROVE l[j].new # last + k
  <2> DEFINE x == l[j].new
             y == l[j].id
  <2>1. x \in Nat /\ x < y /\ y \in 1..last
    BY <1>2, <1>4 DEF Logged, MarksEarlier
  <2> HIDE DEF x, y
  <2>2. x # last + k
    BY <1>1, <2>1
  <2> QED
    BY <2>2 DEF x
<1>5. \A j \in DOMAIN l : j \in Nat /\ j < Len(l) + k
  BY <1>1
<1> QED
  BY <1>1, <1>3, <1>4, <1>5 DEF IsUndone

\* Appending unmarked events only adds to what is not undone.
LEMMA DoneAppended ==
  ASSUME NEW l, NEW last, Logged(l, last), NEW events, IsSequence(events), Unmarking(events),
         NEW b, Extends(b, l, events, last), NEW kind
  PROVE  /\ \A k \in DOMAIN l : k \in NewestDone(b, kind) <=> k \in NewestDone(l, kind)
         /\ \A k \in DOMAIN events :
               Len(l) + k \in NewestDone(b, kind) <=> events[k].kind = kind
<1>1. ASSUME NEW id PROVE IsUndone(b, id) <=> IsUndone(l, id)
  BY DEF IsUndone, Extends, Unmarking
<1>2. ASSUME NEW k \in DOMAIN l
      PROVE  k \in NewestDone(b, kind) <=> k \in NewestDone(l, kind)
  BY <1>1 DEF NewestDone, Extends
<1>3. ASSUME NEW k \in DOMAIN events
      PROVE  Len(l) + k \in NewestDone(b, kind) <=> events[k].kind = kind
  <2>1. ~IsUndone(b, b[Len(l) + k].id)
    BY <1>1, AppendedIsNew
  <2> QED
    BY <2>1 DEF NewestDone, Extends
<1> QED
  BY <1>2, <1>3

-----------------------------------------------------------------------------
(* What a write's events account for                                            *)

HolderTelling == HolderKinds \cup ReleaseKinds

Silent(events, F) == \A k \in DOMAIN events : events[k].kind \notin F

\* e is the one event of kinds F.
One(events, F, e) ==
    \E k \in DOMAIN events :
        events[k] = e /\ \A j \in DOMAIN events : events[j].kind \in F <=> j = k

\* The events move the column from what r shows to what s shows, or leave it alone.
Moves(r, s, kind, events) ==
    \/ Silent(events, {kind}) /\ \A v : Shows(r, kind, v) => Shows(s, kind, v)
    \/ \E e : /\ One(events, {kind}, e) /\ Shows(s, kind, e.new)
              /\ \A v : Shows(r, kind, v) => Leads(kind, v, e.old)

\* The events hand the issue to the holder of s, or leave it with that of r.
Hands(r, s, events) ==
    \/ Silent(events, HolderTelling) /\ s.assignee = r.assignee
    \/ \E e : /\ One(events, HolderTelling, e)
              /\ \/ e.kind \in HolderKinds /\ e.new = s.assignee
                 \/ e.kind \in ReleaseKinds /\ s.assignee = NoOne

Accounts(r, s, events) ==
    /\ IsSequence(events) /\ Unmarking(events) /\ Hands(r, s, events)
    /\ \A kind \in ColumnKinds : Moves(r, s, kind, events)

LEMMA ColumnAppended ==
  ASSUME NEW l, NEW last, Logged(l, last), NEW events, IsSequence(events), Unmarking(events),
         NEW b, Extends(b, l, events, last), NEW kind, NEW r, NEW s,
         Moves(r, s, kind, events), Column(l, kind, r)
  PROVE  Column(b, kind, s)
<1> DEFINE N == NewestDone(l, kind)
           M == NewestDone(b, kind)
<1>1. /\ \A k \in DOMAIN l : k \in M <=> k \in N
      /\ \A k \in DOMAIN events : Len(l) + k \in M <=> events[k].kind = kind
  BY DoneAppended
<1>2. N \subseteq DOMAIN l /\ M \subseteq DOMAIN b
  BY DEF NewestDone
<1>3. /\ \A k \in DOMAIN l : b[k] = l[k] /\ k \in DOMAIN b
      /\ \A m \in DOMAIN b : m \in DOMAIN l \/ \E k \in DOMAIN events : m = Len(l) + k
  BY DEF Extends
<1>4. ChainOn(N, l, kind, r)
  BY DEF Column
<1> HIDE DEF N, M
<1>5. CASE Silent(events, {kind}) /\ \A v : Shows(r, kind, v) => Shows(s, kind, v)
  <2>1. M = N
    BY <1>1, <1>2, <1>3, <1>5 DEF Silent
  <2>2. ChainOn(N, b, kind, s)
    BY <1>2, <1>3, <1>4, <1>5, ChainStays
  <2> QED
    BY <2>1, <2>2 DEF Column, M
<1>6. ASSUME NEW e, One(events, {kind}, e), Shows(s, kind, e.new),
             \A v : Shows(r, kind, v) => Leads(kind, v, e.old)
      PROVE  Column(b, kind, s)
  <2>1. PICK k \in DOMAIN events :
           events[k] = e /\ \A j \in DOMAIN events : events[j].kind \in {kind} <=> j = k
    BY <1>6 DEF One
  <2> DEFINE p == Len(l) + k
  <2>2. p \in Nat /\ \A j \in DOMAIN l : j \in Nat /\ j < p
    BY AppendedIsNew
  <2>3. b[p].old = e.old /\ b[p].new = e.new
    BY <2>1 DEF Extends
  <2>4. M = N \cup {p}
    BY <1>1, <1>2, <1>3, <2>1
  <2> HIDE DEF p
  <2>5. \A j \in N : j \in Nat /\ j < p /\ b[j] = l[j]
    BY <1>2, <1>3, <2>2
  <2>6. ChainOn(N \cup {p}, b, kind, s)
    BY <1>4, <1>6, <2>2, <2>3, <2>5, ChainGrows
  <2> QED
    BY <2>4, <2>6 DEF Column, M
<1> QED
  BY <1>5, <1>6 DEF Moves

\* What an old entry tells, it still tells when events were appended.
LEMMA TellsStill ==
  ASSUME NEW l, NEW last, Logged(l, last), NEW events, IsSequence(events),
         NEW b, Extends(b, l, events, last), NEW k \in DOMAIN l, NEW holder,
         TellsHolder(l, k, holder)
  PROVE  TellsHolder(b, k, holder)
<1>1. b[k] = l[k]
  BY DEF Extends
<1>2. ASSUME l[k].kind = "undone", NEW j \in DOMAIN b, b[j].id = l[k].new
      PROVE  j \in DOMAIN l /\ b[j] = l[j]
  <2>1. ASSUME NEW m \in DOMAIN events, j = Len(l) + m PROVE FALSE
    <3>1. ~IsUndone(l, b[j].id)
      BY <2>1, AppendedIsNew
    <3> QED
      BY <1>2, <3>1 DEF IsUndone
  <2> QED
    BY <2>1 DEF Extends
<1> QED
  BY <1>1, <1>2 DEF TellsHolder

LEMMA HolderAppended ==
  ASSUME NEW l, NEW last, Logged(l, last), NEW events, IsSequence(events), Unmarking(events),
         NEW b, Extends(b, l, events, last), NEW r, NEW s,
         Hands(r, s, events), HolderTold(l, r.assignee)
  PROVE  HolderTold(b, s.assignee)
<1> DEFINE N == HolderEntries(l)
           M == HolderEntries(b)
<1>1. \A k \in DOMAIN l : k \in M <=> k \in N
  BY DEF HolderEntries, Extends
<1>2. \A k \in DOMAIN events : Len(l) + k \in M <=> events[k].kind \in HolderTelling
  BY DEF HolderEntries, Extends, Unmarking, HolderTelling
<1>3. N \subseteq DOMAIN l /\ M \subseteq DOMAIN b
  BY DEF HolderEntries
<1>4. \A m \in DOMAIN b : m \in DOMAIN l \/ \E k \in DOMAIN events : m = Len(l) + k
  BY DEF Extends
<1> SUFFICES ASSUME NEW m \in M, \A k \in M : k <= m
             PROVE  TellsHolder(b, m, s.assignee)
  BY DEF HolderTold
<1> HIDE DEF N, M
<1>5. CASE Silent(events, HolderTelling) /\ s.assignee = r.assignee
  <2>1. M = N
    BY <1>1, <1>2, <1>3, <1>4, <1>5 DEF Silent
  <2>2. TellsHolder(l, m, r.assignee)
    BY <2>1 DEF HolderTold, N
  <2> QED
    BY <1>3, <1>5, <2>1, <2>2, TellsStill
<1>6. ASSUME NEW e, One(events, HolderTelling, e),
             \/ e.kind \in HolderKinds /\ e.new = s.assignee
             \/ e.kind \in ReleaseKinds /\ s.assignee = NoOne
      PROVE  TellsHolder(b, m, s.assignee)
  <2>1. PICK k \in DOMAIN events :
           events[k] = e /\ \A j \in DOMAIN events : events[j].kind \in HolderTelling <=> j = k
    BY <1>6 DEF One
  <2> DEFINE p == Len(l) + k
  <2>2. p \in Nat /\ \A j \in DOMAIN l : j \in Nat /\ j < p
    BY AppendedIsNew
  <2>3. b[p].kind = e.kind /\ b[p].new = e.new
    BY <2>1 DEF Extends
  <2>4. p \in M /\ \A j \in M : j = p \/ j \in DOMAIN l
    BY <1>2, <1>3, <1>4, <2>1
  <2> HIDE DEF p
  <2>5. m = p
    BY <2>2, <2>4
  <2> QED
    BY <1>6, <2>3, <2>5 DEF TellsHolder
<1> QED
  BY <1>5, <1>6 DEF Hands

\* A write whose events account for the row keeps the log telling it.
LEMMA AppendTells ==
  ASSUME NEW i, NEW l, Logged(l, lastId[i]), NEW r, NEW s, NEW events,
         Accounts(r, s, events), Tells(l, r)
  PROVE  Tells(l \o Stamp(i, events), s)
<1> DEFINE b == l \o Stamp(i, events)
<1>1. IsSequence(l)
  BY DEF Logged, LogOK
<1>2. Extends(b, l, events, lastId[i])
  BY <1>1, StampExtends DEF Accounts
<1> HIDE DEF b
<1>3. HolderTold(b, s.assignee)
  BY <1>2, HolderAppended DEF Accounts, Tells
<1>4. ASSUME NEW kind \in ColumnKinds PROVE Column(b, kind, s)
  BY <1>2, ColumnAppended DEF Accounts, Tells
<1> QED
  BY <1>3, <1>4 DEF Tells, b

-----------------------------------------------------------------------------
(* The events of an update                                                       *)

\* Of the kinds F the events hold exactly e, or nothing, as c tells.
Says(events, F, c, e) ==
    /\ c => One(events, F, e)
    /\ ~c => Silent(events, F)

\* w is a followed by b.
Joins(w, a, b) ==
    /\ IsSequence(w)
    /\ \A k \in DOMAIN a : k \in DOMAIN w /\ w[k] = a[k]
    /\ \A k \in DOMAIN b : /\ Len(a) + k \in DOMAIN w /\ w[Len(a) + k] = b[k]
                           /\ Len(a) + k \notin DOMAIN a
    /\ \A m \in DOMAIN w : m \in DOMAIN a \/ \E k \in DOMAIN b : m = Len(a) + k

LEMMA ConcatJoins ==
  ASSUME NEW a, NEW b, IsSequence(a), IsSequence(b)
  PROVE  Joins(a \o b, a, b)
<1> DEFINE w == a \o b
           n == Len(a)
<1>1. /\ Len(w) = n + Len(b) /\ DOMAIN w = 1..(n + Len(b))
      /\ \A k \in 1..(n + Len(b)) : w[k] = IF k <= n THEN a[k] ELSE b[k - n]
  BY ConcatIs
<1>2. n \in Nat /\ DOMAIN a = 1..n /\ Len(b) \in Nat /\ DOMAIN b = 1..Len(b)
  BY DEF IsSequence
<1> HIDE DEF w, n
<1>3. ASSUME NEW k \in DOMAIN b PROVE n + k \in DOMAIN w /\ w[n + k] = b[k] /\ n + k \notin DOMAIN a
  <2> DEFINE m == n + k
  <2>1. m \in 1..(n + Len(b)) /\ ~(m <= n) /\ m - n = k /\ m \notin 1..n
    BY <1>2
  <2> HIDE DEF m
  <2>2. m \in DOMAIN w /\ w[m] = b[k] /\ m \notin DOMAIN a
    BY <1>1, <1>2, <2>1
  <2> QED
    BY <2>2 DEF m
<1>4. ASSUME NEW m \in DOMAIN w PROVE m \in DOMAIN a \/ \E k \in DOMAIN b : m = n + k
  <2>1. CASE m <= n
    BY <1>1, <1>2, <2>1
  <2>2. CASE ~(m <= n)
    <3>1. m - n \in DOMAIN b /\ m = n + (m - n)
      BY <1>1, <1>2, <2>2
    <3> QED
      BY <3>1
  <2> QED
    BY <2>1, <2>2
<1>5. IsSequence(w)
  BY <1>1, <1>2 DEF IsSequence
<1>6. \A k \in DOMAIN a : k \in DOMAIN w /\ w[k] = a[k]
  BY <1>1, <1>2
<1> QED
  BY <1>3, <1>4, <1>5, <1>6 DEF Joins, w, n

LEMMA SilentJoined ==
  ASSUME NEW a, NEW b, NEW w, Joins(w, a, b), NEW F, Silent(a, F), Silent(b, F)
  PROVE  Silent(w, F)
<1> SUFFICES ASSUME NEW m \in DOMAIN w PROVE w[m].kind \notin F
  BY DEF Silent
<1>1. m \in DOMAIN a \/ \E k \in DOMAIN b : m = Len(a) + k
  BY DEF Joins
<1> QED
  BY <1>1 DEF Silent, Joins

LEMMA OneFirst ==
  ASSUME NEW a, NEW b, NEW w, Joins(w, a, b), NEW F, NEW e, One(a, F, e), Silent(b, F)
  PROVE  One(w, F, e)
<1>1. PICK k \in DOMAIN a : a[k] = e /\ \A j \in DOMAIN a : a[j].kind \in F <=> j = k
  BY DEF One
<1>2. ASSUME NEW m \in DOMAIN w PROVE w[m].kind \in F <=> m = k
  BY <1>1 DEF Joins, Silent
<1> QED
  BY <1>1, <1>2 DEF One, Joins

LEMMA OneLast ==
  ASSUME NEW a, NEW b, NEW w, Joins(w, a, b), IsSequence(a), IsSequence(b), NEW F, NEW e,
         Silent(a, F), One(b, F, e)
  PROVE  One(w, F, e)
<1>1. PICK k \in DOMAIN b : b[k] = e /\ \A j \in DOMAIN b : b[j].kind \in F <=> j = k
  BY DEF One
<1> DEFINE p == Len(a) + k
<1>2. p \in DOMAIN w /\ w[p] = e /\ e.kind \in F /\ p \notin DOMAIN a
  BY <1>1 DEF Joins
<1>3. ASSUME NEW m \in DOMAIN w PROVE w[m].kind \in F <=> m = p
  <2>1. CASE m \in DOMAIN a
    BY <1>2, <2>1 DEF Silent, Joins
  <2>2. ASSUME NEW j \in DOMAIN b, m = Len(a) + j PROVE w[m].kind \in F <=> m = p
    <3>1. w[m] = b[j]
      BY <2>2 DEF Joins
    <3>2. m = p <=> j = k
      BY <1>1, <2>2 DEF IsSequence
    <3> QED
      BY <1>1, <3>1, <3>2
  <2> QED
    BY <2>1, <2>2 DEF Joins
<1> HIDE DEF p
<1> QED
  BY <1>2, <1>3 DEF One

LEMMA SilentConcat ==
  ASSUME NEW a, NEW b, IsSequence(a), IsSequence(b), NEW F, Silent(a, F), Silent(b, F)
  PROVE  Silent(a \o b, F)
<1> DEFINE w == a \o b
<1>1. Joins(w, a, b)
  BY ConcatJoins
<1> HIDE DEF w
<1>2. Silent(w, F)
  BY <1>1, SilentJoined
<1> QED
  BY <1>2 DEF w

LEMMA SaysConcat ==
  ASSUME NEW a, NEW b, IsSequence(a), IsSequence(b), NEW F, NEW c \in BOOLEAN, NEW e,
         \/ Says(a, F, c, e) /\ Silent(b, F)
         \/ Silent(a, F) /\ Says(b, F, c, e)
  PROVE  Says(a \o b, F, c, e)
<1> DEFINE w == a \o b
<1>1. Joins(w, a, b)
  BY ConcatJoins
<1> HIDE DEF w
<1>2. ASSUME Says(a, F, c, e), Silent(b, F) PROVE Says(w, F, c, e)
  <2>1. ASSUME c PROVE One(w, F, e)
    BY <1>1, <1>2, <2>1, OneFirst DEF Says
  <2>2. ASSUME ~c PROVE Silent(w, F)
    BY <1>1, <1>2, <2>2, SilentJoined DEF Says
  <2> QED
    BY <2>1, <2>2 DEF Says
<1>3. ASSUME Silent(a, F), Says(b, F, c, e) PROVE Says(w, F, c, e)
  <2>1. ASSUME c PROVE One(w, F, e)
    BY <1>1, <1>3, <2>1, OneLast DEF Says
  <2>2. ASSUME ~c PROVE Silent(w, F)
    BY <1>1, <1>3, <2>2, SilentJoined DEF Says
  <2> QED
    BY <2>1, <2>2 DEF Says
<1>4. Says(w, F, c, e)
  BY <1>2, <1>3, Zenon
<1> QED
  BY <1>4 DEF w

LEMMA SingleSays ==
  ASSUME NEW e, NEW F
  PROVE  /\ IsSequence(<<e>>)
         /\ e.kind \in F => One(<<e>>, F, e)
         /\ e.kind \notin F => Silent(<<e>>, F)
<1>1. DOMAIN <<e>> = {1} /\ <<e>>[1] = e /\ IsSequence(<<e>>)
  BY DEF IsSequence
<1> DEFINE w == <<e>>
<1> HIDE DEF w
<1>2. DOMAIN w = {1} /\ w[1] = e /\ IsSequence(w)
  BY <1>1 DEF w
<1> QED
  BY <1>2 DEF One, Silent, w

LEMMA WhenSays ==
  ASSUME NEW c \in BOOLEAN, NEW e, NEW F
  PROVE  /\ IsSequence(When(c, e))
         /\ e.kind \in F => Says(When(c, e), F, c, e)
         /\ e.kind \notin F => Silent(When(c, e), F)
<1>1. CASE c
  BY <1>1, SingleSays DEF When, Says
<1>2. CASE ~c
  <2>1. When(c, e) = <<>> /\ IsSequence(<<>>) /\ DOMAIN <<>> = {}
    BY <1>2 DEF When, IsSequence
  <2> QED
    BY <1>2, <2>1 DEF Says, Silent
<1> QED
  BY <1>1, <1>2

\* An update tells each column once, when it changes it.
LEMMA UpdateSays ==
  ASSUME NEW r, NEW q, NEW actor, NEW backward \in BOOLEAN, NEW checked \in BOOLEAN,
         q.commit \in BOOLEAN
  PROVE  LET events == UpdateEvents(r, q, actor, backward, checked)
         IN  /\ Says(events, {"status_changed"}, Changes(q.status, r.status),
                     Event("status_changed", actor, r.status, q.status))
             /\ Says(events, {"priority_changed"}, Changes(q.priority, r.priority),
                     Event("priority_changed", actor, r.priority, q.priority))
             /\ Says(events, HolderTelling, Changes(q.assignee, r.assignee),
                     Event("assignee_changed", actor, r.assignee, q.assignee))
             /\ Says(events, {"fields_changed"},
                     Changes(q.fields, r.fields) /\ ~CloseReasonOnly(r, q),
                     Event("fields_changed", actor, r.fields, q.fields))
<1> DEFINE moves == Changes(q.status, r.status)
           warns == IF backward
                    THEN BackwardWarns(r.status, q.status, MergedFields(r, q))
                    ELSE ForwardWarns(r.status, q.status, MergedFields(r, q))
           e1 == Event("transition_warning", actor, r.status, q.status)
           e2 == Event("transition_forced", actor, r.status, q.status)
           e3 == Event("status_changed", actor, r.status, q.status)
           e4 == Event("close_commit_checked", actor, Nil, Nil)
           e5 == Event("priority_changed", actor, r.priority, q.priority)
           e6 == Event("assignee_changed", actor, r.assignee, q.assignee)
           e7 == Event("fields_changed", actor, r.fields, q.fields)
           c1 == moves /\ warns
           c2 == moves /\ backward
           c4 == moves /\ IsDone(q.status) /\ q.commit /\ checked
           c5 == Changes(q.priority, r.priority)
           c6 == Changes(q.assignee, r.assignee)
           c7 == Changes(q.fields, r.fields) /\ ~CloseReasonOnly(r, q)
           FS == {"status_changed"}
           FP == {"priority_changed"}
           FF == {"fields_changed"}
           FH == HolderTelling
<1>1. /\ moves \in BOOLEAN /\ c1 \in BOOLEAN /\ c2 \in BOOLEAN
      /\ c4 \in BOOLEAN /\ c5 \in BOOLEAN /\ c6 \in BOOLEAN /\ c7 \in BOOLEAN
  BY DEF Changes
<1>2. /\ e1.kind \notin FS \cup FP \cup FF \cup FH
      /\ e2.kind \notin FS \cup FP \cup FF \cup FH
      /\ e3.kind \in FS /\ e3.kind \notin FP \cup FF \cup FH
      /\ e4.kind \notin FS \cup FP \cup FF \cup FH
      /\ e5.kind \in FP /\ e5.kind \notin FS \cup FF \cup FH
      /\ e6.kind \in FH /\ e6.kind \notin FS \cup FP \cup FF
      /\ e7.kind \in FF /\ e7.kind \notin FS \cup FP \cup FH
  BY DEF Event, HolderTelling, HolderKinds, ReleaseKinds
<1>3. UpdateEvents(r, q, actor, backward, checked)
        = When(c1, e1) \o When(c2, e2) \o When(moves, e3) \o When(c4, e4)
          \o When(c5, e5) \o When(c6, e6) \o When(c7, e7)
  BY DEF UpdateEvents
<1> HIDE DEF moves, c1, c2, c4, c5, c6, c7, e1, e2, e3, e4, e5, e6, e7, FS, FP, FF, FH
<1> DEFINE s1 == When(c1, e1)
           s2 == When(c2, e2)
           s3 == When(moves, e3)
           s4 == When(c4, e4)
           s5 == When(c5, e5)
           s6 == When(c6, e6)
           s7 == When(c7, e7)
           t2 == s1 \o s2
           t3 == t2 \o s3
           t4 == t3 \o s4
           t5 == t4 \o s5
           t6 == t5 \o s6
           t7 == t6 \o s7
<1>4. UpdateEvents(r, q, actor, backward, checked) = t7
  BY <1>3
<1>5. /\ IsSequence(s1) /\ Silent(s1, FS) /\ Silent(s1, FP) /\ Silent(s1, FH) /\ Silent(s1, FF)
      /\ IsSequence(s2) /\ Silent(s2, FS) /\ Silent(s2, FP) /\ Silent(s2, FH) /\ Silent(s2, FF)
  BY <1>1, <1>2, WhenSays
<1>6. /\ IsSequence(s3) /\ Says(s3, FS, moves, e3)
      /\ Silent(s3, FP) /\ Silent(s3, FH) /\ Silent(s3, FF)
      /\ IsSequence(s4) /\ Silent(s4, FS) /\ Silent(s4, FP) /\ Silent(s4, FH) /\ Silent(s4, FF)
  BY <1>1, <1>2, WhenSays
<1>7. /\ IsSequence(s5) /\ Says(s5, FP, c5, e5)
      /\ Silent(s5, FS) /\ Silent(s5, FH) /\ Silent(s5, FF)
      /\ IsSequence(s6) /\ Says(s6, FH, c6, e6)
      /\ Silent(s6, FS) /\ Silent(s6, FP) /\ Silent(s6, FF)
  BY <1>1, <1>2, WhenSays
<1>8. /\ IsSequence(s7) /\ Says(s7, FF, c7, e7)
      /\ Silent(s7, FS) /\ Silent(s7, FP) /\ Silent(s7, FH)
  BY <1>1, <1>2, WhenSays
<1> HIDE DEF s1, s2, s3, s4, s5, s6, s7
<1>9. IsSequence(t2) /\ Silent(t2, FS) /\ Silent(t2, FP) /\ Silent(t2, FH) /\ Silent(t2, FF)
  BY <1>5, SilentConcat, ConcatJoins DEF Joins
<1> HIDE DEF t2
<1>10. /\ IsSequence(t3) /\ Says(t3, FS, moves, e3)
       /\ Silent(t3, FP) /\ Silent(t3, FH) /\ Silent(t3, FF)
  BY <1>1, <1>6, <1>9, SilentConcat, SaysConcat, ConcatJoins DEF Joins
<1> HIDE DEF t3
<1>11. /\ IsSequence(t4) /\ Says(t4, FS, moves, e3)
       /\ Silent(t4, FP) /\ Silent(t4, FH) /\ Silent(t4, FF)
  BY <1>1, <1>6, <1>10, SilentConcat, SaysConcat, ConcatJoins DEF Joins
<1> HIDE DEF t4
<1>12. /\ IsSequence(t5) /\ Says(t5, FS, moves, e3) /\ Says(t5, FP, c5, e5)
       /\ Silent(t5, FH) /\ Silent(t5, FF)
  BY <1>1, <1>7, <1>11, SilentConcat, SaysConcat, ConcatJoins DEF Joins
<1> HIDE DEF t5
<1>13. /\ IsSequence(t6) /\ Says(t6, FS, moves, e3) /\ Says(t6, FP, c5, e5)
       /\ Says(t6, FH, c6, e6) /\ Silent(t6, FF)
  BY <1>1, <1>7, <1>12, SilentConcat, SaysConcat, ConcatJoins DEF Joins
<1> HIDE DEF t6
<1>14. /\ Says(t7, FS, moves, e3) /\ Says(t7, FP, c5, e5)
       /\ Says(t7, FH, c6, e6) /\ Says(t7, FF, c7, e7)
  BY <1>1, <1>8, <1>13, SaysConcat
<1> HIDE DEF t7
<1> QED
  BY <1>4, <1>14 DEF moves, c5, c6, c7, e3, e5, e6, e7, FS, FP, FF, FH

Columns == {"status", "assignee", "claimedAt", "claimCommit", "leaseEnd", "closedAt",
            "closeCommit", "fields", "priority"}

\* What an update leaves in the columns the log tells.
LEMMA UpdatedIs ==
  ASSUME NEW r \in Row, NEW q
  PROVE  LET u == UpdatedRow(r, q)
         IN  /\ u.status = IF Changes(q.status, r.status) THEN q.status ELSE r.status
             /\ u.assignee = IF Changes(q.assignee, r.assignee) THEN q.assignee ELSE r.assignee
             /\ u.priority = IF q.priority = Nil THEN r.priority ELSE q.priority
             /\ u.fields = MergedFields(r, q)
             /\ u = [c \in Columns |-> u[c]]
<1> DEFINE s == IF Changes(q.status, r.status)
                THEN StatusSet(r, q.status, q.commit) ELSE r
           a == IF Changes(q.assignee, r.assignee)
                THEN Assigned(s, q.assignee, q.commit) ELSE s
<1>1. r = [c \in Columns |-> r[c]]
  BY DEF Row, Columns
<1>2. /\ s = [c \in Columns |-> s[c]] /\ s.assignee = r.assignee /\ s.priority = r.priority
      /\ s.status = IF Changes(q.status, r.status) THEN q.status ELSE r.status
  BY <1>1 DEF StatusSet, Closed, NotClosed, Columns
<1> HIDE DEF s
<1>3. /\ a = [c \in Columns |-> a[c]] /\ a.status = s.status /\ a.priority = s.priority
      /\ a.assignee = IF Changes(q.assignee, r.assignee) THEN q.assignee ELSE s.assignee
  BY <1>2 DEF Assigned, Unheld, HeldBy, Columns
<1>4. UpdatedRow(r, q) = [a EXCEPT !.priority = IF q.priority = Nil THEN @ ELSE q.priority,
                                   !.fields = MergedFields(r, q)]
  BY DEF UpdatedRow, s
<1> HIDE DEF a
<1>5. /\ UpdatedRow(r, q) = [c \in Columns |-> UpdatedRow(r, q)[c]]
      /\ UpdatedRow(r, q).assignee = a.assignee /\ UpdatedRow(r, q).status = a.status
      /\ UpdatedRow(r, q).priority = IF q.priority = Nil THEN a.priority ELSE q.priority
      /\ UpdatedRow(r, q).fields = MergedFields(r, q)
  BY <1>3, <1>4 DEF Columns
<1> QED
  BY <1>2, <1>3, <1>5

\* A column that only one event may move: what the event must say.
LEMMA SaysMoves ==
  ASSUME NEW r, NEW s, NEW kind, NEW events, NEW c \in BOOLEAN, NEW e,
         Says(events, {kind}, c, e),
         ~c => \A v : Shows(r, kind, v) => Shows(s, kind, v),
         c => Shows(s, kind, e.new) /\ \A v : Shows(r, kind, v) => Leads(kind, v, e.old)
  PROVE  Moves(r, s, kind, events)
<1>1. CASE c
  BY <1>1 DEF Says, Moves
<1>2. CASE ~c
  BY <1>2 DEF Says, Moves
<1> QED
  BY <1>1, <1>2

LEMMA UpdateAccounts ==
  ASSUME NEW r \in Row, NEW q \in Updates, NEW actor \in Holder, NEW backward \in BOOLEAN,
         NEW checked \in BOOLEAN, TransitionAllowed(r, q, backward)
  PROVE  Accounts(r, UpdatedRow(r, q), UpdateEvents(r, q, actor, backward, checked))
<1> DEFINE events == UpdateEvents(r, q, actor, backward, checked)
           u == UpdatedRow(r, q)
           e3 == Event("status_changed", actor, r.status, q.status)
           e5 == Event("priority_changed", actor, r.priority, q.priority)
           e6 == Event("assignee_changed", actor, r.assignee, q.assignee)
           e7 == Event("fields_changed", actor, r.fields, q.fields)
           c3 == Changes(q.status, r.status)
           c5 == Changes(q.priority, r.priority)
           c6 == Changes(q.assignee, r.assignee)
           c7 == Changes(q.fields, r.fields) /\ ~CloseReasonOnly(r, q)
<1>0. q.commit \in BOOLEAN /\ c3 \in BOOLEAN /\ c5 \in BOOLEAN /\ c6 \in BOOLEAN /\ c7 \in BOOLEAN
  BY DEF Updates, Changes
<1>1. /\ Says(events, {"status_changed"}, c3, e3) /\ Says(events, {"priority_changed"}, c5, e5)
      /\ Says(events, HolderTelling, c6, e6) /\ Says(events, {"fields_changed"}, c7, e7)
  BY <1>0, UpdateSays
<1>2. IsSequence(events) /\ Unmarking(events)
  BY UpdateExplains
<1>3. /\ u.status = IF c3 THEN q.status ELSE r.status
      /\ u.assignee = IF c6 THEN q.assignee ELSE r.assignee
      /\ u.priority = IF q.priority = Nil THEN r.priority ELSE q.priority
      /\ u.fields = MergedFields(r, q)
  BY UpdatedIs
<1>4. /\ e3.old = r.status /\ e3.new = q.status /\ e5.old = r.priority /\ e5.new = q.priority
      /\ e6.new = q.assignee /\ e6.kind \in HolderKinds /\ e7.old = r.fields /\ e7.new = q.fields
  BY DEF Event, HolderKinds
<1>5. c3 => r.status # Archived
  BY MovesBetweenStates, TemplateAssumption
<1> HIDE DEF events, u, e3, e5, e6, e7
<1>6. Moves(r, u, "status_changed", events)
  <2>1. ~c3 => \A v : Shows(r, "status_changed", v) => Shows(u, "status_changed", v)
    BY <1>3 DEF Shows
  <2>2. c3 => /\ Shows(u, "status_changed", e3.new)
              /\ \A v : Shows(r, "status_changed", v) => Leads("status_changed", v, e3.old)
    BY <1>3, <1>4, <1>5 DEF Shows, Leads
  <2> HIDE DEF c3
  <2> QED
    BY <1>0, <1>1, <2>1, <2>2, SaysMoves
<1>7. Moves(r, u, "priority_changed", events)
  <2>1. ~c5 => \A v : Shows(r, "priority_changed", v) => Shows(u, "priority_changed", v)
    BY <1>3 DEF Shows, Changes
  <2>2. c5 => /\ Shows(u, "priority_changed", e5.new)
              /\ \A v : Shows(r, "priority_changed", v) => Leads("priority_changed", v, e5.old)
    BY <1>3, <1>4 DEF Shows, Leads, Changes
  <2> HIDE DEF c5
  <2> QED
    BY <1>0, <1>1, <2>1, <2>2, SaysMoves
<1>8. Moves(r, u, "fields_changed", events)
  <2>1. ASSUME ~c7 PROVE u.fields \ {CloseReason} = r.fields \ {CloseReason}
    BY <1>3, <2>1 DEF MergedFields, Changes, CloseReasonOnly
  <2>2. ~c7 => \A v : Shows(r, "fields_changed", v) => Shows(u, "fields_changed", v)
    BY <2>1 DEF Shows
  <2>3. c7 => /\ Shows(u, "fields_changed", e7.new)
              /\ \A v : Shows(r, "fields_changed", v) => Leads("fields_changed", v, e7.old)
    BY <1>3, <1>4 DEF Shows, Leads, Changes, MergedFields
  <2> HIDE DEF c7
  <2> QED
    BY <1>0, <1>1, <2>2, <2>3, SaysMoves
<1>9. Hands(r, u, events)
  <2>1. CASE c6
    BY <1>1, <1>3, <1>4, <2>1 DEF Says, Hands
  <2>2. CASE ~c6
    BY <1>1, <1>3, <2>2 DEF Says, Hands
  <2> QED
    BY <2>1, <2>2
<1> QED
  BY <1>2, <1>6, <1>7, <1>8, <1>9 DEF Accounts, ColumnKinds, events, u

-----------------------------------------------------------------------------
(* The events of the other writes                                                *)

\* One event that tells no column, and at most the holder.
LEMMA SingleAccounts ==
  ASSUME NEW r, NEW s, NEW e, e.kind \notin ColumnKinds \cup {"undone"},
         \A kind \in ColumnKinds : \A v : Shows(r, kind, v) => Shows(s, kind, v),
         \/ e.kind \notin HolderTelling /\ s.assignee = r.assignee
         \/ e.kind \in HolderKinds /\ e.new = s.assignee
  PROVE  Accounts(r, s, <<e>>)
<1> DEFINE w == <<e>>
<1>1. /\ IsSequence(w) /\ DOMAIN w = {1} /\ w[1] = e
      /\ \A kind \in ColumnKinds : Silent(w, {kind})
      /\ e.kind \notin HolderTelling => Silent(w, HolderTelling)
      /\ e.kind \in HolderKinds => One(w, HolderTelling, e)
  <2>1. IsSequence(w) /\ DOMAIN w = {1} /\ w[1] = e
    BY DEF IsSequence
  <2> HIDE DEF w
  <2>2. e.kind \in HolderKinds => One(w, HolderTelling, e)
    BY <2>1 DEF One, HolderTelling
  <2> QED
    BY <2>1, <2>2 DEF Silent
<1> HIDE DEF w
<1>2. Unmarking(w)
  BY <1>1 DEF Unmarking
<1>3. Hands(r, s, w)
  BY <1>1 DEF Hands
<1>4. \A kind \in ColumnKinds : Moves(r, s, kind, w)
  BY <1>1 DEF Moves
<1> QED
  BY <1>1, <1>2, <1>3, <1>4 DEF Accounts, w

\* Rows that agree on the columns the log tells show the same.
LEMMA SameShown ==
  ASSUME NEW r, NEW s, s.status = r.status, s.priority = r.priority, s.fields = r.fields
  PROVE  \A kind \in ColumnKinds : \A v : Shows(r, kind, v) => Shows(s, kind, v)
  BY DEF Shows

LEMMA ClaimAccounts ==
  ASSUME NEW r \in Row, NEW a, NEW actor, NEW commit \in BOOLEAN, NEW request
  PROVE  Accounts(r, Claimed(r, a, commit),
                  <<[Event("claimed", actor, r.assignee, a) EXCEPT !.note = request]>>)
<1> DEFINE s == Claimed(r, a, commit)
           e == [Event("claimed", actor, r.assignee, a) EXCEPT !.note = request]
<1>1. s.status = r.status /\ s.priority = r.priority /\ s.fields = r.fields /\ s.assignee = a
  BY DEF Row, Claimed
<1>2. e.kind = "claimed" /\ e.new = a
  BY DEF Event
<1> HIDE DEF s, e
<1>3. e.kind \notin ColumnKinds \cup {"undone"} /\ e.kind \in HolderKinds
  BY <1>2 DEF ColumnKinds, HolderKinds
<1>4. \A kind \in ColumnKinds : \A v : Shows(r, kind, v) => Shows(s, kind, v)
  BY <1>1, SameShown
<1>5. Accounts(r, s, <<e>>)
  BY <1>1, <1>2, <1>3, <1>4, SingleAccounts
<1> QED
  BY <1>5 DEF s, e

LEMMA HeartbeatAccounts ==
  ASSUME NEW r \in Row, NEW actor
  PROVE  Accounts(r, [r EXCEPT !.leaseEnd = now + LeaseLength],
                  <<Event(IF r.assignee = actor THEN "heartbeat"
                          ELSE "heartbeat_by_override", actor, r.assignee, Nil)>>)
<1> DEFINE s == [r EXCEPT !.leaseEnd = now + LeaseLength]
           e == Event(IF r.assignee = actor THEN "heartbeat"
                      ELSE "heartbeat_by_override", actor, r.assignee, Nil)
<1>1. /\ s.status = r.status /\ s.priority = r.priority /\ s.fields = r.fields
      /\ s.assignee = r.assignee
  BY DEF Row
<1>2. e.kind \in {"heartbeat", "heartbeat_by_override"}
  BY DEF Event
<1> HIDE DEF s, e
<1>3. e.kind \notin ColumnKinds \cup {"undone"} /\ e.kind \notin HolderTelling
  BY <1>2 DEF ColumnKinds, HolderTelling, HolderKinds, ReleaseKinds
<1>4. \A kind \in ColumnKinds : \A v : Shows(r, kind, v) => Shows(s, kind, v)
  BY <1>1, SameShown
<1>5. Accounts(r, s, <<e>>)
  BY <1>1, <1>3, <1>4, SingleAccounts
<1> QED
  BY <1>5 DEF s, e

LEMMA ReclaimAccounts ==
  ASSUME NEW r \in Row, NEW a, NEW expected, NEW actor, NEW commit \in BOOLEAN
  PROVE  Accounts(r, HeldBy(r, a, commit), <<Event("reclaimed", actor, expected, a)>>)
<1> DEFINE s == HeldBy(r, a, commit)
           e == Event("reclaimed", actor, expected, a)
<1>1. s.status = r.status /\ s.priority = r.priority /\ s.fields = r.fields /\ s.assignee = a
  BY DEF Row, HeldBy
<1>2. e.kind = "reclaimed" /\ e.new = a
  BY DEF Event
<1> HIDE DEF s, e
<1>3. e.kind \notin ColumnKinds \cup {"undone"} /\ e.kind \in HolderKinds
  BY <1>2 DEF ColumnKinds, HolderKinds
<1>4. \A kind \in ColumnKinds : \A v : Shows(r, kind, v) => Shows(s, kind, v)
  BY <1>1, SameShown
<1>5. Accounts(r, s, <<e>>)
  BY <1>1, <1>2, <1>3, <1>4, SingleAccounts
<1> QED
  BY <1>5 DEF s, e

\* Archiving hides the done state behind the synthetic status.
LEMMA ArchiveAccounts ==
  ASSUME NEW r \in Row, r.status \in StateSet, IsDone(r.status), NEW actor
  PROVE  Accounts(r, [r EXCEPT !.status = Archived], <<Event("archived", actor, Nil, Nil)>>)
<1> DEFINE s == [r EXCEPT !.status = Archived]
           e == Event("archived", actor, Nil, Nil)
<1>1. /\ s.status = Archived /\ s.priority = r.priority /\ s.fields = r.fields
      /\ s.assignee = r.assignee /\ r.status # Archived
  BY TemplateAssumption DEF Row
<1>2. e.kind = "archived"
  BY DEF Event
<1> HIDE DEF s, e
<1>3. e.kind \notin ColumnKinds \cup {"undone"} /\ e.kind \notin HolderTelling
  BY <1>2 DEF ColumnKinds, HolderTelling, HolderKinds, ReleaseKinds
<1>4. \A kind \in ColumnKinds : \A v : Shows(r, kind, v) => Shows(s, kind, v)
  BY <1>1 DEF Shows
<1>5. Accounts(r, s, <<e>>)
  BY <1>1, <1>3, <1>4, SingleAccounts
<1> QED
  BY <1>5 DEF s, e

\* What more events say of other columns changes nothing.
LEMMA MoreSaid ==
  ASSUME NEW r, NEW s, NEW a, NEW b, IsSequence(a), IsSequence(b)
  PROVE  /\ Hands(r, s, a) /\ Silent(b, HolderTelling) => Hands(r, s, a \o b)
         /\ \A kind : Moves(r, s, kind, a) /\ Silent(b, {kind}) => Moves(r, s, kind, a \o b)
<1> DEFINE w == a \o b
<1>1. Joins(w, a, b)
  BY ConcatJoins
<1> HIDE DEF w
<1>2. ASSUME NEW F, Silent(b, F)
      PROVE  /\ Silent(a, F) => Silent(w, F)
             /\ \A e : One(a, F, e) => One(w, F, e)
  BY <1>1, <1>2, SilentJoined, OneFirst
<1>3. Hands(r, s, a) /\ Silent(b, HolderTelling) => Hands(r, s, w)
  BY <1>2 DEF Hands
<1>4. ASSUME NEW kind PROVE Moves(r, s, kind, a) /\ Silent(b, {kind}) => Moves(r, s, kind, w)
  BY <1>2 DEF Moves
<1> QED
  BY <1>3, <1>4 DEF w

\* A release tells the loss of the holder, and a status it falls back to.
LEMMA ReleaseAccounts ==
  ASSUME NEW r \in Row, ~IsDone(r.status), NEW actor, NEW target
  PROVE  Accounts(r, Released(r, target), ReleaseEvents(r, actor, target))
<1> DEFINE s == Released(r, target)
           c == target # Nil
           e == Event(IF r.assignee = actor THEN "released" ELSE "released_by_override",
                      actor, r.assignee, Nil)
           e2 == Event("transition_forced", actor, r.status, target)
           e3 == Event("status_changed", actor, r.status, target)
           s1 == <<e>>
           s2 == When(c, e2)
           s3 == When(c, e3)
           FS == {"status_changed"}
           FP == {"priority_changed"}
           FF == {"fields_changed"}
           FH == HolderTelling
           t2 == s1 \o s2
           t3 == t2 \o s3
<1>1. ReleaseEvents(r, actor, target) = t3
  BY DEF ReleaseEvents
<1>2. /\ s.assignee = NoOne /\ s.priority = r.priority /\ s.fields = r.fields
      /\ s.status = IF c THEN target ELSE r.status
  BY DEF Row, Released, Unheld, NotClosed
<1>3. r.status # Archived
  BY ArchivedIsDone
<1>4. /\ e.kind \in ReleaseKinds /\ e2.kind = "transition_forced"
      /\ e3.kind = "status_changed" /\ e3.old = r.status /\ e3.new = target /\ c \in BOOLEAN
  BY DEF Event, ReleaseKinds
<1>5. /\ e.kind \in FH /\ e.kind \notin FS \cup FP \cup FF /\ e.kind # "undone"
      /\ e2.kind \notin FS \cup FP \cup FF \cup FH
      /\ e3.kind \in FS /\ e3.kind \notin FP \cup FF \cup FH
  BY <1>4 DEF HolderTelling, HolderKinds, ReleaseKinds
<1>6. e2.kind # "undone" /\ e3.kind # "undone"
  BY <1>4
<1> HIDE DEF s, c, e, e2, e3, FS, FP, FF, FH
<1>7. /\ IsSequence(s1) /\ One(s1, FH, e)
      /\ Silent(s1, FS) /\ Silent(s1, FP) /\ Silent(s1, FF)
  BY <1>5, SingleSays
<1>8. Unmarking(s1)
  BY <1>5 DEF Unmarking
<1>9. /\ IsSequence(s2) /\ Unmarking(s2)
      /\ Silent(s2, FS) /\ Silent(s2, FP) /\ Silent(s2, FF) /\ Silent(s2, FH)
      /\ IsSequence(s3) /\ Unmarking(s3) /\ Says(s3, FS, c, e3)
      /\ Silent(s3, FP) /\ Silent(s3, FF) /\ Silent(s3, FH)
  BY <1>4, <1>5, <1>6, WhenSays, WhenConduct
<1> HIDE DEF s1, s2, s3
<1>10. Says(s1, FH, TRUE, e)
  BY <1>7 DEF Says
<1>11. IsSequence(t2) /\ Unmarking(t2)
  BY <1>7, <1>8, <1>9, UnmarkingConcat
<1>12. /\ Says(t2, FH, TRUE, e)
       /\ Silent(t2, FS) /\ Silent(t2, FP) /\ Silent(t2, FF)
  BY <1>7, <1>9, <1>10, SilentConcat, SaysConcat
<1> HIDE DEF t2
<1>13. IsSequence(t3) /\ Unmarking(t3)
  BY <1>9, <1>11, UnmarkingConcat
<1>14. /\ Says(t3, FH, TRUE, e) /\ Says(t3, FS, c, e3)
       /\ Silent(t3, FP) /\ Silent(t3, FF)
  BY <1>4, <1>9, <1>11, <1>12, SilentConcat, SaysConcat
<1> HIDE DEF t3
<1>15. Moves(r, s, "status_changed", t3)
  <2>1. ~c => \A v : Shows(r, "status_changed", v) => Shows(s, "status_changed", v)
    BY <1>2 DEF Shows
  <2>2. c => /\ Shows(s, "status_changed", e3.new)
             /\ \A v : Shows(r, "status_changed", v) => Leads("status_changed", v, e3.old)
    BY <1>2, <1>3, <1>4 DEF Shows, Leads
  <2>3. Says(t3, {"status_changed"}, c, e3)
    BY <1>14 DEF FS
  <2> QED
    BY <1>4, <2>1, <2>2, <2>3, SaysMoves
<1>16. Moves(r, s, "priority_changed", t3) /\ Moves(r, s, "fields_changed", t3)
  BY <1>2, <1>14 DEF Moves, Shows, FP, FF
<1>17. Hands(r, s, t3)
  BY <1>2, <1>4, <1>14 DEF Says, Hands, FH
<1> QED
  BY <1>1, <1>13, <1>15, <1>16, <1>17 DEF Accounts, ColumnKinds, s

\* A reopen clears close_reason and says so after the events of its update.
LEMMA ReopenAccounts ==
  ASSUME NEW r \in Row, NEW s \in StateSet, NEW actor \in Holder,
         TransitionAllowed(r, StatusRequest(s), TRUE)
  PROVE  LET q == StatusRequest(s)
             kept == r.fields \ {CloseReason}
         IN  Accounts(r, [UpdatedRow(r, q) EXCEPT !.fields = kept],
                      UpdateEvents(r, q, actor, TRUE, FALSE)
                      \o When(kept # r.fields,
                              Event("fields_changed", actor, r.fields, kept))
                      \o <<Event("reopened", actor, r.status, s)>>)
<1> DEFINE q == StatusRequest(s)
           kept == r.fields \ {CloseReason}
           v == UpdatedRow(r, q)
           u == [v EXCEPT !.fields = kept]
           c == kept # r.fields
           e2 == Event("fields_changed", actor, r.fields, kept)
           e3 == Event("reopened", actor, r.status, s)
           s1 == UpdateEvents(r, q, actor, TRUE, FALSE)
           s2 == When(c, e2)
           s3 == <<e3>>
           FF == {"fields_changed"}
           t2 == s1 \o s2
           t3 == t2 \o s3
<1>1. q \in Updates /\ q.fields = Nil
  BY StatusRequestTyped DEF StatusRequest
<1>2. Accounts(r, v, s1)
  BY <1>1, UpdateAccounts
<1>3. Silent(s1, FF)
  <2>1. ~(Changes(q.fields, r.fields) /\ ~CloseReasonOnly(r, q)) /\ q.commit \in BOOLEAN
    BY <1>1 DEF Changes, Updates
  <2> HIDE DEF q
  <2>2. Says(s1, FF, Changes(q.fields, r.fields) /\ ~CloseReasonOnly(r, q),
             Event("fields_changed", actor, r.fields, q.fields))
    BY <2>1, UpdateSays
  <2> QED
    BY <2>1, <2>2 DEF Says
<1>4. /\ e2.kind = "fields_changed" /\ e2.old = r.fields /\ e2.new = kept
      /\ e3.kind = "reopened" /\ c \in BOOLEAN
  BY DEF Event
<1>5. /\ u.status = v.status /\ u.priority = v.priority /\ u.assignee = v.assignee
      /\ u.fields = kept
  <2>1. v = [k \in Columns |-> v[k]]
    <3> HIDE DEF q
    <3> QED
      BY UpdatedIs
  <2> HIDE DEF v
  <2> QED
    BY <2>1 DEF Columns
<1> HIDE DEF v, s1, e2, e3, c, q
<1>6. /\ IsSequence(s2) /\ Unmarking(s2) /\ Says(s2, FF, c, e2)
      /\ Silent(s2, {"status_changed"}) /\ Silent(s2, {"priority_changed"})
      /\ Silent(s2, HolderTelling)
  <2>1. e2.kind # "undone" /\ e2.kind \notin HolderTelling
    BY <1>4 DEF HolderTelling, HolderKinds, ReleaseKinds
  <2> QED
    BY <1>4, <2>1, WhenSays, WhenConduct
<1>7. /\ IsSequence(s3) /\ Unmarking(s3)
      /\ \A kind \in ColumnKinds : Silent(s3, {kind})
      /\ Silent(s3, HolderTelling)
  <2>1. e3.kind \notin HolderTelling
    BY <1>4 DEF HolderTelling, HolderKinds, ReleaseKinds
  <2>2. IsSequence(s3) /\ DOMAIN s3 = {1} /\ s3[1] = e3
    BY DEF IsSequence
  <2> HIDE DEF s3
  <2> QED
    BY <1>4, <2>1, <2>2 DEF Silent, Unmarking, ColumnKinds
<1> HIDE DEF s2, s3, u, FF
<1>8. /\ IsSequence(t2) /\ Unmarking(t2) /\ Says(t2, FF, c, e2)
  BY <1>2, <1>3, <1>4, <1>6, UnmarkingConcat, SaysConcat DEF Accounts
<1>9. Hands(r, v, t2) /\ Moves(r, v, "status_changed", t2) /\ Moves(r, v, "priority_changed", t2)
  BY <1>2, <1>6, MoreSaid DEF Accounts, ColumnKinds
<1> HIDE DEF t2
<1>10. /\ IsSequence(t3) /\ Unmarking(t3) /\ Says(t3, FF, c, e2)
  BY <1>4, <1>7, <1>8, UnmarkingConcat, SaysConcat DEF ColumnKinds, FF
<1>11. Hands(r, v, t3) /\ Moves(r, v, "status_changed", t3) /\ Moves(r, v, "priority_changed", t3)
  BY <1>7, <1>8, <1>9, MoreSaid DEF ColumnKinds
<1> HIDE DEF t3
<1>12. /\ Hands(r, u, t3)
       /\ Moves(r, u, "status_changed", t3) /\ Moves(r, u, "priority_changed", t3)
  BY <1>5, <1>11 DEF Hands, Moves, Shows
<1>13. Moves(r, u, "fields_changed", t3)
  <2>1. ~c => \A x : Shows(r, "fields_changed", x) => Shows(u, "fields_changed", x)
    BY <1>5 DEF Shows, c
  <2>2. c => /\ Shows(u, "fields_changed", e2.new)
             /\ \A x : Shows(r, "fields_changed", x) => Leads("fields_changed", x, e2.old)
    BY <1>4, <1>5 DEF Shows, Leads
  <2> QED
    BY <1>4, <1>10, <2>1, <2>2, SaysMoves DEF FF
<1>14. Accounts(r, u, t3)
  BY <1>10, <1>12, <1>13 DEF Accounts, ColumnKinds
<1> QED
  BY <1>14 DEF u, v, t3, t2, s1, s2, s3, e2, e3, c, q

-----------------------------------------------------------------------------
(* Undo                                                                          *)

LEMMA RevertedIs ==
  ASSUME NEW r \in Row, NEW t, t.kind \in ReversibleKinds
  PROVE  LET s == Reverted(r, t)
         IN  /\ s.status = IF t.kind = "status_changed" THEN t.old ELSE r.status
             /\ s.priority = IF t.kind = "priority_changed" THEN t.old ELSE r.priority
             /\ s.assignee = IF t.kind \in {"assignee_changed", "claimed"} THEN t.old ELSE r.assignee
             /\ s.fields \ {CloseReason} = IF t.kind = "fields_changed"
                                           THEN t.old \ {CloseReason}
                                           ELSE r.fields \ {CloseReason}
<1> DEFINE s == Reverted(r, t)
<1>1. r = [c \in Columns |-> r[c]]
  BY DEF Row, Columns
<1>2. CASE t.kind = "status_changed"
  <2>1. CASE IsDone(t.old)
    <3>1. s = Closed(r, t.old, FALSE)
      BY <1>2, <2>1 DEF Reverted
    <3> HIDE DEF s
    <3> QED
      BY <1>1, <1>2, <3>1 DEF Closed, Columns, s
  <2>2. CASE ~IsDone(t.old)
    <3>1. s = [NotClosed(r, t.old) EXCEPT !.fields = @ \ {CloseReason}]
      BY <1>2, <2>2 DEF Reverted
    <3> HIDE DEF s
    <3>2. /\ s.status = t.old /\ s.priority = r.priority /\ s.assignee = r.assignee
          /\ s.fields = r.fields \ {CloseReason}
      BY <1>1, <3>1 DEF NotClosed, Columns
    <3> QED
      BY <1>2, <3>2 DEF s
  <2> QED
    BY <2>1, <2>2
<1>3. CASE t.kind \in {"assignee_changed", "claimed"}
  <2>1. s = Assigned(r, t.old, FALSE)
    BY <1>3 DEF Reverted
  <2> HIDE DEF s
  <2>2. /\ s.assignee = t.old /\ s.status = r.status /\ s.priority = r.priority
        /\ s.fields = r.fields
    BY <1>1, <2>1 DEF Assigned, Unheld, HeldBy, Columns
  <2> QED
    BY <1>3, <2>2 DEF s
<1>4. CASE t.kind = "priority_changed"
  <2>1. s = [r EXCEPT !.priority = t.old]
    BY <1>4 DEF Reverted
  <2> HIDE DEF s
  <2> QED
    BY <1>1, <1>4, <2>1 DEF Columns, s
<1>5. CASE t.kind = "fields_changed"
  <2>1. s = [r EXCEPT !.fields = t.old]
    BY <1>5 DEF Reverted
  <2> HIDE DEF s
  <2> QED
    BY <1>1, <1>5, <2>1 DEF Columns, s
<1> QED
  BY <1>2, <1>3, <1>4, <1>5 DEF ReversibleKinds

\* Two entries of a log have two ids.
LEMMA IdsDiffer ==
  ASSUME NEW l, NEW last, LogOK(l, last), NEW j \in DOMAIN l, NEW k \in DOMAIN l,
         l[j].id = l[k].id
  PROVE  j = k
<1> DEFINE x == l[j].id
           y == l[k].id
<1>1. j \in Nat /\ k \in Nat
  BY DEF LogOK, IsSequence
<1>2. x \in Nat /\ y \in Nat /\ (j < k => x < y) /\ (k < j => y < x)
  BY DEF LogOK
<1>3. x = y
  OBVIOUS
<1> HIDE DEF x, y
<1> QED
  BY <1>1, <1>2, <1>3

\* A marker takes the entry it names out of what is not undone, and nothing else.
LEMMA DoneMarked ==
  ASSUME NEW l, NEW last, Logged(l, last), NEW u \in DOMAIN l,
         NEW events, IsSequence(events), 1 \in DOMAIN events,
         \A k \in DOMAIN events : k = 1,
         events[1].kind = "undone", events[1].new = l[u].id,
         NEW b, Extends(b, l, events, last), NEW kind \in ColumnKinds
  PROVE  NewestDone(b, kind) = NewestDone(l, kind) \ {u}
<1>1. ASSUME NEW id PROVE IsUndone(b, id) <=> IsUndone(l, id) \/ id = l[u].id
  <2>1. /\ Len(l) + 1 \in DOMAIN b /\ b[Len(l) + 1].kind = "undone"
        /\ b[Len(l) + 1].new = l[u].id
    BY DEF Extends
  <2> DEFINE p == Len(l) + 1
  <2>2. \A m \in DOMAIN b : m \in DOMAIN l \/ m = p
    BY DEF Extends
  <2>3. \A k \in DOMAIN l : k \in DOMAIN b /\ b[k] = l[k]
    BY DEF Extends
  <2>4. p \in DOMAIN b /\ b[p].kind = "undone" /\ b[p].new = l[u].id
    BY <2>1
  <2> HIDE DEF p
  <2> QED
    BY <2>2, <2>3, <2>4 DEF IsUndone
<1>2. ASSUME NEW k \in DOMAIN l
      PROVE  k \in NewestDone(b, kind) <=> k \in NewestDone(l, kind) /\ k # u
  <2>1. l[k].id = l[u].id <=> k = u
    BY IdsDiffer DEF Logged
  <2>2. k \in DOMAIN b /\ b[k] = l[k]
    BY DEF Extends
  <2> QED
    BY <1>1, <2>1, <2>2 DEF NewestDone
<1>3. ASSUME NEW m \in NewestDone(b, kind) PROVE m \in DOMAIN l
  <2>1. m \in DOMAIN b /\ b[m].kind = kind
    BY DEF NewestDone
  <2>2. b[Len(l) + 1].kind = "undone" /\ \A k \in DOMAIN b : k \in DOMAIN l \/ k = Len(l) + 1
    BY DEF Extends
  <2> QED
    BY <2>1, <2>2 DEF ColumnKinds
<1> QED
  BY <1>2, <1>3 DEF NewestDone

\* Undoing the newest reversible entry walks its column back along the chain and
\* leaves the others.
LEMMA ColumnUndone ==
  ASSUME NEW l, NEW last, Logged(l, last), NEW u \in Undoable(l),
         \A j \in Undoable(l) : j <= u,
         NEW events, IsSequence(events), 1 \in DOMAIN events,
         \A k \in DOMAIN events : k = 1,
         events[1].kind = "undone", events[1].new = l[u].id,
         NEW b, Extends(b, l, events, last), NEW kind \in ColumnKinds,
         NEW r \in Row, Column(l, kind, r)
  PROVE  Column(b, kind, Reverted(r, l[u]))
<1> DEFINE N == NewestDone(l, kind)
           t == l[u]
           s == Reverted(r, t)
<1>1. u \in DOMAIN l /\ t.kind \in ReversibleKinds /\ ~IsUndone(l, t.id)
  BY DEF Undoable
<1>2. NewestDone(b, kind) = N \ {u}
  BY <1>1, DoneMarked
<1>3. N \subseteq Undoable(l) /\ N \subseteq DOMAIN l
  BY DEF NewestDone, Undoable, ColumnKinds, ReversibleKinds
<1>4. \A k \in N : k \in Nat /\ k <= u /\ b[k] = l[k]
  BY <1>3 DEF Extends, Logged, LogOK, IsSequence
<1>5. u \in N <=> t.kind = kind
  BY <1>1 DEF NewestDone
<1>6. /\ s.status = IF t.kind = "status_changed" THEN t.old ELSE r.status
      /\ s.priority = IF t.kind = "priority_changed" THEN t.old ELSE r.priority
      /\ s.fields \ {CloseReason} = IF t.kind = "fields_changed"
                                    THEN t.old \ {CloseReason} ELSE r.fields \ {CloseReason}
  BY <1>1, RevertedIs
<1>7. ChainOn(N, l, kind, r)
  BY DEF Column
<1> HIDE DEF N, s
<1>8. CASE t.kind = kind
  <2>1. Shows(s, kind, t.old)
    BY <1>6, <1>8 DEF Shows, ColumnKinds
  <2>2. ChainOn(N \ {u}, b, kind, s)
    BY <1>4, <1>5, <1>7, <1>8, <2>1, ChainShrinks
  <2> QED
    BY <1>2, <2>2 DEF Column, s
<1>9. CASE t.kind # kind
  <2>1. \A v : Shows(r, kind, v) => Shows(s, kind, v)
    BY <1>6, <1>9 DEF Shows, ColumnKinds
  <2>2. ChainOn(N, b, kind, s)
    BY <1>4, <1>7, <2>1, ChainStays
  <2>3. N \ {u} = N
    BY <1>5, <1>9
  <2> QED
    BY <1>2, <2>2, <2>3 DEF Column, s
<1> QED
  BY <1>8, <1>9

\* The marker itself tells the holder an undone claim went back to.
LEMMA HolderUndone ==
  ASSUME NEW l, NEW last, Logged(l, last), NEW u \in Undoable(l),
         NEW events, IsSequence(events), 1 \in DOMAIN events,
         \A k \in DOMAIN events : k = 1,
         events[1].kind = "undone", events[1].new = l[u].id, events[1].old = l[u].kind,
         NEW b, Extends(b, l, events, last), NEW r \in Row, HolderTold(l, r.assignee)
  PROVE  HolderTold(b, Reverted(r, l[u]).assignee)
<1> DEFINE t == l[u]
           h == Reverted(r, t).assignee
           p == Len(l) + 1
           N == HolderEntries(l)
           M == HolderEntries(b)
<1>1. u \in DOMAIN l /\ t.kind \in ReversibleKinds
  BY DEF Undoable
<1>2. h = IF t.kind \in {"assignee_changed", "claimed"} THEN t.old ELSE r.assignee
  BY <1>1, RevertedIs
<1>3. /\ p \in DOMAIN b /\ b[p].kind = "undone" /\ b[p].new = t.id /\ b[p].old = t.kind
      /\ \A m \in DOMAIN b : m \in DOMAIN l \/ m = p
      /\ \A k \in DOMAIN l : k \in DOMAIN b /\ b[k] = l[k]
  BY DEF Extends
<1>4. /\ \A j \in DOMAIN l : j \in Nat /\ j < p /\ l[j].id # b[p].id
      /\ p \in Nat
  <2>1. ASSUME NEW k \in DOMAIN events
        PROVE  /\ Len(l) + k \in Nat /\ \A j \in DOMAIN l : j \in Nat /\ j < Len(l) + k
               /\ \A j \in DOMAIN l : l[j].id # b[Len(l) + k].id
    BY AppendedIsNew
  <2> QED
    BY <2>1
<1>5. t.kind \in HolderKinds <=> t.kind \in {"assignee_changed", "claimed"}
  BY <1>1 DEF HolderKinds, ReversibleKinds
<1> HIDE DEF p, h
<1>6. \A k \in DOMAIN l : k \in M <=> k \in N
  BY <1>3 DEF HolderEntries
<1>7. p \in M <=> t.kind \in HolderKinds
  BY <1>3 DEF HolderEntries, HolderKinds, ReleaseKinds
<1>8. N \subseteq DOMAIN l /\ M \subseteq DOMAIN b
  BY DEF HolderEntries
<1> HIDE DEF N, M
<1> SUFFICES ASSUME NEW m \in M, \A k \in M : k <= m PROVE TellsHolder(b, m, h)
  BY DEF HolderTold, h, M
<1>9. CASE t.kind \in HolderKinds
  <2>1. m = p
    BY <1>3, <1>4, <1>7, <1>8, <1>9
  <2>2. ASSUME NEW j \in DOMAIN b, b[j].id = b[p].new PROVE b[j].old = h
    <3>1. j # p
      BY <1>1, <1>3, <1>4, <2>2
    <3>2. j \in DOMAIN l /\ l[j].id = l[u].id
      BY <1>3, <2>2, <3>1
    <3>3. j = u
      BY <1>1, <3>2, IdsDiffer DEF Logged
    <3> QED
      BY <1>2, <1>3, <1>5, <1>9, <3>2, <3>3
  <2> QED
    BY <1>3, <2>1, <2>2 DEF TellsHolder
<1>10. CASE t.kind \notin HolderKinds
  <2>1. M = N
    BY <1>3, <1>6, <1>7, <1>8, <1>10
  <2>2. m \in DOMAIN l /\ TellsHolder(l, m, r.assignee) /\ h = r.assignee
    BY <1>2, <1>5, <1>8, <1>10, <2>1 DEF HolderTold, N
  <2> QED
    BY <2>2, TellsStill
<1> QED
  BY <1>9, <1>10

-----------------------------------------------------------------------------
(* Compaction                                                                    *)

\* What compaction keeps tells the row as the whole log did.
LEMMA KeptTells ==
  ASSUME NEW l, NEW last, Logged(l, last), NEW keep \in Nat, NEW r, Tells(l, r)
  PROVE  Tells(Kept(l, keep), r)
<1> DEFINE n == Len(l)
           b == Kept(l, keep)
<1>1. IsSequence(l) /\ n \in Nat /\ DOMAIN l = 1..n /\ LogOK(l, last) /\ MarksEarlier(l)
  BY DEF Logged, LogOK, IsSequence
<1>2. PICK d \in Nat : /\ d <= n /\ DOMAIN b = 1..(n - d)
                       /\ \A k \in 1..(n - d) : b[k] = l[k + d]
  BY <1>1, KeptIsSuffix
<1>3. \A k \in DOMAIN b : k \in Undoable(b) <=> k + d \in Undoable(l)
  BY <1>1, <1>2, KeptUndoable
<1> HIDE DEF n, b
<1>4. \A k \in DOMAIN b : k \in Nat /\ k + d \in DOMAIN l /\ b[k] = l[k + d]
  BY <1>1, <1>2
<1>5. \A k \in DOMAIN l : k \in Nat /\ (k <= d \/ (k - d \in DOMAIN b /\ (k - d) + d = k))
  BY <1>1, <1>2
<1>6. ASSUME NEW kind \in ColumnKinds PROVE Column(b, kind, r)
  <2> DEFINE N == NewestDone(l, kind)
             M == NewestDone(b, kind)
  <2>1. /\ \A k : k \in N <=> k \in Undoable(l) /\ l[k].kind = kind
        /\ \A k : k \in M <=> k \in Undoable(b) /\ b[k].kind = kind
    BY DEF NewestDone, Undoable, ColumnKinds, ReversibleKinds
  <2>2. N \subseteq DOMAIN l /\ M \subseteq DOMAIN b
    BY DEF NewestDone
  <2>3. ChainOn(N, l, kind, r)
    BY DEF Tells, Column
  <2> HIDE DEF N, M
  <2>4. \A k \in M : k \in Nat /\ k + d \in N /\ b[k] = l[k + d]
    BY <1>3, <1>4, <2>1, <2>2
  <2>5. ASSUME NEW k \in N, ~(k <= d) PROVE k - d \in M
    <3>1. k - d \in DOMAIN b /\ (k - d) + d = k
      BY <1>5, <2>2, <2>5
    <3> DEFINE j == k - d
    <3>2. j \in DOMAIN b /\ j + d = k
      BY <3>1
    <3> HIDE DEF j
    <3>3. j \in M
      BY <1>3, <1>4, <2>1, <3>2
    <3> QED
      BY <3>3 DEF j
  <2>6. N \subseteq Nat
    BY <1>5, <2>2
  <2>7. ChainOn(M, b, kind, r)
    BY <1>2, <2>3, <2>4, <2>5, <2>6, ChainCut
  <2> QED
    BY <2>7 DEF Column, M
<1>7. HolderTold(b, r.assignee)
  <2> SUFFICES ASSUME NEW k \in HolderEntries(b), \A m \in HolderEntries(b) : m <= k
               PROVE  TellsHolder(b, k, r.assignee)
    BY DEF HolderTold
  <2>1. \A m \in DOMAIN b : m \in HolderEntries(b) <=> m + d \in HolderEntries(l)
    BY <1>4 DEF HolderEntries
  <2>2. k \in DOMAIN b /\ HolderEntries(l) \subseteq DOMAIN l
    BY DEF HolderEntries
  <2>3. ASSUME NEW m \in HolderEntries(l) PROVE m <= k + d
    <3>1. CASE m <= d
      BY <1>4, <1>5, <2>2, <3>1
    <3>2. CASE ~(m <= d)
      <4> DEFINE j == m - d
      <4>1. j \in DOMAIN b /\ j + d = m
        BY <1>5, <2>2, <3>2
      <4> HIDE DEF j
      <4>2. j <= k
        BY <2>1, <4>1
      <4> QED
        BY <1>4, <2>2, <4>1, <4>2
    <3> QED
      BY <3>1, <3>2
  <2>4. k + d \in HolderEntries(l)
    BY <2>1, <2>2
  <2>5. TellsHolder(l, k + d, r.assignee)
    BY <2>3, <2>4 DEF Tells, HolderTold
  <2>6. b[k] = l[k + d]
    BY <1>4, <2>2
  <2>7. \A j \in DOMAIN b : j + d \in DOMAIN l /\ l[j + d] = b[j]
    BY <1>4
  <2> QED
    BY <2>5, <2>6, <2>7 DEF TellsHolder
<1> QED
  BY <1>6, <1>7 DEF Tells, b

-----------------------------------------------------------------------------
(* Every step keeps the rows explained                                           *)

LEMMA LiveLogged ==
  ASSUME Inv, Marked, NEW i \in Live
  PROVE  /\ Logged(log[i], lastId[i]) /\ i \in DOMAIN log /\ IsSequence(log[i])
         /\ DOMAIN log = DOMAIN row
<1>1. LogOK(log[i], lastId[i]) /\ i \in Issue
  BY LiveRow
<1>2. lastId[i] \in Nat /\ DOMAIN log = DOMAIN row
  BY <1>1 DEF Inv, TypeOK, Live
<1>3. MarksEarlier(log[i])
  BY DEF Marked, MarksOK
<1> QED
  BY <1>1, <1>2, <1>3 DEF Logged, LogOK, Live

LEMMA WriteTells ==
  ASSUME Inv, Marked, Explained, NEW i \in Live, NEW newRow, NEW events,
         Write(i, newRow, events), Tells(log[i] \o Stamp(i, events), newRow)
  PROVE  Explained'
<1>1. /\ row' = [row EXCEPT ![i] = newRow]
      /\ log' = [log EXCEPT ![i] = log[i] \o Stamp(i, events)]
  BY DEF Write
<1>2. DOMAIN row' = DOMAIN row /\ i \in DOMAIN log /\ DOMAIN log = DOMAIN row /\ i \in DOMAIN row
  BY <1>1, LiveLogged DEF Live
<1>3. ASSUME NEW j \in DOMAIN row PROVE Tells(log'[j], row'[j])
  <2>1. CASE j = i
    BY <1>1, <1>2, <2>1
  <2>2. CASE j # i
    BY <1>1, <1>2, <2>2 DEF Explained, Live
  <2> QED
    BY <2>1, <2>2
<1> QED
  BY <1>2, <1>3 DEF Explained, Live

LEMMA AccountedWrite ==
  ASSUME Inv, Marked, Explained, NEW i \in Live, NEW newRow, NEW events,
         Write(i, newRow, events), Accounts(row[i], newRow, events)
  PROVE  Explained'
<1>1. Tells(log[i], row[i]) /\ Logged(log[i], lastId[i])
  BY LiveLogged DEF Explained
<1>2. Tells(log[i] \o Stamp(i, events), newRow)
  BY <1>1, AppendTells
<1> QED
  BY <1>2, WriteTells

LEMMA UpdateTells ==
  ASSUME Inv, Marked, Explained, NEW i, NEW actor \in Holder, NEW expected,
         NEW q \in UpdateRequest, Update(i, actor, expected, q)
  PROVE  Explained'
<1>1. i \in Live /\ q \in Updates /\ row[i] \in Row
  BY LiveRow, StoreAssumption DEF Update
<1>2. /\ TransitionAllowed(row[i], q, FALSE)
      /\ Write(i, UpdatedRow(row[i], q), UpdateEvents(row[i], q, actor, FALSE, FALSE))
  BY DEF Update
<1>3. Accounts(row[i], UpdatedRow(row[i], q), UpdateEvents(row[i], q, actor, FALSE, FALSE))
  BY <1>1, <1>2, UpdateAccounts
<1> QED
  BY <1>1, <1>2, <1>3, AccountedWrite

LEMMA CloseTells ==
  ASSUME Inv, Marked, Explained, NEW i, NEW actor \in Holder, NEW expected, NEW target,
         NEW reason \in BOOLEAN, NEW force \in BOOLEAN, NEW commit \in BOOLEAN,
         Close(i, actor, expected, target, reason, force, commit)
  PROVE  Explained'
<1> DEFINE q == CloseRequest(row[i], target, reason, commit)
<1>1. i \in Live /\ row[i] \in Row /\ CloseTarget(target) \in StateSet
  BY LiveRow DEF Close, Closable
<1>2. q \in Updates
  <2> DEFINE s == CloseTarget(target)
             F == IF reason THEN row[i].fields \cup {CloseReason} ELSE Nil
  <2>1. F \in {Nil} \cup SUBSET Field
    BY <1>1, StoreAssumption DEF Row
  <2>2. q = [StatusRequest(s) EXCEPT !.fields = F, !.commit = commit]
    BY DEF CloseRequest
  <2> HIDE DEF s, F, q
  <2>3. s \in StateSet
    BY <1>1 DEF s
  <2> QED
    BY <2>1, <2>2, <2>3, RequestTyped
<1>3. /\ TransitionAllowed(row[i], q, force)
      /\ Write(i, UpdatedRow(row[i], q), UpdateEvents(row[i], q, actor, force, TRUE))
  BY DEF Close, Closable
<1> HIDE DEF q
<1>4. Accounts(row[i], UpdatedRow(row[i], q), UpdateEvents(row[i], q, actor, force, TRUE))
  BY <1>1, <1>2, <1>3, UpdateAccounts
<1> QED
  BY <1>1, <1>3, <1>4, AccountedWrite

LEMMA ReopenTells ==
  ASSUME Inv, Marked, Explained, NEW i, NEW actor \in Holder, Reopen(i, actor)
  PROVE  Explained'
<1> DEFINE r == row[i]
           s == ReopenTarget(log[i])
           q == StatusRequest(s)
           kept == r.fields \ {CloseReason}
           u == [UpdatedRow(r, q) EXCEPT !.fields = kept]
           events == UpdateEvents(r, q, actor, TRUE, FALSE)
                     \o When(kept # r.fields, Event("fields_changed", actor, r.fields, kept))
                     \o <<Event("reopened", actor, r.status, s)>>
<1>1. i \in Live /\ TransitionAllowed(r, q, TRUE) /\ Write(i, u, events)
  BY DEF Reopen
<1>2. r \in Row /\ s \in StateSet
  BY <1>1, LiveRow, ReopenTargetOpen
<1> HIDE DEF r, s
<1>3. Accounts(r, u, events)
  BY <1>1, <1>2, ReopenAccounts
<1> HIDE DEF u, events
<1> QED
  BY <1>1, <1>3, AccountedWrite DEF r

LEMMA ClaimTells ==
  ASSUME Inv, Marked, Explained, NEW i, NEW a \in Agent, NEW actor \in Holder,
         NEW commit \in BOOLEAN, NEW request, Claim(i, a, actor, commit, request)
  PROVE  Explained'
<1> DEFINE events == <<[Event("claimed", actor, row[i].assignee, a) EXCEPT !.note = request]>>
<1>1. i \in Live /\ row[i] \in Row /\ Write(i, Claimed(row[i], a, commit), events)
  BY LiveRow DEF Claim
<1>2. Accounts(row[i], Claimed(row[i], a, commit), events)
  BY <1>1, ClaimAccounts
<1> HIDE DEF events
<1> QED
  BY <1>1, <1>2, AccountedWrite

LEMMA ReleaseTells ==
  ASSUME Inv, Marked, Explained, NEW i, NEW actor \in Holder, NEW expected,
         NEW override, NEW revert, Release(i, actor, expected, override, revert)
  PROVE  Explained'
<1> DEFINE target == ReleaseTo(row[i], revert)
<1>1. /\ i \in Live /\ row[i] \in Row /\ ~IsDone(row[i].status)
      /\ Write(i, Released(row[i], target), ReleaseEvents(row[i], actor, target))
  BY LiveRow DEF Release
<1> HIDE DEF target
<1>2. Accounts(row[i], Released(row[i], target), ReleaseEvents(row[i], actor, target))
  BY <1>1, ReleaseAccounts
<1> QED
  BY <1>1, <1>2, AccountedWrite

LEMMA HeartbeatTells ==
  ASSUME Inv, Marked, Explained, NEW i, NEW actor \in Holder, NEW expected, NEW override,
         Heartbeat(i, actor, expected, override)
  PROVE  Explained'
<1> DEFINE s == [row[i] EXCEPT !.leaseEnd = now + LeaseLength]
           events == <<Event(IF row[i].assignee = actor THEN "heartbeat"
                             ELSE "heartbeat_by_override", actor, row[i].assignee, Nil)>>
<1>1. i \in Live /\ row[i] \in Row /\ Write(i, s, events)
  BY LiveRow DEF Heartbeat
<1>2. Accounts(row[i], s, events)
  BY <1>1, HeartbeatAccounts
<1> HIDE DEF s, events
<1> QED
  BY <1>1, <1>2, AccountedWrite

LEMMA ReclaimTells ==
  ASSUME Inv, Marked, Explained, NEW i, NEW a \in Agent, NEW expected, NEW actor \in Holder,
         NEW commit \in BOOLEAN, Reclaim(i, a, expected, actor, commit)
  PROVE  Explained'
<1> DEFINE events == <<Event("reclaimed", actor, expected, a)>>
<1>1. i \in Live /\ row[i] \in Row /\ Write(i, HeldBy(row[i], a, commit), events)
  BY LiveRow DEF Reclaim
<1>2. Accounts(row[i], HeldBy(row[i], a, commit), events)
  BY <1>1, ReclaimAccounts
<1> HIDE DEF events
<1> QED
  BY <1>1, <1>2, AccountedWrite

LEMMA UndoTells ==
  ASSUME Inv, Marked, Explained, NEW i, NEW actor \in Holder, NEW expectedEvent, NEW override,
         Undo(i, actor, expectedEvent, override)
  PROVE  Explained'
<1> DEFINE l == log[i]
           r == row[i]
           u == Newest(Undoable(l))
           e == [Event("undone", actor, UndoTarget(i).kind, expectedEvent) EXCEPT
                    !.note = IF MayUndo(r, actor, FALSE) THEN Nil ELSE r.assignee]
           events == <<e>>
<1>1. /\ i \in Live /\ Undoable(l) # {} /\ UndoTarget(i).id = expectedEvent
      /\ Write(i, Reverted(r, UndoTarget(i)), events)
  BY DEF Undo
<1>2. r \in Row /\ Logged(l, lastId[i]) /\ IsSequence(l) /\ Tells(l, r)
  BY <1>1, LiveRow, LiveLogged DEF Explained
<1>3. UndoTarget(i) = l[u]
  BY DEF UndoTarget
<1>4. u \in Undoable(l) /\ \A j \in Undoable(l) : j <= u
  <2>1. Undoable(l) \subseteq DOMAIN l
    BY DEF Undoable
  <2> HIDE DEF l
  <2> QED
    BY <1>1, <1>2, <2>1, NewestIs
<1>5. e.kind = "undone" /\ e.new = l[u].id /\ e.old = l[u].kind
  BY <1>1, <1>3 DEF Event
<1> HIDE DEF e, u
<1>6. /\ IsSequence(events) /\ 1 \in DOMAIN events /\ \A k \in DOMAIN events : k = 1
      /\ events[1] = e
  BY DEF IsSequence
<1> HIDE DEF events
<1> DEFINE b == l \o Stamp(i, events)
<1>7. Extends(b, l, events, lastId[i])
  BY <1>2, <1>6, StampExtends
<1> HIDE DEF b, l, r
<1>8. HolderTold(b, Reverted(r, l[u]).assignee)
  BY <1>2, <1>4, <1>5, <1>6, <1>7, HolderUndone DEF Tells
<1>9. ASSUME NEW kind \in ColumnKinds PROVE Column(b, kind, Reverted(r, l[u]))
  BY <1>2, <1>4, <1>5, <1>6, <1>7, ColumnUndone DEF Tells
<1>10. Tells(b, Reverted(r, l[u]))
  BY <1>8, <1>9 DEF Tells
<1> QED
  BY <1>1, <1>3, <1>10, WriteTells DEF b, l

LEMMA CreateTells ==
  ASSUME Inv, Explained, NEW i \in Issue, NEW actor \in Holder, NEW q, Create(i, actor, q)
  PROVE  Explained'
<1> DEFINE l == Stamp(i, <<Event("created", actor, Nil, Nil)>>)
<1>1. i \notin Live /\ DOMAIN row' = Live \cup {i}
  BY DEF Create
<1>2. \A j \in Live : row'[j] = row[j] /\ log'[j] = log[j]
  BY <1>1 DEF Create
<1>3. log'[i] = l
  BY DEF Create
<1>4. DOMAIN l = {1} /\ l[1].kind = "created"
  BY DEF Stamp, Event
<1> HIDE DEF l
<1>5. HolderEntries(l) = {} /\ \A kind \in ColumnKinds : NewestDone(l, kind) = {}
  BY <1>4 DEF HolderEntries, HolderKinds, ReleaseKinds, NewestDone, ColumnKinds
<1>6. ASSUME NEW r PROVE Tells(l, r)
  BY <1>5 DEF Tells, HolderTold, Column, ChainOn
<1> QED
  BY <1>1, <1>2, <1>3, <1>6 DEF Explained, Live

LEMMA ArchiveTells ==
  ASSUME Inv, Marked, Explained, NEW actor \in Holder, NEW age, ArchiveClosed(actor, age)
  PROVE  Explained'
<1> DEFINE S == Archivable(age)
           events == <<Event("archived", actor, Nil, Nil)>>
<1>1. /\ row' = [i \in Live |-> IF i \in S
                    THEN [row[i] EXCEPT !.status = Archived] ELSE row[i]]
      /\ log' = [i \in Live |-> IF i \in S THEN log[i] \o Stamp(i, events) ELSE log[i]]
  BY DEF ArchiveClosed
<1>2. \A i \in S : i \in Live /\ row[i].status \in StateSet /\ IsDone(row[i].status)
  BY DEF Archivable
<1>3. ASSUME NEW i \in S
      PROVE  Accounts(row[i], [row[i] EXCEPT !.status = Archived], events)
  BY <1>2, <1>3, LiveRow, ArchiveAccounts
<1> HIDE DEF S, events
<1>4. ASSUME NEW i \in Live PROVE Tells(log'[i], row'[i])
  <2>1. Tells(log[i], row[i]) /\ Logged(log[i], lastId[i])
    BY LiveLogged DEF Explained
  <2>2. CASE i \in S
    <3>1. Tells(log[i] \o Stamp(i, events), [row[i] EXCEPT !.status = Archived])
      BY <1>3, <2>1, <2>2, AppendTells
    <3> QED
      BY <1>1, <2>2, <3>1
  <2>3. CASE i \notin S
    BY <1>1, <2>1, <2>3
  <2> QED
    BY <2>2, <2>3
<1>5. DOMAIN row' = Live
  BY <1>1
<1> QED
  BY <1>4, <1>5 DEF Explained, Live

LEMMA CompactTells ==
  ASSUME Inv, Marked, Explained, NEW keep \in KeepRecent, CompactEvents(keep)
  PROVE  Explained'
<1>1. /\ log' = [i \in Live |-> IF row[i].status = Archived
                                THEN Kept(log[i], keep) ELSE log[i]]
      /\ row' = row
  BY DEF CompactEvents
<1>2. keep \in Nat
  BY StoreAssumption
<1>3. ASSUME NEW i \in Live PROVE Tells(log'[i], row[i])
  <2>1. Tells(log[i], row[i]) /\ Logged(log[i], lastId[i])
    BY LiveLogged DEF Explained
  <2>2. Tells(Kept(log[i], keep), row[i])
    BY <1>2, <2>1, KeptTells
  <2> QED
    BY <1>1, <2>1, <2>2
<1> QED
  BY <1>1, <1>3 DEF Explained, Live

LEMMA DeleteTells ==
  ASSUME Explained, NEW i, NEW force, Delete(i, force)
  PROVE  Explained'
<1>1. row' = [j \in Live \ {i} |-> row[j]] /\ log' = [j \in Live \ {i} |-> log[j]]
  BY DEF Delete
<1> QED
  BY <1>1 DEF Explained, Live

LEMMA IdleTells ==
  ASSUME Explained, Tick \/ UNCHANGED vars
  PROVE  Explained'
<1>1. row' = row /\ log' = log
  BY DEF Tick, vars
<1> QED
  BY <1>1 DEF Explained, Live

LEMMA NextTells ==
  ASSUME Inv, Marked, Explained, [Next]_vars
  PROVE  Explained'
<1>1. CASE \E i \in Issue, actor \in Holder, q \in CreateRequest : Create(i, actor, q)
  BY <1>1, CreateTells
<1>2. ASSUME NEW i \in Issue, StatusWrite(i) PROVE Explained'
  <2>1. CASE \E actor \in Holder, expected \in Expected, q \in UpdateRequest :
                Update(i, actor, expected, q)
    BY <2>1, UpdateTells
  <2>2. CASE \E actor \in Holder, expected \in Expected, s \in StateSet \cup {Nil},
                reason, force, commit \in BOOLEAN :
                Close(i, actor, expected, s, reason, force, commit)
    BY <2>2, CloseTells
  <2>3. CASE \E actor \in Holder : Reopen(i, actor)
    BY <2>3, ReopenTells
  <2> QED
    BY <1>2, <2>1, <2>2, <2>3 DEF StatusWrite
<1>3. ASSUME NEW i \in Issue, ClaimWrite(i) PROVE Explained'
  <2>1. CASE \E a \in Agent, actor \in Holder, commit \in BOOLEAN,
                request \in RequestId \cup {Nil} : Claim(i, a, actor, commit, request)
    BY <2>1, ClaimTells
  <2>2. CASE \E actor \in Holder, expected \in Agent \cup {Nil},
                override, revert \in BOOLEAN :
                Release(i, actor, expected, override, revert)
    BY <2>2, ReleaseTells
  <2>3. CASE \E actor \in Holder, expected \in Agent \cup {Nil}, override \in BOOLEAN :
                Heartbeat(i, actor, expected, override)
    BY <2>3, HeartbeatTells
  <2>4. CASE \E a, expected \in Agent, actor \in Holder, commit \in BOOLEAN :
                Reclaim(i, a, expected, actor, commit)
    BY <2>4, ReclaimTells
  <2> QED
    BY <1>3, <2>1, <2>2, <2>3, <2>4 DEF ClaimWrite
<1>4. CASE \E i \in Issue, actor \in Holder, id \in 1..MaxEvents,
              override \in BOOLEAN : Undo(i, actor, id, override)
  BY <1>4, UndoTells
<1>5. CASE Maintenance
  BY <1>5, ArchiveTells, CompactTells, DeleteTells, IdleTells DEF Maintenance
<1>6. CASE UNCHANGED vars
  BY <1>6, IdleTells
<1> QED
  BY <1>1, <1>2, <1>3, <1>4, <1>5, <1>6 DEF Next

-----------------------------------------------------------------------------
(* The theorem                                                                   *)

\* What the newest link of each chain says is what the run's invariant asks for.
LEMMA ExplainedRows ==
  ASSUME Inv, Explained
  PROVE  RowExplained
<1>1. ASSUME NEW i \in Live, NEW kind \in ColumnKinds, NewestDone(log[i], kind) # {}
      PROVE  Shows(row[i], kind, log[i][Newest(NewestDone(log[i], kind))].new)
  <2> DEFINE K == NewestDone(log[i], kind)
  <2>1. IsSequence(log[i]) /\ K \subseteq DOMAIN log[i] /\ K # {}
    BY <1>1, LiveRow DEF LogOK, NewestDone
  <2>2. ChainOn(K, log[i], kind, row[i])
    BY DEF Explained, Tells, Column
  <2> HIDE DEF K
  <2>3. Newest(K) \in K /\ \A j \in K : j <= Newest(K)
    BY <2>1, NewestIs
  <2>4. Shows(row[i], kind, log[i][Newest(K)].new)
    BY <2>2, <2>3 DEF ChainOn
  <2> QED
    BY <2>4 DEF K
<1>2. StatusExplained
  BY <1>1 DEF StatusExplained, ExplainedBy, Shows, ColumnKinds
<1>3. PriorityExplained
  BY <1>1 DEF PriorityExplained, ExplainedBy, Shows, ColumnKinds
<1>4. FieldsExplained
  BY <1>1 DEF FieldsExplained, ExplainedBy, Shows, ColumnKinds
<1>5. HolderExplained
  <2> SUFFICES ASSUME NEW i \in Live, HolderEntries(log[i]) # {}
               PROVE  TellsHolder(log[i], Newest(HolderEntries(log[i])), row[i].assignee)
    BY DEF HolderExplained
  <2> DEFINE K == HolderEntries(log[i])
  <2>1. IsSequence(log[i]) /\ K \subseteq DOMAIN log[i] /\ K # {}
    BY LiveRow DEF LogOK, HolderEntries
  <2>2. \A k \in K : (\A m \in K : m <= k) => TellsHolder(log[i], k, row[i].assignee)
    BY DEF Explained, Tells, HolderTold
  <2> HIDE DEF K
  <2>3. Newest(K) \in K /\ \A j \in K : j <= Newest(K)
    BY <2>1, NewestIs
  <2>4. TellsHolder(log[i], Newest(K), row[i].assignee)
    BY <2>2, <2>3
  <2> QED
    BY <2>4 DEF K
<1> QED
  BY <1>2, <1>3, <1>4, <1>5 DEF RowExplained

LEMMA ExplainedInvariance == Spec => []Explained
<1>1. Init => Explained
  BY DEF Init, Explained, Live
<1>2. Inv /\ Marked /\ Explained /\ [Next]_vars => Explained'
  BY NextTells
<1> QED
  BY <1>1, <1>2, Invariance, MarkedInvariance, PTL DEF Spec

(* For every template, however claims, updates, closes, releases, undos, archiving  *)
(* and compaction interleave: the status, the priority, the fields and the holder   *)
(* of an issue are what the newest entries of its audit log say.                    *)
THEOREM LogExplainsRow == Spec => []RowExplained
<1>1. Inv /\ Explained => RowExplained
  BY ExplainedRows
<1> QED
  BY <1>1, Invariance, ExplainedInvariance, PTL

-----------------------------------------------------------------------------
(* A closure is dated once.  Where no edge joins two done statuses, no entry of   *)
(* a log does; so nothing an undo puts back takes a done issue to a done status.  *)

NoRedating(events) ==
    \A k \in DOMAIN events :
        events[k].kind = "status_changed" => ~(IsDone(events[k].old) /\ IsDone(events[k].new))

DatedOnce == \A i \in Live : NoRedating(log[i])

\* As long as it stays done, r keeps its date and its anchor.
Steady(r, s) ==
    IsDone(r.status) /\ IsDone(s.status)
    => s.closedAt = r.closedAt /\ s.closeCommit = r.closeCommit

Stands == \A i \in Live \cap DOMAIN row' : Steady(row[i], row'[i])

\* A status shown for a value is done exactly when the value is.
LEMMA ShownDone ==
  ASSUME NEW r, NEW v, Shows(r, "status_changed", v)
  PROVE  IsDone(r.status) <=> IsDone(v)
BY ArchivedIsDone DEF Shows

\* A write into or out of done, or between two statuses that are not, redates nothing.
LEMMA MovesDate ==
  ASSUME NEW r, NEW s, NEW events, Moves(r, s, "status_changed", events),
         ~(IsDone(r.status) /\ IsDone(s.status))
  PROVE  NoRedating(events)
<1>1. CASE Silent(events, {"status_changed"})
  BY <1>1 DEF Silent, NoRedating
<1>2. ASSUME NEW e, One(events, {"status_changed"}, e), Shows(s, "status_changed", e.new),
             \A v : Shows(r, "status_changed", v) => Leads("status_changed", v, e.old)
      PROVE  NoRedating(events)
  <2>1. Shows(r, "status_changed", r.status)
    BY DEF Shows
  <2>2. e.old = r.status
    BY <1>2, <2>1 DEF Leads
  <2>3. IsDone(s.status) <=> IsDone(e.new)
    BY <1>2, ShownDone
  <2>4. \A k \in DOMAIN events : events[k].kind = "status_changed" => events[k] = e
    BY <1>2 DEF One
  <2> QED
    BY <2>2, <2>3, <2>4 DEF NoRedating
<1> QED
  BY <1>1, <1>2 DEF Moves

\* What is appended and dates nothing anew leaves a log that does not.
LEMMA AppendDates ==
  ASSUME NEW i, NEW l, IsSequence(l), NoRedating(l),
         NEW events, IsSequence(events), NoRedating(events)
  PROVE  NoRedating(l \o Stamp(i, events))
<1> DEFINE b == l \o Stamp(i, events)
<1>1. Extends(b, l, events, lastId[i])
  BY StampExtends
<1> HIDE DEF b
<1>2. ASSUME NEW m \in DOMAIN b, b[m].kind = "status_changed"
      PROVE  ~(IsDone(b[m].old) /\ IsDone(b[m].new))
  <2>1. CASE m \in DOMAIN l
    BY <1>1, <1>2, <2>1 DEF Extends, NoRedating
  <2>2. ASSUME NEW k \in DOMAIN events, m = Len(l) + k
        PROVE  ~(IsDone(b[m].old) /\ IsDone(b[m].new))
    BY <1>1, <1>2, <2>2 DEF Extends, NoRedating
  <2> QED
    BY <1>1, <2>1, <2>2 DEF Extends
<1> QED
  BY <1>2 DEF NoRedating, b

LEMMA WriteDates ==
  ASSUME Inv, Marked, DatedOnce, NEW i \in Live, NEW newRow, NEW events,
         Write(i, newRow, events), IsSequence(events), NoRedating(events),
         Steady(row[i], newRow)
  PROVE  DatedOnce' /\ Stands
<1>1. /\ row' = [row EXCEPT ![i] = newRow]
      /\ log' = [log EXCEPT ![i] = log[i] \o Stamp(i, events)]
  BY DEF Write
<1>2. DOMAIN row' = DOMAIN row /\ i \in DOMAIN log /\ DOMAIN log = DOMAIN row /\ i \in DOMAIN row
  BY <1>1, LiveLogged DEF Live
<1>3. IsSequence(log[i]) /\ NoRedating(log[i])
  BY LiveLogged DEF DatedOnce
<1>4. NoRedating(log[i] \o Stamp(i, events))
  BY <1>3, AppendDates
<1>5. ASSUME NEW j \in DOMAIN row PROVE NoRedating(log'[j]) /\ Steady(row[j], row'[j])
  <2>1. CASE j = i
    BY <1>1, <1>2, <1>4, <2>1
  <2>2. CASE j # i
    BY <1>1, <1>2, <2>2 DEF DatedOnce, Live, Steady
  <2> QED
    BY <2>1, <2>2
<1> QED
  BY <1>2, <1>5 DEF DatedOnce, Stands, Live

\* A write to an issue that is not done, or that leaves done.
LEMMA AccountedDates ==
  ASSUME Inv, Marked, DatedOnce, NEW i \in Live, NEW newRow, NEW events,
         Write(i, newRow, events), Accounts(row[i], newRow, events),
         ~(IsDone(row[i].status) /\ IsDone(newRow.status))
  PROVE  DatedOnce' /\ Stands
<1>1. IsSequence(events) /\ NoRedating(events)
  BY MovesDate DEF Accounts, ColumnKinds
<1>2. Steady(row[i], newRow)
  BY DEF Steady
<1> QED
  BY <1>1, <1>2, WriteDates
\* Where dones are apart, an update that stays done leaves status and closure alone.
LEMMA UpdateDates ==
  ASSUME DonesApart, Inv, Marked, DatedOnce, NEW i \in Live, NEW q \in Updates,
         NEW actor \in Holder, NEW backward \in BOOLEAN, NEW checked \in BOOLEAN,
         TransitionAllowed(row[i], q, backward),
         Write(i, UpdatedRow(row[i], q), UpdateEvents(row[i], q, actor, backward, checked))
  PROVE  DatedOnce' /\ Stands
<1> DEFINE r == row[i]
           u == UpdatedRow(r, q)
           events == UpdateEvents(r, q, actor, backward, checked)
           c == Changes(q.status, r.status)
<1>1. r \in Row
  BY LiveRow
<1>2. Accounts(r, u, events)
  BY <1>1, UpdateAccounts
<1>3. CASE c
  <2>1. u.status = q.status
    BY <1>1, <1>3, UpdatedIs
  <2>2. ~(IsDone(r.status) /\ IsDone(q.status))
    BY <1>3 DEF TransitionAllowed, ForwardAllowed, BackwardAllowed, DonesApart
  <2> HIDE DEF u, events
  <2>3. ~(IsDone(r.status) /\ IsDone(u.status))
    BY <2>1, <2>2
  <2> QED
    BY <1>2, <2>3, AccountedDates DEF u, events
<1>4. CASE ~c
  <2>1. q.commit \in BOOLEAN
    BY DEF Updates
  <2>2. Says(events, {"status_changed"}, c, Event("status_changed", actor, r.status, q.status))
    BY <2>1, UpdateSays
  <2>3. NoRedating(events)
    BY <1>4, <2>2 DEF Says, Silent, NoRedating
  <2>4. Steady(r, u)
    <3> DEFINE a == IF Changes(q.assignee, r.assignee)
                    THEN Assigned(r, q.assignee, q.commit) ELSE r
    <3>1. r = [x \in Columns |-> r[x]]
      BY <1>1 DEF Row, Columns
    <3>2. /\ a = [x \in Columns |-> a[x]]
          /\ a.closedAt = r.closedAt /\ a.closeCommit = r.closeCommit
      BY <3>1 DEF Assigned, Unheld, HeldBy, Columns
    <3>3. u = [a EXCEPT !.priority = IF q.priority = Nil THEN @ ELSE q.priority,
                        !.fields = MergedFields(r, q)]
      BY <1>4 DEF UpdatedRow
    <3> HIDE DEF a
    <3>4. u.closedAt = a.closedAt /\ u.closeCommit = a.closeCommit
      BY <3>2, <3>3 DEF Columns
    <3> QED
      BY <3>2, <3>4 DEF Steady
  <2>5. IsSequence(events)
    BY <1>2 DEF Accounts
  <2> HIDE DEF u, events
  <2> QED
    BY <2>3, <2>4, <2>5, WriteDates DEF u, events
<1> QED
  BY <1>3, <1>4

LEMMA CloseDates ==
  ASSUME DonesApart, Inv, Marked, DatedOnce, NEW i, NEW actor \in Holder, NEW expected,
         NEW target, NEW reason \in BOOLEAN, NEW force \in BOOLEAN, NEW commit \in BOOLEAN,
         Close(i, actor, expected, target, reason, force, commit)
  PROVE  DatedOnce' /\ Stands
<1> DEFINE q == CloseRequest(row[i], target, reason, commit)
           s == CloseTarget(target)
           F == IF reason THEN row[i].fields \cup {CloseReason} ELSE Nil
<1>1. i \in Live /\ row[i] \in Row /\ s \in StateSet
  BY LiveRow DEF Close, Closable
<1>2. q \in Updates
  <2>1. F \in {Nil} \cup SUBSET Field
    BY <1>1, StoreAssumption DEF Row
  <2>2. q = [StatusRequest(s) EXCEPT !.fields = F, !.commit = commit]
    BY DEF CloseRequest
  <2> HIDE DEF s, F, q
  <2> QED
    BY <1>1, <2>1, <2>2, RequestTyped
<1>3. /\ TransitionAllowed(row[i], q, force)
      /\ Write(i, UpdatedRow(row[i], q), UpdateEvents(row[i], q, actor, force, TRUE))
  BY DEF Close, Closable
<1> HIDE DEF q
<1> QED
  BY <1>1, <1>2, <1>3, UpdateDates

LEMMA ReopenDates ==
  ASSUME Inv, Marked, DatedOnce, NEW i, NEW actor \in Holder, Reopen(i, actor)
  PROVE  DatedOnce' /\ Stands
<1> DEFINE r == row[i]
           s == ReopenTarget(log[i])
           q == StatusRequest(s)
           kept == r.fields \ {CloseReason}
           u == [UpdatedRow(r, q) EXCEPT !.fields = kept]
           events == UpdateEvents(r, q, actor, TRUE, FALSE)
                     \o When(kept # r.fields, Event("fields_changed", actor, r.fields, kept))
                     \o <<Event("reopened", actor, r.status, s)>>
<1>1. i \in Live /\ TransitionAllowed(r, q, TRUE) /\ Write(i, u, events) /\ IsDone(r.status)
  BY DEF Reopen
<1>2. r \in Row /\ s \in StateSet /\ ~IsDone(s)
  BY <1>1, LiveRow, ReopenTargetOpen
<1> HIDE DEF r, s
<1>3. Accounts(r, u, events)
  BY <1>1, <1>2, ReopenAccounts
<1>4. u.status = s
  <2>1. Changes(q.status, r.status) /\ q.status = s
    BY <1>1, <1>2, TemplateAssumption DEF Changes, StatusRequest
  <2>2. /\ UpdatedRow(r, q).status = s
        /\ UpdatedRow(r, q) = [x \in Columns |-> UpdatedRow(r, q)[x]]
    BY <1>2, <2>1, UpdatedIs
  <2> QED
    BY <2>2 DEF Columns
<1> HIDE DEF u, events
<1>5. ~(IsDone(r.status) /\ IsDone(u.status))
  BY <1>2, <1>4
<1> QED
  BY <1>1, <1>3, <1>5, AccountedDates DEF r

\* The writes that move a claim ask for an issue that is not done.
LEMMA ClaimDates ==
  ASSUME Inv, Marked, DatedOnce, NEW i, ClaimWrite(i)
  PROVE  DatedOnce' /\ Stands
<1>1. ASSUME NEW a \in Agent, NEW actor \in Holder, NEW commit \in BOOLEAN, NEW request,
             Claim(i, a, actor, commit, request)
      PROVE  DatedOnce' /\ Stands
  <2> DEFINE events == <<[Event("claimed", actor, row[i].assignee, a) EXCEPT !.note = request]>>
  <2>1. /\ i \in Live /\ row[i] \in Row /\ ~IsDone(row[i].status)
        /\ Write(i, Claimed(row[i], a, commit), events)
    BY <1>1, LiveRow DEF Claim, Claimable
  <2>2. Accounts(row[i], Claimed(row[i], a, commit), events)
    BY <2>1, ClaimAccounts
  <2> HIDE DEF events
  <2> QED
    BY <2>1, <2>2, AccountedDates
<1>2. ASSUME NEW actor \in Holder, NEW expected, NEW override, NEW revert,
             Release(i, actor, expected, override, revert)
      PROVE  DatedOnce' /\ Stands
  <2> DEFINE target == ReleaseTo(row[i], revert)
  <2>1. /\ i \in Live /\ row[i] \in Row /\ ~IsDone(row[i].status)
        /\ Write(i, Released(row[i], target), ReleaseEvents(row[i], actor, target))
    BY <1>2, LiveRow DEF Release
  <2> HIDE DEF target
  <2>2. Accounts(row[i], Released(row[i], target), ReleaseEvents(row[i], actor, target))
    BY <2>1, ReleaseAccounts
  <2> QED
    BY <2>1, <2>2, AccountedDates
<1>3. ASSUME NEW actor \in Holder, NEW expected, NEW override,
             Heartbeat(i, actor, expected, override)
      PROVE  DatedOnce' /\ Stands
  <2> DEFINE s == [row[i] EXCEPT !.leaseEnd = now + LeaseLength]
             events == <<Event(IF row[i].assignee = actor THEN "heartbeat"
                               ELSE "heartbeat_by_override", actor, row[i].assignee, Nil)>>
  <2>1. i \in Live /\ row[i] \in Row /\ ~IsDone(row[i].status) /\ Write(i, s, events)
    BY <1>3, LiveRow DEF Heartbeat
  <2>2. Accounts(row[i], s, events)
    BY <2>1, HeartbeatAccounts
  <2> HIDE DEF s, events
  <2> QED
    BY <2>1, <2>2, AccountedDates
<1>4. ASSUME NEW a \in Agent, NEW expected, NEW actor \in Holder, NEW commit \in BOOLEAN,
             Reclaim(i, a, expected, actor, commit)
      PROVE  DatedOnce' /\ Stands
  <2> DEFINE events == <<Event("reclaimed", actor, expected, a)>>
  <2>1. /\ i \in Live /\ row[i] \in Row /\ ~IsDone(row[i].status)
        /\ Write(i, HeldBy(row[i], a, commit), events)
    BY <1>4, LiveRow DEF Reclaim
  <2>2. Accounts(row[i], HeldBy(row[i], a, commit), events)
    BY <2>1, ReclaimAccounts
  <2> HIDE DEF events
  <2> QED
    BY <2>1, <2>2, AccountedDates
<1> QED
  BY <1>1, <1>2, <1>3, <1>4 DEF ClaimWrite
\* Undo leaves a closure alone unless it takes back a status change; and the newest
\* of those, which led to the status shown, did not start from a done one.
LEMMA RevertedSteady ==
  ASSUME NEW r \in Row, NEW t, t.kind \in ReversibleKinds,
         t.kind = "status_changed" => ~(IsDone(r.status) /\ IsDone(t.old))
  PROVE  Steady(r, Reverted(r, t))
<1> DEFINE s == Reverted(r, t)
<1>1. r = [c \in Columns |-> r[c]]
  BY DEF Row, Columns
<1>2. CASE t.kind = "status_changed"
  <2>1. s.status = t.old
    BY <1>2, RevertedIs
  <2> HIDE DEF s
  <2> QED
    BY <1>2, <2>1 DEF Steady, s
<1>3. CASE t.kind \in {"assignee_changed", "claimed"}
  <2>1. s = Assigned(r, t.old, FALSE)
    BY <1>3 DEF Reverted
  <2> HIDE DEF s
  <2>2. s.closedAt = r.closedAt /\ s.closeCommit = r.closeCommit
    BY <1>1, <2>1 DEF Assigned, Unheld, HeldBy, Columns
  <2> QED
    BY <2>2 DEF Steady, s
<1>4. CASE t.kind = "priority_changed"
  <2>1. s = [r EXCEPT !.priority = t.old]
    BY <1>4 DEF Reverted
  <2> HIDE DEF s
  <2> QED
    BY <1>1, <2>1 DEF Columns, Steady, s
<1>5. CASE t.kind = "fields_changed"
  <2>1. s = [r EXCEPT !.fields = t.old]
    BY <1>5 DEF Reverted
  <2> HIDE DEF s
  <2> QED
    BY <1>1, <2>1 DEF Columns, Steady, s
<1> QED
  BY <1>2, <1>3, <1>4, <1>5 DEF ReversibleKinds

LEMMA UndoDates ==
  ASSUME Inv, Marked, Explained, DatedOnce, NEW i, NEW actor \in Holder, NEW expectedEvent,
         NEW override, Undo(i, actor, expectedEvent, override)
  PROVE  DatedOnce' /\ Stands
<1> DEFINE l == log[i]
           r == row[i]
           u == Newest(Undoable(l))
           N == NewestDone(l, "status_changed")
           e == [Event("undone", actor, UndoTarget(i).kind, expectedEvent) EXCEPT
                    !.note = IF MayUndo(r, actor, FALSE) THEN Nil ELSE r.assignee]
           events == <<e>>
<1>1. /\ i \in Live /\ Undoable(l) # {} /\ UndoTarget(i) = l[u]
      /\ Write(i, Reverted(r, UndoTarget(i)), events)
  BY DEF Undo, UndoTarget
<1>2. r \in Row /\ IsSequence(l) /\ Column(l, "status_changed", r) /\ NoRedating(l)
  BY <1>1, LiveRow, LiveLogged DEF Explained, Tells, ColumnKinds, DatedOnce
<1>3. u \in Undoable(l) /\ \A j \in Undoable(l) : j <= u
  <2>1. Undoable(l) \subseteq DOMAIN l
    BY DEF Undoable
  <2> HIDE DEF l
  <2> QED
    BY <1>1, <1>2, <2>1, NewestIs
<1>4. e.kind = "undone"
  BY DEF Event
<1> HIDE DEF e
<1>5. IsSequence(events) /\ NoRedating(events)
  BY <1>4 DEF IsSequence, NoRedating
<1> HIDE DEF events, l, r, u
<1>6. l[u].kind \in ReversibleKinds
  BY <1>3 DEF Undoable
<1>7. ASSUME l[u].kind = "status_changed" PROVE ~(IsDone(r.status) /\ IsDone(l[u].old))
  <2>1. u \in N /\ \A j \in N : j <= u
    BY <1>3, <1>7 DEF Undoable, NewestDone, ReversibleKinds
  <2>2. Shows(r, "status_changed", l[u].new)
    BY <1>2, <2>1 DEF Column, ChainOn
  <2>3. IsDone(r.status) <=> IsDone(l[u].new)
    BY <2>2, ShownDone
  <2>4. u \in DOMAIN l
    BY <2>1 DEF NewestDone
  <2> QED
    BY <1>2, <1>7, <2>3, <2>4 DEF NoRedating
<1>8. Steady(r, Reverted(r, l[u]))
  BY <1>2, <1>6, <1>7, RevertedSteady
<1> QED
  BY <1>1, <1>5, <1>8, WriteDates DEF r

LEMMA CreateDates ==
  ASSUME Inv, DatedOnce, NEW i \in Issue, NEW actor \in Holder, NEW q, Create(i, actor, q)
  PROVE  DatedOnce' /\ Stands
<1> DEFINE l == Stamp(i, <<Event("created", actor, Nil, Nil)>>)
<1>1. i \notin Live /\ DOMAIN row' = Live \cup {i}
  BY DEF Create
<1>2. \A j \in Live : row'[j] = row[j] /\ log'[j] = log[j]
  BY <1>1 DEF Create
<1>3. log'[i] = l
  BY DEF Create
<1>4. DOMAIN l = {1} /\ l[1].kind = "created"
  BY DEF Stamp, Event
<1> HIDE DEF l
<1>5. NoRedating(l)
  BY <1>4 DEF NoRedating
<1>6. DatedOnce'
  BY <1>1, <1>2, <1>3, <1>5 DEF DatedOnce, Live
<1>7. Stands
  BY <1>1, <1>2 DEF Stands, Steady
<1> QED
  BY <1>6, <1>7

LEMMA ArchiveDates ==
  ASSUME Inv, Marked, DatedOnce, NEW actor \in Holder, NEW age, ArchiveClosed(actor, age)
  PROVE  DatedOnce' /\ Stands
<1> DEFINE S == Archivable(age)
           events == <<Event("archived", actor, Nil, Nil)>>
<1>1. /\ row' = [i \in Live |-> IF i \in S
                    THEN [row[i] EXCEPT !.status = Archived] ELSE row[i]]
      /\ log' = [i \in Live |-> IF i \in S THEN log[i] \o Stamp(i, events) ELSE log[i]]
  BY DEF ArchiveClosed
<1>2. IsSequence(events) /\ NoRedating(events)
  BY DEF IsSequence, NoRedating, Event
<1> HIDE DEF S, events
<1>3. ASSUME NEW i \in Live PROVE NoRedating(log'[i]) /\ Steady(row[i], row'[i])
  <2>1. IsSequence(log[i]) /\ NoRedating(log[i]) /\ row[i] \in Row
    BY LiveLogged, LiveRow DEF DatedOnce
  <2>2. NoRedating(log[i] \o Stamp(i, events))
    BY <1>2, <2>1, AppendDates
  <2>3. Steady(row[i], [row[i] EXCEPT !.status = Archived])
    BY <2>1 DEF Steady, Row
  <2>4. Steady(row[i], row[i])
    BY DEF Steady
  <2> QED
    BY <1>1, <2>1, <2>2, <2>3, <2>4
<1>4. DOMAIN row' = Live
  BY <1>1
<1> QED
  BY <1>3, <1>4 DEF DatedOnce, Stands, Live

LEMMA CompactDates ==
  ASSUME Inv, Marked, DatedOnce, NEW keep \in KeepRecent, CompactEvents(keep)
  PROVE  DatedOnce' /\ Stands
<1>1. /\ log' = [i \in Live |-> IF row[i].status = Archived
                                THEN Kept(log[i], keep) ELSE log[i]]
      /\ row' = row
  BY DEF CompactEvents
<1>2. ASSUME NEW i \in Live PROVE NoRedating(log'[i])
  <2> DEFINE l == log[i]
             b == Kept(l, keep)
  <2>1. IsSequence(l) /\ NoRedating(l) /\ keep \in Nat
    BY LiveLogged, StoreAssumption DEF DatedOnce
  <2>2. PICK d \in Nat : /\ d <= Len(l) /\ DOMAIN b = 1..(Len(l) - d)
                         /\ \A k \in 1..(Len(l) - d) : b[k] = l[k + d]
    BY <2>1, KeptIsSuffix
  <2>3. DOMAIN l = 1..Len(l) /\ Len(l) \in Nat
    BY <2>1 DEF IsSequence
  <2> HIDE DEF l, b
  <2>4. \A k \in DOMAIN b : k + d \in DOMAIN l /\ b[k] = l[k + d]
    BY <2>2, <2>3
  <2>5. NoRedating(b)
    BY <2>1, <2>4 DEF NoRedating
  <2> QED
    BY <1>1, <2>1, <2>5 DEF b, l
<1>3. DatedOnce'
  BY <1>1, <1>2 DEF DatedOnce, Live
<1>4. Stands
  BY <1>1 DEF Stands, Steady
<1> QED
  BY <1>3, <1>4

LEMMA DeleteDates ==
  ASSUME DatedOnce, NEW i, NEW force, Delete(i, force)
  PROVE  DatedOnce' /\ Stands
<1>1. row' = [j \in Live \ {i} |-> row[j]] /\ log' = [j \in Live \ {i} |-> log[j]]
  BY DEF Delete
<1> QED
  BY <1>1 DEF DatedOnce, Stands, Steady, Live

LEMMA IdleDates ==
  ASSUME DatedOnce, Tick \/ UNCHANGED vars
  PROVE  DatedOnce' /\ Stands
<1>1. row' = row /\ log' = log
  BY DEF Tick, vars
<1> QED
  BY <1>1 DEF DatedOnce, Stands, Steady, Live

LEMMA NextDates ==
  ASSUME DonesApart, Inv, Marked, Explained, DatedOnce, [Next]_vars
  PROVE  DatedOnce' /\ Stands
<1>1. CASE \E i \in Issue, actor \in Holder, q \in CreateRequest : Create(i, actor, q)
  BY <1>1, CreateDates
<1>2. ASSUME NEW i \in Issue, StatusWrite(i) PROVE DatedOnce' /\ Stands
  <2>1. ASSUME NEW actor \in Holder, NEW expected \in Expected, NEW q \in UpdateRequest,
               Update(i, actor, expected, q)
        PROVE  DatedOnce' /\ Stands
    <3>1. /\ i \in Live /\ q \in Updates /\ TransitionAllowed(row[i], q, FALSE)
          /\ Write(i, UpdatedRow(row[i], q), UpdateEvents(row[i], q, actor, FALSE, FALSE))
      BY <2>1, StoreAssumption DEF Update
    <3> QED
      BY <3>1, UpdateDates
  <2>2. CASE \E actor \in Holder, expected \in Expected, s \in StateSet \cup {Nil},
                reason, force, commit \in BOOLEAN :
                Close(i, actor, expected, s, reason, force, commit)
    BY <2>2, CloseDates
  <2>3. CASE \E actor \in Holder : Reopen(i, actor)
    BY <2>3, ReopenDates
  <2> QED
    BY <1>2, <2>1, <2>2, <2>3 DEF StatusWrite
<1>3. CASE \E i \in Issue : ClaimWrite(i)
  BY <1>3, ClaimDates
<1>4. CASE \E i \in Issue, actor \in Holder, id \in 1..MaxEvents,
              override \in BOOLEAN : Undo(i, actor, id, override)
  BY <1>4, UndoDates
<1>5. CASE Maintenance
  BY <1>5, ArchiveDates, CompactDates, DeleteDates, IdleDates DEF Maintenance
<1>6. CASE UNCHANGED vars
  BY <1>6, IdleDates
<1> QED
  BY <1>1, <1>2, <1>3, <1>4, <1>5, <1>6 DEF Next

(* For every template in which no edge joins two done statuses, as in all built-in   *)
(* ones: as long as an issue stays done, no late close, update, undo, archiving or    *)
(* claim changes when it was closed or with which commit.                            *)
THEOREM FirstClosuresStand == ASSUME DonesApart PROVE Spec => FirstClosureStands
<1>1. Init => DatedOnce
  BY DEF Init, DatedOnce, Live
<1>2. Inv /\ Marked /\ Explained /\ DatedOnce /\ [Next]_vars => DatedOnce' /\ Stands
  BY NextDates
<1>3. Stands => \A i \in Live \cap DOMAIN row' :
                   IsDone(row[i].status) /\ IsDone(row'[i].status)
                   => /\ row'[i].closedAt = row[i].closedAt
                      /\ row'[i].closeCommit = row[i].closeCommit
  BY DEF Stands, Steady
<1> QED
  BY <1>1, <1>2, <1>3, Invariance, MarkedInvariance, ExplainedInvariance,
     PTL DEF Spec, FirstClosureStands
=============================================================================
