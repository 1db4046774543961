----------------------- MODULE QuestionEditing_proofs -----------------------
(***************************************************************************)
(* Theorems about QuestionEditing for every number of recruiters, actions  *)
(* and generated questions: however whole lists travel, no list ever has   *)
(* two questions with one id, and actions taken on an up-to-date list with *)
(* nothing in flight all land where they were meant to.                    *)
(***************************************************************************)
EXTENDS QuestionEditing, SequenceTheorems, WellFoundedInduction, TLAPS

-----------------------------------------------------------------------------
(***************************************************************************)
(* What filtering a list keeps.  The filter goes through the list from its *)
(* start; what holds of its result is proved for the least length at which *)
(* it would fail.                                                          *)
(***************************************************************************)

(* A set of numbers has a least element.                                   *)
LEMMA Least ==
    ASSUME NEW S \in SUBSET Nat, S # {}
    PROVE  \E m \in S : \A n \in S : m <= n
<1>1. \E m \in S : \A n \in S : ~ (<<n, m>> \in OpToRel(<, Nat))
  BY NatLessThanWellFounded, WFMin
<1>2. PICK m \in S : \A n \in S : ~ (<<n, m>> \in OpToRel(<, Nat))
  BY <1>1
<1>3. ASSUME NEW n \in S PROVE m <= n
  <2>1. m \in Nat /\ n \in Nat
    OBVIOUS
  <2>2. ~ (n < m)
    BY <1>2, <2>1 DEF OpToRel
  <2>. QED BY <2>1, <2>2
<1>. QED BY <1>3

Keeps(f, list, id, m) ==
    f = [n \in 0..m |->
            IF n = 0 THEN <<>>
            ELSE IF list[n].id = id THEN f[n - 1] ELSE Append(f[n - 1], list[n])]

LEMMA KeepsExists ==
    ASSUME NEW list, NEW id, NEW m \in Nat PROVE \E f : Keeps(f, list, id, m)
<1> DEFINE Bad == {n \in Nat : ~ \E f : Keeps(f, list, id, n)}
<1>1. SUFFICES ASSUME Bad # {} PROVE FALSE
  OBVIOUS
<1>2. PICK b \in Bad : \A n \in Bad : b <= n
  BY <1>1, Least
<1>3. CASE b = 0
  <2>1. Keeps([n \in 0..0 |-> <<>>], list, id, 0)
    BY DEF Keeps
  <2>. QED BY <1>3, <2>1
<1>4. CASE b # 0
  <2>1. b - 1 \in Nat /\ b - 1 \notin Bad
    BY <1>2, <1>4
  <2>2. PICK f : Keeps(f, list, id, b - 1)
    BY <2>1
  <2> DEFINE g == [n \in 0..b |->
                IF n = 0 THEN <<>>
                ELSE IF list[n].id = id THEN f[n - 1] ELSE Append(f[n - 1], list[n])]
  <2>3. ASSUME NEW n \in 0..(b - 1) PROVE g[n] = f[n]
    <3>1. f[n] = IF n = 0 THEN <<>>
                 ELSE IF list[n].id = id THEN f[n - 1] ELSE Append(f[n - 1], list[n])
      BY <2>2 DEF Keeps
    <3>2. n \in 0..b
      BY <2>1
    <3>. QED BY <3>1, <3>2
  <2>4. \A n \in 0..b : n # 0 => n - 1 \in 0..(b - 1)
    OBVIOUS
  <2>5. \A n \in 0..b : n # 0 => g[n - 1] = f[n - 1]
    BY <2>3, <2>4
  <2>6. g = [n \in 0..b |->
                IF n = 0 THEN <<>>
                ELSE IF list[n].id = id THEN g[n - 1] ELSE Append(g[n - 1], list[n])]
    BY <2>5
  <2>. QED BY <2>6 DEF Keeps
<1>. QED BY <1>3, <1>4

LEMMA WithoutKeeps ==
    ASSUME NEW list, NEW id, Len(list) \in Nat
    PROVE  \E f : Keeps(f, list, id, Len(list)) /\ Without(list, id) = f[Len(list)]
<1> DEFINE f == CHOOSE h : h = [n \in 0..Len(list) |->
            IF n = 0 THEN <<>>
            ELSE IF list[n].id = id THEN h[n - 1] ELSE Append(h[n - 1], list[n])]
<1>0. \E h : h = [n \in 0..Len(list) |->
            IF n = 0 THEN <<>>
            ELSE IF list[n].id = id THEN h[n - 1] ELSE Append(h[n - 1], list[n])]
  <2>1. PICK h : Keeps(h, list, id, Len(list))
    BY KeepsExists
  <2>. QED BY <2>1, Zenon DEF Keeps
<1>1. Keeps(f, list, id, Len(list))
  <2>1. f = [n \in 0..Len(list) |->
            IF n = 0 THEN <<>>
            ELSE IF list[n].id = id THEN f[n - 1] ELSE Append(f[n - 1], list[n])]
    BY <1>0, Zenon
  <2>. QED BY <2>1 DEF Keeps
<1>2. Without(list, id) = f[Len(list)]
  BY DEF Without
<1>. QED BY <1>1, <1>2

Unique(list) == \A i, j \in DOMAIN list : list[i].id = list[j].id => i = j

(* A list made of the first n questions of another, each taken once.       *)
Picked(out, list, n, S) ==
    /\ out \in Seq(S)
    /\ Unique(out)
    /\ \A i \in DOMAIN out : \E k \in 1..n : out[i] = list[k]

LEMMA PickNext ==
    ASSUME NEW S, NEW list \in Seq(S), Unique(list), NEW n \in Nat, n + 1 <= Len(list),
           NEW out, Picked(out, list, n, S)
    PROVE  Picked(out, list, n + 1, S) /\ Picked(Append(out, list[n + 1]), list, n + 1, S)
<1> DEFINE new == Append(out, list[n + 1])
<1>1. /\ n + 1 \in DOMAIN list /\ list[n + 1] \in S
      /\ \A k \in 1..n : k \in 1..(n + 1) /\ k \in DOMAIN list /\ k # n + 1
  OBVIOUS
<1>2. /\ out \in Seq(S) /\ DOMAIN out = 1..Len(out) /\ Len(out) \in Nat
      /\ \A i \in DOMAIN out : \E k \in 1..n : out[i] = list[k]
  BY DEF Picked
<1>3. /\ new \in Seq(S) /\ DOMAIN new = 1..(Len(out) + 1)
      /\ \A i \in DOMAIN out : new[i] = out[i]
      /\ new[Len(out) + 1] = list[n + 1]
  BY <1>1, <1>2
<1>4. \A i \in DOMAIN new : i \in DOMAIN out \/ i = Len(out) + 1
  BY <1>2, <1>3
<1>5. \A i \in DOMAIN out : out[i].id # list[n + 1].id
  BY <1>1, <1>2 DEF Unique
<1> HIDE DEF new
<1>6. \A i \in DOMAIN new : \E k \in 1..(n + 1) : new[i] = list[k]
  BY <1>1, <1>2, <1>3, <1>4
<1>7. Unique(new)
  BY <1>3, <1>4, <1>5 DEF Unique, Picked
<1>8. Picked(out, list, n + 1, S)
  BY <1>1, <1>2 DEF Picked
<1>. QED BY <1>3, <1>6, <1>7, <1>8 DEF Picked, new

(* The questions that are left are questions of the list, still apart.     *)
LEMMA WithoutPicks ==
    ASSUME NEW S, NEW list \in Seq(S), Unique(list), NEW id
    PROVE  Picked(Without(list, id), list, Len(list), S)
<1>0. Len(list) \in Nat
  OBVIOUS
<1>1. PICK f : Keeps(f, list, id, Len(list)) /\ Without(list, id) = f[Len(list)]
  BY <1>0, WithoutKeeps
<1>2. \A n \in 0..Len(list) :
        f[n] = IF n = 0 THEN <<>>
               ELSE IF list[n].id = id THEN f[n - 1] ELSE Append(f[n - 1], list[n])
  BY <1>1 DEF Keeps
<1> DEFINE Bad == {n \in Nat : n <= Len(list) /\ ~Picked(f[n], list, n, S)}
<1>3. Bad = {}
  <2>1. SUFFICES ASSUME Bad # {} PROVE FALSE
    OBVIOUS
  <2>2. PICK b \in Bad : \A n \in Bad : b <= n
    BY <2>1, Least
  <2>3. b \in 0..Len(list)
    BY <1>0, <2>2
  <2>4. CASE b = 0
    <3>1. f[b] = <<>>
      BY <1>2, <2>3, <2>4
    <3>2. Picked(<<>>, list, b, S)
      BY DEF Picked, Unique
    <3>. QED BY <2>2, <3>1, <3>2
  <2>5. CASE b # 0
    <3>1. /\ b - 1 \in Nat /\ b - 1 <= Len(list) /\ b - 1 \notin Bad /\ b = (b - 1) + 1
          /\ (b - 1) + 1 <= Len(list)
      BY <1>0, <2>2, <2>5
    <3>2. Picked(f[b - 1], list, b - 1, S)
      BY <3>1
    <3>3. Picked(f[b - 1], list, b, S) /\ Picked(Append(f[b - 1], list[b]), list, b, S)
      BY <3>1, <3>2, PickNext
    <3>4. f[b] = f[b - 1] \/ f[b] = Append(f[b - 1], list[b])
      BY <1>2, <2>3, <2>5
    <3>. QED BY <2>2, <3>3, <3>4
  <2>. QED BY <2>4, <2>5
<1>4. Picked(f[Len(list)], list, Len(list), S)
  BY <1>0, <1>3
<1>. QED BY <1>1, <1>4

-----------------------------------------------------------------------------
(* Dragging a question: every place takes the question of a place of the   *)
(* old list, no two of the same.                                           *)
LEMMA MovedPlaces ==
    ASSUME NEW S, NEW list \in Seq(S), NEW from \in DOMAIN list, NEW to \in DOMAIN list,
           NEW new, new = InsertAt(RemoveAt(list, from), to, list[from])
    PROVE  /\ new \in Seq(S) /\ Len(new) = Len(list)
           /\ \A i \in DOMAIN list :
                new[i] = list[IF i = to THEN from
                              ELSE IF i < to THEN (IF i < from THEN i ELSE i + 1)
                              ELSE (IF i - 1 < from THEN i - 1 ELSE i)]
<1> DEFINE rest == RemoveAt(list, from)
           n == Len(list)
           a == SubSeq(list, 1, from - 1)
           b == SubSeq(list, from + 1, n)
           x == SubSeq(rest, 1, to - 1)
           y == <<list[from]>>
           z == SubSeq(rest, to, Len(rest))
<1>1. n \in Nat /\ from \in 1..n /\ to \in 1..n /\ n - 1 \in Nat /\ list[from] \in S
      /\ DOMAIN list = 1..n
  OBVIOUS
<1>2. /\ a \in Seq(S) /\ b \in Seq(S) /\ Len(a) = from - 1 /\ Len(b) = n - from
      /\ \A i \in 1..(from - 1) : a[i] = list[i]
      /\ \A i \in 1..(n - from) : b[i] = list[from + i]
  <2>1. /\ a \in Seq(S) /\ Len(a) = from - 1
        /\ \A i \in 1..(from - 1) : a[i] = list[i]
    <3>1. /\ 1 \in Int /\ from - 1 \in Int /\ \A i \in 1..(from - 1) : list[i] \in S
      BY <1>1
    <3>2. /\ a \in Seq(S) /\ Len(a) = (IF 1 <= from - 1 THEN (from - 1) - 1 + 1 ELSE 0)
          /\ \A i \in 1..((from - 1) - 1 + 1) : a[i] = list[1 + i - 1]
      BY <3>1, SubSeqProperties
    <3>. QED BY <1>1, <3>2
  <2>2. /\ b \in Seq(S) /\ Len(b) = n - from
        /\ \A i \in 1..(n - from) : b[i] = list[from + i]
    <3>1. /\ from + 1 \in Int /\ n \in Int /\ \A i \in (from + 1)..n : list[i] \in S
      BY <1>1
    <3>2. /\ b \in Seq(S) /\ Len(b) = (IF from + 1 <= n THEN n - (from + 1) + 1 ELSE 0)
          /\ \A i \in 1..(n - (from + 1) + 1) : b[i] = list[(from + 1) + i - 1]
      BY <3>1, SubSeqProperties
    <3>. QED BY <1>1, <3>2
  <2>. QED BY <2>1, <2>2
<1>3. rest = a \o b
  BY DEF RemoveAt
<1> HIDE DEF rest, a, b
<1>4. /\ rest \in Seq(S) /\ Len(rest) = n - 1
      /\ \A i \in 1..(n - 1) : rest[i] = list[IF i < from THEN i ELSE i + 1]
  <2>1. /\ rest \in Seq(S) /\ Len(rest) = Len(a) + Len(b)
        /\ \A i \in 1..(Len(a) + Len(b)) :
              rest[i] = IF i <= Len(a) THEN a[i] ELSE b[i - Len(a)]
    BY <1>2, <1>3, ConcatProperties
  <2>2. ASSUME NEW i \in 1..(n - 1)
        PROVE  rest[i] = list[IF i < from THEN i ELSE i + 1]
    <3>1. CASE i < from
      BY <1>1, <1>2, <2>1, <3>1
    <3>2. CASE ~(i < from)
      <4>1. i - (from - 1) \in 1..(n - from) /\ from + (i - (from - 1)) = i + 1
        BY <1>1, <3>2
      <4>2. b[i - (from - 1)] = list[i + 1]
        BY <1>2, <4>1
      <4>. QED BY <1>1, <1>2, <2>1, <3>2, <4>2
    <3>. QED BY <3>1, <3>2
  <2>. QED BY <1>1, <1>2, <2>1, <2>2
<1>5. /\ x \in Seq(S) /\ z \in Seq(S) /\ Len(x) = to - 1 /\ Len(z) = n - to
      /\ \A i \in 1..(to - 1) : x[i] = rest[i]
      /\ \A i \in 1..(n - to) : z[i] = rest[to + i - 1]
  BY <1>1, <1>4, SubSeqProperties
<1>6. y \in Seq(S) /\ Len(y) = 1 /\ y[1] = list[from]
  BY <1>1
<1>7. new = (x \o y) \o z
  BY DEF InsertAt, rest
<1> HIDE DEF x, y, z
<1>8. /\ new \in Seq(S) /\ Len(new) = n
      /\ \A i \in 1..n : new[i] = IF i = to THEN list[from]
                                  ELSE IF i < to THEN rest[i] ELSE rest[i - 1]
  <2> DEFINE h == x \o y
  <2>1. /\ h \in Seq(S) /\ Len(h) = to
        /\ \A i \in 1..to : h[i] = IF i < to THEN x[i] ELSE list[from]
    <3>1. /\ h \in Seq(S) /\ Len(h) = Len(x) + Len(y)
          /\ \A i \in 1..(Len(x) + Len(y)) :
                h[i] = IF i <= Len(x) THEN x[i] ELSE y[i - Len(x)]
      BY <1>5, <1>6, ConcatProperties
    <3>2. \A i \in 1..to : i <= to - 1 \/ i - (to - 1) = 1
      BY <1>1
    <3>. QED BY <1>1, <1>5, <1>6, <3>1, <3>2
  <2>4. new = h \o z
    BY <1>7
  <2> HIDE DEF h
  <2>2. /\ new \in Seq(S) /\ Len(new) = Len(h) + Len(z)
        /\ \A i \in 1..(Len(h) + Len(z)) :
              new[i] = IF i <= Len(h) THEN h[i] ELSE z[i - Len(h)]
    <3>1. h \in Seq(S) /\ z \in Seq(S)
      BY <1>5, <2>1
    <3>2. /\ h \o z \in Seq(S) /\ Len(h \o z) = Len(h) + Len(z)
          /\ \A i \in 1..(Len(h) + Len(z)) :
                (h \o z)[i] = IF i <= Len(h) THEN h[i] ELSE z[i - Len(h)]
      BY <3>1, ConcatProperties
    <3>. QED BY <2>4, <3>2
  <2>3. ASSUME NEW i \in 1..n
        PROVE  new[i] = IF i = to THEN list[from] ELSE IF i < to THEN rest[i] ELSE rest[i - 1]
    <3>1. CASE i <= to
      BY <1>1, <1>5, <2>1, <2>2, <3>1
    <3>2. CASE i > to
      <4>1. i - to \in 1..(n - to) /\ to + (i - to) - 1 = i - 1
        BY <1>1, <3>2
      <4>2. z[i - to] = rest[i - 1]
        BY <1>5, <4>1
      <4>. QED BY <1>1, <1>5, <2>1, <2>2, <3>2, <4>2
    <3>. QED BY <1>1, <3>1, <3>2
  <2>. QED BY <1>1, <1>5, <2>1, <2>2, <2>3
<1>9. ASSUME NEW i \in 1..n
      PROVE  new[i] = list[IF i = to THEN from
                           ELSE IF i < to THEN (IF i < from THEN i ELSE i + 1)
                           ELSE (IF i - 1 < from THEN i - 1 ELSE i)]
  <2>1. CASE i = to
    BY <1>8, <2>1
  <2>2. CASE i < to
    BY <1>1, <1>4, <1>8, <2>2
  <2>3. CASE i > to
    <3>1. i - 1 \in 1..(n - 1) /\ (i - 1) + 1 = i
      BY <1>1, <2>3
    <3>. QED BY <1>1, <1>4, <1>8, <2>3, <3>1
  <2>. QED BY <1>1, <2>1, <2>2, <2>3
<1>. QED BY <1>1, <1>8, <1>9

LEMMA MovedUnique ==
    ASSUME NEW S, NEW list \in Seq(S), Unique(list), NEW id, NEW target
    PROVE  Moved(list, id, target) \in Seq(S) /\ Unique(Moved(list, id, target))
<1>1. CASE ~({id, target} \subseteq Ids(list))
  BY <1>1 DEF Moved
<1>2. CASE {id, target} \subseteq Ids(list)
  <2> DEFINE from == CHOOSE i \in DOMAIN list : list[i].id = id
             to == CHOOSE i \in DOMAIN list : list[i].id = target
             new == InsertAt(RemoveAt(list, from), to, list[from])
  <2>1. /\ \E i \in DOMAIN list : list[i].id = id
        /\ \E i \in DOMAIN list : list[i].id = target
    BY <1>2 DEF Ids, ToSet
  <2>2. from \in DOMAIN list /\ to \in DOMAIN list
    BY <2>1, Zenon
  <2>3. Moved(list, id, target) = new
    BY <1>2 DEF Moved
  <2> HIDE DEF from, to
  <2>4. /\ new \in Seq(S) /\ Len(new) = Len(list)
        /\ \A i \in DOMAIN list :
              new[i] = list[IF i = to THEN from
                            ELSE IF i < to THEN (IF i < from THEN i ELSE i + 1)
                            ELSE (IF i - 1 < from THEN i - 1 ELSE i)]
    BY <2>2, MovedPlaces
  <2> HIDE DEF new
  <2> DEFINE place(i) == IF i = to THEN from
                         ELSE IF i < to THEN (IF i < from THEN i ELSE i + 1)
                         ELSE (IF i - 1 < from THEN i - 1 ELSE i)
  <2>5. DOMAIN list = 1..Len(list) /\ DOMAIN new = DOMAIN list /\ Len(list) \in Nat
    BY <2>4
  <2>6. ASSUME NEW i \in DOMAIN list, NEW j \in DOMAIN list
        PROVE  place(i) \in DOMAIN list /\ (place(i) = place(j) => i = j)
    BY <2>2, <2>5
  <2>7. \A i \in DOMAIN list : new[i] = list[place(i)]
    BY <2>4
  <2> HIDE DEF place
  <2>8. Unique(new)
    BY <2>5, <2>6, <2>7 DEF Unique
  <2>. QED BY <2>3, <2>4, <2>8
<1>. QED BY <1>1, <1>2

-----------------------------------------------------------------------------
(* What can be in a list after n actions: the questions the model numbered *)
(* and the ones added since, each written by one of these actions.         *)
Question(n) == [id : ({"q"} \X Nat) \cup ({"new"} \X (1..n)), text : (0..n) \X Nat]

GoodList(list, n) == list \in Seq(Question(n)) /\ Unique(list)

LEMMA QuestionsGrow ==
    ASSUME NEW n \in Nat, NEW k \in Nat, n <= k
    PROVE  Question(n) \subseteq Question(k)
<1>1. 1..n \subseteq 1..k /\ 0..n \subseteq 0..k
  OBVIOUS
<1>2. /\ ({"q"} \X Nat) \cup ({"new"} \X (1..n)) \subseteq ({"q"} \X Nat) \cup ({"new"} \X (1..k))
      /\ (0..n) \X Nat \subseteq (0..k) \X Nat
  BY <1>1
<1>. QED BY <1>2 DEF Question

LEMMA GoodLater ==
    ASSUME NEW n \in Nat, NEW k \in Nat, n <= k, NEW list, GoodList(list, n)
    PROVE  GoodList(list, k)
<1>1. Question(n) \subseteq Question(k)
  BY QuestionsGrow
<1>2. \A A, B : A \subseteq B => \A s \in Seq(A) : s \in Seq(B)
  OBVIOUS
<1>. QED BY <1>1, <1>2 DEF GoodList

LEMMA GeneratedGood ==
    ASSUME NEW n \in Nat, NEW k \in Nat, n <= k, NEW count \in Nat
    PROVE  GoodList(Generated(n, count), k)
<1> DEFINE list == [i \in 1..count |-> [id |-> <<"q", i>>, text |-> <<n, i>>]]
<1>1. \A i \in 1..count : list[i] \in Question(k)
  BY DEF Question
<1>2. list \in Seq(Question(k))
  BY <1>1
<1>3. Unique(list)
  BY DEF Unique
<1>. QED BY <1>2, <1>3 DEF GoodList, Generated

(* The text of a question is replaced, nothing else of the list.           *)
LEMMA WithTextGood ==
    ASSUME NEW n \in Nat, NEW k \in Nat, n <= k, NEW list, GoodList(list, k), NEW id
    PROVE  GoodList(WithText(list, id, <<n, 0>>), k)
<1> DEFINE new == WithText(list, id, <<n, 0>>)
<1>1. list \in Seq(Question(k)) /\ DOMAIN list = 1..Len(list) /\ Len(list) \in Nat
  BY DEF GoodList
<1>2. \A i \in DOMAIN list : list[i] \in Question(k)
  BY <1>1
<1>3. ASSUME NEW i \in DOMAIN list PROVE new[i] \in Question(k) /\ new[i].id = list[i].id
  <2>1. [list[i] EXCEPT !.text = <<n, 0>>] \in Question(k)
    BY <1>2 DEF Question
  <2>2. [list[i] EXCEPT !.text = <<n, 0>>].id = list[i].id
    BY <1>2 DEF Question
  <2>. QED BY <1>2, <2>1, <2>2 DEF WithText
<1>4. new = [i \in 1..Len(list) |-> new[i]]
  BY <1>1 DEF WithText
<1> HIDE DEF new
<1>5. new \in Seq(Question(k))
  BY <1>1, <1>3, <1>4
<1>6. DOMAIN new = DOMAIN list
  BY <1>1, <1>4
<1>7. Unique(new)
  BY <1>3, <1>6 DEF Unique, GoodList
<1>. QED BY <1>5, <1>7 DEF GoodList, new

(* The new question carries the number of the action that adds it, which   *)
(* no question of an older list has.                                       *)
LEMMA AddedGood ==
    ASSUME NEW n \in Nat, NEW list, GoodList(list, n)
    PROVE  GoodList(Append(list, [id |-> <<"new", n + 1>>, text |-> <<n + 1, 0>>]), n + 1)
<1> DEFINE q == [id |-> <<"new", n + 1>>, text |-> <<n + 1, 0>>]
           new == Append(list, q)
<1>1. GoodList(list, n + 1)
  BY GoodLater
<1>2. q \in Question(n + 1)
  BY DEF Question
<1>3. \A i \in DOMAIN list : list[i].id # <<"new", n + 1>>
  <2>1. \A i \in DOMAIN list : list[i] \in Question(n)
    BY DEF GoodList
  <2>2. <<"new", n + 1>> \notin ({"q"} \X Nat) \cup ({"new"} \X (1..n))
    OBVIOUS
  <2>. QED BY <2>1, <2>2 DEF Question
<1>4. list \in Seq(Question(n + 1))
  BY <1>1 DEF GoodList
<1>5. q.id = <<"new", n + 1>>
  OBVIOUS
<1> HIDE DEF q
<1>6. /\ new \in Seq(Question(n + 1)) /\ DOMAIN new = 1..(Len(list) + 1)
      /\ DOMAIN list = 1..Len(list) /\ Len(list) \in Nat
      /\ \A i \in DOMAIN list : new[i] = list[i]
      /\ new[Len(list) + 1] = q
  BY <1>2, <1>4
<1>7. \A i \in DOMAIN new : i \in DOMAIN list \/ i = Len(list) + 1
  BY <1>6
<1> HIDE DEF new
<1>8. Unique(new)
  BY <1>3, <1>5, <1>6, <1>7 DEF Unique, GoodList
<1>. QED BY <1>6, <1>8 DEF GoodList, new, q

(* Whatever is done to a list with no two questions of one id, makes one.  *)
Kinds == {"add", "remove", "update", "reorder", "one", "all", "share"}

LEMMA AppliedGood ==
    ASSUME NEW n \in Nat, NEW k \in Nat, NEW list, GoodList(list, k), NEW op,
           op.kind \in Kinds, op.kind = "all" => op.count \in Nat,
           op.kind = "add" => n = k + 1
    PROVE  \A l \in Nat : (n <= l /\ k <= l) => GoodList(Applied(list, op, n), l)
<1> SUFFICES ASSUME NEW l \in Nat, n <= l, k <= l PROVE GoodList(Applied(list, op, n), l)
  OBVIOUS
<1>0. GoodList(list, l)
  BY GoodLater
<1>1. CASE op.kind = "add"
  <2>1. GoodList(Append(list, [id |-> <<"new", n>>, text |-> <<n, 0>>]), n)
    BY <1>1, AddedGood
  <2>2. GoodList(Append(list, [id |-> <<"new", n>>, text |-> <<n, 0>>]), l)
    BY <2>1, GoodLater
  <2>. QED BY <1>1, <2>2 DEF Applied
<1>2. CASE op.kind = "remove"
  <2>1. Picked(Without(list, op.id), list, Len(list), Question(l))
    BY <1>0, WithoutPicks DEF GoodList
  <2>2. GoodList(Without(list, op.id), l)
    BY <2>1 DEF Picked, GoodList
  <2>3. Applied(list, op, n) = Without(list, op.id)
    BY <1>2 DEF Applied
  <2>. QED BY <2>2, <2>3
<1>3. CASE op.kind \in {"update", "one"}
  <2>1. GoodList(WithText(list, op.id, <<n, 0>>), l)
    BY <1>0, WithTextGood
  <2>. QED BY <1>3, <2>1 DEF Applied
<1>4. CASE op.kind = "reorder"
  <2>1. GoodList(Moved(list, op.id, op.target), l)
    BY <1>0, MovedUnique DEF GoodList
  <2>. QED BY <1>4, <2>1 DEF Applied
<1>5. CASE op.kind = "all"
  <2>1. GoodList(Generated(n, op.count), l)
    BY <1>5, GeneratedGood
  <2>. QED BY <1>5, <2>1 DEF Applied
<1>6. CASE op.kind = "share"
  BY <1>0, <1>6 DEF Applied
<1>. QED BY <1>1, <1>2, <1>3, <1>4, <1>5, <1>6 DEF Kinds

-----------------------------------------------------------------------------
(***************************************************************************)
(* The inductive invariants.                                               *)
(***************************************************************************)
Changes == {"add", "remove", "update", "reorder"}

Sent(m) ==
    /\ m.n \in 1..actions /\ m.by \in Recruiters
    /\ m.op.kind \in Kinds /\ (m.op.kind = "all" => m.op.count \in Nat)
    /\ (m.op.kind = "share" => m.op.to \in BOOLEAN)
    /\ (m.op.kind \in Changes => GoodList(m.body, actions))

Loading(g) ==
    /\ g.n \in 1..actions /\ g.by \in Recruiters
    /\ g.op.kind \in {"one", "all"} /\ (g.op.kind = "all" => g.op.count \in Nat)
    /\ GoodList(g.loaded, actions)

Answer(m) ==
    /\ m.by \in Recruiters /\ m.kind \in Kinds
    /\ GoodList(m.view.questions, actions) /\ m.view.shared \in BOOLEAN

(* Every list, wherever it is, is good at the number of actions so far.    *)
EditTypes ==
    /\ GoodList(questions, actions) /\ shared \in BOOLEAN
    /\ mirror = [c \in Recruiters |-> mirror[c]]
    /\ \A c \in Recruiters : GoodList(mirror[c].questions, actions)
    /\ editing = [c \in Recruiters |-> editing[c]]
    /\ busyAll \in [Recruiters -> BOOLEAN]
    /\ actions \in 0..MaxActions
    /\ \A m \in requests : Sent(m)
    /\ \A g \in running : Loading(g)
    /\ \A m \in replies : Answer(m)

(* A recruiter has at most one regeneration of the whole list on its way,  *)
(* in one place, and then his button is disabled.                          *)
AllRequests(c) == {m \in requests : m.by = c /\ m.op.kind = "all"}
AllRunning(c) == {g \in running : g.by = c /\ g.op.kind = "all"}
AllReplies(c) == {m \in replies : m.by = c /\ m.kind = "all"}

AtMostOne(S) == \A x, y \in S : x = y

OneAll ==
    \A c \in Recruiters :
        /\ AtMostOne(AllRequests(c)) /\ AtMostOne(AllRunning(c)) /\ AtMostOne(AllReplies(c))
        /\ AllRequests(c) = {} \/ AllRunning(c) = {}
        /\ AllRequests(c) = {} \/ AllReplies(c) = {}
        /\ AllRunning(c) = {} \/ AllReplies(c) = {}
        /\ busyAll[c] <=> ~(AllRequests(c) = {} /\ AllRunning(c) = {} /\ AllReplies(c) = {})

(* As long as nobody was hasty there is one message about the interview    *)
(* at a time, and what it carries was made from the questions as they are. *)
OneAtATime ==
    /\ AtMostOne(requests) /\ AtMostOne(running) /\ AtMostOne(replies)
    /\ requests = {} \/ running = {}
    /\ requests = {} \/ replies = {}
    /\ running = {} \/ replies = {}

TextsOf(list, id) == {q.text : q \in {r \in ToSet(list) : r.id = id}}

Fresh(m) ==
    /\ m.op.kind \in Changes => m.body = Applied(questions, m.op, m.n)
    /\ m.op.kind = "update" => m.op.was \in TextsOf(questions, m.op.id)

Careful ==
    hasty \/
        /\ intended = questions /\ ~misplaced
        /\ OneAtATime
        /\ \A m \in requests : Fresh(m)
        /\ \A g \in running : g.loaded = questions

EditInv == EditTypes /\ OneAll /\ Careful

LEMMA EditInvInit == EditingInit => EditInv
<1> SUFFICES ASSUME EditingInit PROVE EditInv
  OBVIOUS
<1>1. GoodList(questions, actions)
  <2>1. MaxGenerated \in Nat
    BY EditingAssumption
  <2>2. GoodList(Generated(0, MaxGenerated), 0)
    BY <2>1, GeneratedGood
  <2>. QED BY <2>2 DEF EditingInit
<1>2. EditTypes
  <2>1. mirror = [c \in Recruiters |-> [questions |-> questions, shared |-> shared]]
    BY DEF EditingInit, Interview
  <2>2. /\ mirror = [c \in Recruiters |-> mirror[c]]
        /\ \A c \in Recruiters : GoodList(mirror[c].questions, actions)
    BY <1>1, <2>1
  <2>3. /\ editing = [c \in Recruiters |-> editing[c]]
        /\ busyAll \in [Recruiters -> BOOLEAN]
        /\ shared \in BOOLEAN /\ actions \in 0..MaxActions
    <3>1. /\ editing = [c \in Recruiters |-> Closed]
          /\ busyAll = [c \in Recruiters |-> FALSE]
          /\ shared = FALSE
      BY DEF EditingInit
    <3>2. actions = 0 /\ MaxActions \in Nat
      BY EditingAssumption DEF EditingInit
    <3>3. editing = [c \in Recruiters |-> editing[c]] /\ busyAll \in [Recruiters -> BOOLEAN]
      BY <3>1
    <3>4. shared \in BOOLEAN
      BY <3>1
    <3>5. actions \in 0..MaxActions
      BY <3>2
    <3>. QED BY <3>3, <3>4, <3>5
  <2>4. requests = {} /\ running = {} /\ replies = {}
    BY DEF EditingInit
  <2>. QED BY <1>1, <2>2, <2>3, <2>4 DEF EditTypes
<1>3. OneAll
  BY DEF EditingInit, OneAll, AtMostOne, AllRequests, AllRunning, AllReplies
<1>4. Careful
  BY DEF EditingInit, Careful, OneAtATime, AtMostOne
<1>. QED BY <1>2, <1>3, <1>4 DEF EditInv

(* What was good before an action is good after it.                        *)
LEMMA StillGood ==
    ASSUME EditTypes, actions' \in Nat, actions <= actions'
    PROVE  /\ \A list : GoodList(list, actions) => GoodList(list, actions')
           /\ \A m : Sent(m) => Sent(m)'
           /\ \A g : Loading(g) => Loading(g)'
           /\ \A m : Answer(m) => Answer(m)'
<1>1. actions \in Nat
  BY EditingAssumption DEF EditTypes
<1>2. \A list : GoodList(list, actions) => GoodList(list, actions')
  BY <1>1, GoodLater
<1>3. \A n : n \in 1..actions => n \in 1..actions'
  BY <1>1
<1>4. ASSUME NEW m, Sent(m) PROVE Sent(m)'
  BY <1>2, <1>3, <1>4 DEF Sent
<1>5. ASSUME NEW m, Loading(m) PROVE Loading(m)'
  BY <1>2, <1>3, <1>5 DEF Loading
<1>6. ASSUME NEW m, Answer(m) PROVE Answer(m)'
  BY <1>2, <1>6 DEF Answer
<1>. QED BY <1>2, <1>4, <1>5, <1>6

(* Sending any request.                                                    *)
LEMMA SendKeeps ==
    ASSUME EditInv, NEW c \in Recruiters, NEW op, NEW body,
           Act(c), Request(c, op, body),
           op.kind \in Kinds, op.kind = "all" => op.count \in Nat,
           op.kind = "share" => op.to \in BOOLEAN,
           op.kind \in Changes => body = Applied(mirror[c].questions, op, actions'),
           hasty' \/ (~hasty /\ Quiet /\ mirror[c] = Interview
                      /\ (op.kind = "update" => op.was \in TextsOf(mirror[c].questions, op.id))),
           editing' = editing,
           op.kind = "all" => ~busyAll[c] /\ busyAll' = [busyAll EXCEPT ![c] = TRUE],
           op.kind # "all" => busyAll' = busyAll
    PROVE  EditInv'
<1>0. PICK msg : msg = [n |-> actions', by |-> c, op |-> op, body |-> body]
  OBVIOUS
<1>1. /\ requests' = requests \cup {msg}
      /\ running' = running /\ replies' = replies /\ mirror' = mirror
      /\ questions' = questions /\ shared' = shared
      /\ intended' = intended /\ misplaced' = misplaced
      /\ actions < MaxActions /\ actions' = actions + 1
  BY <1>0 DEF Act, Request, rowVars
<1>2. actions \in Nat /\ actions' \in Nat /\ actions' \in 1..actions' /\ actions <= actions'
      /\ actions' \in 0..MaxActions
  BY <1>1, EditingAssumption DEF EditInv, EditTypes
<1>3. /\ \A list : GoodList(list, actions) => GoodList(list, actions')
      /\ \A m : Sent(m) => Sent(m)'
      /\ \A g : Loading(g) => Loading(g)'
      /\ \A m : Answer(m) => Answer(m)'
  BY <1>2, StillGood DEF EditInv
<1>4. /\ msg.n = actions' /\ msg.by = c /\ msg.op = op /\ msg.body = body
  BY <1>0
<1>5. op.kind \in Changes => GoodList(body, actions')
  <2>1. GoodList(mirror[c].questions, actions)
    BY DEF EditInv, EditTypes
  <2>2. \A l \in Nat : (actions' <= l /\ actions <= l)
            => GoodList(Applied(mirror[c].questions, op, actions'), l)
    BY <1>1, <1>2, <2>1, AppliedGood
  <2>3. GoodList(Applied(mirror[c].questions, op, actions'), actions')
    BY <1>2, <2>2
  <2>. QED BY <2>3
<1>6. Sent(msg)'
  BY <1>2, <1>4, <1>5 DEF Sent
<1>7. busyAll' \in [Recruiters -> BOOLEAN]
  BY DEF EditInv, EditTypes, Kinds
<1>8. EditTypes'
  <2>1. \A m \in requests' : Sent(m)'
    BY <1>1, <1>3, <1>6 DEF EditInv, EditTypes
  <2>2. \A g \in running' : Loading(g)'
    BY <1>1, <1>3 DEF EditInv, EditTypes
  <2>3. \A m \in replies' : Answer(m)'
    BY <1>1, <1>3 DEF EditInv, EditTypes
  <2>4. GoodList(questions', actions') /\ \A d \in Recruiters : GoodList(mirror'[d].questions, actions')
    BY <1>1, <1>3 DEF EditInv, EditTypes
  <2>5. mirror' = [d \in Recruiters |-> mirror'[d]] /\ editing' = [d \in Recruiters |-> editing'[d]]
        /\ shared' \in BOOLEAN
    BY <1>1 DEF EditInv, EditTypes
  <2>. QED BY <1>2, <1>7, <2>1, <2>2, <2>3, <2>4, <2>5 DEF EditTypes
<1>9. OneAll'
  <2> SUFFICES ASSUME NEW d \in Recruiters
      PROVE  /\ AtMostOne(AllRequests(d)') /\ AtMostOne(AllRunning(d)') /\ AtMostOne(AllReplies(d)')
             /\ AllRequests(d)' = {} \/ AllRunning(d)' = {}
             /\ AllRequests(d)' = {} \/ AllReplies(d)' = {}
             /\ AllRunning(d)' = {} \/ AllReplies(d)' = {}
             /\ busyAll'[d] <=> ~(AllRequests(d)' = {} /\ AllRunning(d)' = {} /\ AllReplies(d)' = {})
    BY Zenon DEF OneAll, AtMostOne
  <2>0. /\ AtMostOne(AllRequests(d)) /\ AtMostOne(AllRunning(d)) /\ AtMostOne(AllReplies(d))
        /\ AllRequests(d) = {} \/ AllRunning(d) = {}
        /\ AllRequests(d) = {} \/ AllReplies(d) = {}
        /\ AllRunning(d) = {} \/ AllReplies(d) = {}
        /\ busyAll[d] <=> ~(AllRequests(d) = {} /\ AllRunning(d) = {} /\ AllReplies(d) = {})
    BY DEF EditInv, OneAll
  <2>1. AllRunning(d)' = AllRunning(d) /\ AllReplies(d)' = AllReplies(d)
    BY <1>1 DEF AllRunning, AllReplies
  <2>2. CASE ~(d = c /\ op.kind = "all")
    <3>1. AllRequests(d)' = AllRequests(d)
      BY <1>1, <1>4, <2>2 DEF AllRequests
    <3>2. busyAll'[d] = busyAll[d]
      BY <2>2 DEF EditInv, EditTypes
    <3>. QED BY <2>0, <2>1, <3>1, <3>2
  <2>3. CASE d = c /\ op.kind = "all"
    <3>1. AllRequests(d)' = AllRequests(d) \cup {msg}
      BY <1>1, <1>4, <2>3 DEF AllRequests
    <3>2. ~busyAll[d] /\ busyAll'[d]
      BY <2>3 DEF EditInv, EditTypes
    <3>. QED BY <2>0, <2>1, <3>1, <3>2 DEF AtMostOne
  <2>. QED BY <2>2, <2>3
<1>10. Careful'
  <2> SUFFICES ASSUME ~hasty'
      PROVE  /\ intended' = questions' /\ ~misplaced'
             /\ OneAtATime'
             /\ \A m \in requests' : Fresh(m)'
             /\ \A g \in running' : g.loaded = questions'
    BY DEF Careful
  <2>1. /\ ~hasty /\ requests = {} /\ running = {} /\ replies = {}
        /\ mirror[c].questions = questions
        /\ op.kind = "update" => op.was \in TextsOf(questions, op.id)
    BY DEF Quiet, Interview
  <2>2. intended = questions /\ ~misplaced
    BY <2>1 DEF EditInv, Careful
  <2>3. requests' = {msg}
    BY <1>1, <2>1
  <2>4. OneAtATime'
    BY <1>1, <2>1, <2>3 DEF OneAtATime, AtMostOne
  <2>5. TextsOf(questions, op.id)' = TextsOf(questions, op.id)
    BY <1>1 DEF TextsOf
  <2>6. Applied(questions', op, actions') = Applied(questions, op, actions')
    BY <1>1
  <2>7. Fresh(msg)'
    BY <1>1, <1>4, <2>1, <2>5, <2>6 DEF Fresh, TextsOf
  <2>. QED BY <1>1, <2>1, <2>2, <2>3, <2>4, <2>7
<1>. QED BY <1>8, <1>9, <1>10 DEF EditInv

LEMMA EditorKeeps ==
    ASSUME EditInv, NEW c \in Recruiters, EditorNext(c)
    PROVE  EditInv'
<1>1. ASSUME NEW op, Patch(c, op), op.kind \in {"add", "remove", "reorder"} PROVE EditInv'
  <2>1. hasty' \/ (~hasty /\ Quiet /\ mirror[c] = Interview)
    BY <1>1 DEF Patch, Hasty
  <2>2. Act(c) /\ Request(c, op, Applied(mirror[c].questions, op, actions'))
        /\ editing' = editing /\ busyAll' = busyAll
    BY <1>1 DEF Patch, pageVars
  <2>. QED BY <1>1, <2>1, <2>2, SendKeeps DEF Kinds
<1>2. CASE AddQuestion(c)
  BY <1>1, <1>2 DEF AddQuestion
<1>3. CASE RemoveQuestion(c)
  BY <1>1, <1>3 DEF RemoveQuestion
<1>4. CASE ReorderQuestions(c)
  BY <1>1, <1>4 DEF ReorderQuestions
<1>5. CASE ToggleShared(c)
  <2> DEFINE op == [kind |-> "share", to |-> ~mirror[c].shared]
  <2>1. hasty' \/ (~hasty /\ Quiet /\ mirror[c] = Interview)
    BY <1>5 DEF ToggleShared, Hasty
  <2>2. Act(c) /\ Request(c, op, <<>>) /\ editing' = editing /\ busyAll' = busyAll
    BY <1>5 DEF ToggleShared, pageVars
  <2>3. op.kind = "share" /\ op.to \in BOOLEAN
    OBVIOUS
  <2> HIDE DEF op
  <2>. QED BY <2>1, <2>2, <2>3, SendKeeps DEF Kinds, Changes
<1>6. CASE SaveEdit(c)
  <2> DEFINE op == [kind |-> "update", id |-> editing[c].id, was |-> editing[c].text]
  <2>0. op.kind = "update" /\ op.id = editing[c].id /\ op.was = editing[c].text
    OBVIOUS
  <2>1. hasty' \/ (~hasty /\ Quiet /\ mirror[c] = Interview
                   /\ op.was \in TextsOf(mirror[c].questions, op.id))
    BY <1>6 DEF SaveEdit, Outdated, TextsOf
  <2>2. Act(c) /\ Request(c, op, Applied(mirror[c].questions, op, actions'))
        /\ editing' = editing /\ busyAll' = busyAll
    BY <1>6 DEF SaveEdit, pageVars
  <2> HIDE DEF op
  <2>. QED BY <2>0, <2>1, <2>2, SendKeeps DEF Kinds
<1>7. CASE RegenerateOne(c)
  <2>1. PICK id \in Ids(mirror[c].questions) \ {editing[c].id, busyOne[c]} :
          /\ Act(c) /\ Hasty(c)
          /\ Request(c, [kind |-> "one", id |-> id], <<>>)
          /\ UNCHANGED <<editing, busyAll>>
    BY <1>7 DEF RegenerateOne
  <2> DEFINE op == [kind |-> "one", id |-> id]
  <2>2. op.kind = "one"
    OBVIOUS
  <2>3. hasty' \/ (~hasty /\ Quiet /\ mirror[c] = Interview)
    BY <2>1 DEF Hasty
  <2>4. Act(c) /\ Request(c, op, <<>>) /\ editing' = editing /\ busyAll' = busyAll
    BY <2>1
  <2> HIDE DEF op
  <2>. QED BY <2>2, <2>3, <2>4, SendKeeps DEF Kinds, Changes
<1>8. CASE RegenerateAll(c)
  <2>1. PICK count \in 1..MaxGenerated : Request(c, [kind |-> "all", count |-> count], <<>>)
    BY <1>8 DEF RegenerateAll
  <2> DEFINE op == [kind |-> "all", count |-> count]
  <2>2. op.kind = "all" /\ op.count \in Nat
    OBVIOUS
  <2>3. hasty' \/ (~hasty /\ Quiet /\ mirror[c] = Interview)
    BY <1>8 DEF RegenerateAll, Hasty
  <2>4. Act(c) /\ Request(c, op, <<>>) /\ editing' = editing
        /\ ~busyAll[c] /\ busyAll' = [busyAll EXCEPT ![c] = TRUE]
    BY <1>8, <2>1 DEF RegenerateAll
  <2> HIDE DEF op
  <2>. QED BY <2>2, <2>3, <2>4, SendKeeps DEF Kinds, Changes
<1>9. CASE StartEdit(c) \/ CancelEdit(c)
  <2>1. /\ UNCHANGED <<rowVars, mirror, busyAll, busyOne, requests, running, replies,
                       actions, historyVars>>
        /\ editing' = [d \in Recruiters |-> editing'[d]]
    BY <1>9 DEF StartEdit, CancelEdit, EditInv, EditTypes
  <2>2. EditTypes'
    BY <2>1 DEF EditInv, EditTypes, rowVars, Sent, Loading, Answer
  <2>3. OneAll'
    BY <2>1 DEF EditInv, OneAll, AllRequests, AllRunning, AllReplies
  <2>4. Careful'
    BY <2>1 DEF EditInv, Careful, historyVars, rowVars, OneAtATime, Fresh, TextsOf
  <2>. QED BY <2>2, <2>3, <2>4 DEF EditInv
<1>. QED BY <1>2, <1>3, <1>4, <1>5, <1>6, <1>7, <1>8, <1>9 DEF EditorNext

(* The row takes the list that was sent.  If nobody was hasty it was made  *)
(* from the row as it is, so writing it is applying the action; and a      *)
(* saved edit loses the one text that its id, unique in the row, had.      *)
LEMMA ServePatchKeeps ==
    ASSUME EditInv, NEW m \in requests, ServePatch(m)
    PROVE  EditInv'
<1>1. /\ m.op.kind \in Changes \cup {"share"}
      /\ requests' = requests \ {m} /\ running' = running /\ mirror' = mirror
      /\ editing' = editing /\ busyAll' = busyAll /\ actions' = actions /\ hasty' = hasty
      /\ \/ m.op.kind = "share" /\ shared' = m.op.to /\ questions' = questions
         \/ m.op.kind # "share" /\ questions' = m.body /\ shared' = shared
      /\ misplaced' = (misplaced \/ (m.op.kind = "update"
                        /\ ~(Texts(questions) \ Texts(questions') \subseteq {m.op.was})))
      /\ intended' = Applied(intended, m.op, m.n)
  BY DEF ServePatch, Changes, pageVars, Intend
<1>2. PICK r : /\ r = [n |-> m.n, by |-> m.by, kind |-> m.op.kind, ok |-> TRUE,
                       view |-> Interview']
               /\ replies' = replies \cup {r}
  BY DEF ServePatch, Reply
<1>3. /\ r.by = m.by /\ r.kind = m.op.kind
      /\ r.view.questions = questions' /\ r.view.shared = shared'
  BY <1>2 DEF Interview
<1>4. /\ Sent(m) /\ m.op.kind # "all"
  BY <1>1 DEF EditInv, EditTypes, Changes
<1>5. GoodList(questions', actions) /\ shared' \in BOOLEAN
  BY <1>1, <1>4 DEF Sent, EditInv, EditTypes
<1>6. \A x : Sent(x)' = Sent(x) /\ Loading(x)' = Loading(x) /\ Answer(x)' = Answer(x)
  BY <1>1 DEF Sent, Loading, Answer
<1>7. Answer(r)
  BY <1>3, <1>4, <1>5 DEF Answer, Sent
<1>8. EditTypes'
  <2>1. /\ \A x \in requests' : Sent(x)'
        /\ \A x \in running' : Loading(x)'
        /\ \A x \in replies' : Answer(x)'
    BY <1>1, <1>2, <1>6, <1>7 DEF EditInv, EditTypes
  <2>. QED BY <1>1, <1>5, <2>1 DEF EditInv, EditTypes
<1>9. OneAll'
  <2>1. ASSUME NEW c \in Recruiters
        PROVE  /\ AllRequests(c)' = AllRequests(c)
               /\ AllRunning(c)' = AllRunning(c) /\ AllReplies(c)' = AllReplies(c)
    BY <1>1, <1>2, <1>3, <1>4 DEF AllRequests, AllRunning, AllReplies
  <2>. QED BY <1>1, <2>1 DEF EditInv, OneAll
<1>10. Careful'
  <2> SUFFICES ASSUME ~hasty
      PROVE  /\ intended' = questions' /\ ~misplaced'
             /\ OneAtATime'
             /\ \A x \in requests' : Fresh(x)'
             /\ \A g \in running' : g.loaded = questions'
    BY <1>1 DEF Careful
  <2>1. /\ intended = questions /\ ~misplaced
        /\ OneAtATime /\ Fresh(m)
    BY DEF EditInv, Careful
  <2>2. requests = {m} /\ running = {} /\ replies = {}
    BY <2>1 DEF OneAtATime, AtMostOne
  <2>3. requests' = {} /\ running' = {} /\ replies' = {r}
    BY <1>1, <1>2, <2>2
  <2>4. intended' = questions'
    <3>1. CASE m.op.kind = "share"
      BY <1>1, <2>1, <3>1 DEF Applied
    <3>2. CASE m.op.kind # "share"
      <4>1. m.body = Applied(questions, m.op, m.n)
        BY <1>1, <2>1, <3>2 DEF Fresh
      <4>. QED BY <1>1, <2>1, <3>2, <4>1
    <3>. QED BY <3>1, <3>2
  <2>5. ~misplaced'
    <3>1. CASE m.op.kind # "update"
      BY <1>1, <2>1, <3>1
    <3>2. CASE m.op.kind = "update"
      <4>1. /\ questions' = WithText(questions, m.op.id, <<m.n, 0>>)
            /\ m.op.was \in TextsOf(questions, m.op.id)
        BY <1>1, <2>1, <3>2 DEF Fresh, Applied, Changes
      <4>2. Unique(questions)
        BY DEF EditInv, EditTypes, GoodList
      <4>3. Texts(questions) \ Texts(questions') \subseteq {m.op.was}
        <5> SUFFICES ASSUME NEW t \in Texts(questions), t \notin Texts(questions')
            PROVE  t = m.op.was
          OBVIOUS
        <5>1. PICK i \in DOMAIN questions : t = questions[i].text
          BY DEF Texts, ToSet
        <5>2. PICK j \in DOMAIN questions : questions[j].id = m.op.id /\ questions[j].text = m.op.was
          BY <4>1 DEF TextsOf, ToSet
        <5>3. questions[i].id = m.op.id
          <6>1. SUFFICES ASSUME questions[i].id # m.op.id PROVE FALSE
            OBVIOUS
          <6>2. i \in DOMAIN questions' /\ questions'[i] = questions[i]
            BY <4>1, <6>1 DEF WithText
          <6>. QED BY <5>1, <6>2 DEF Texts, ToSet
        <5>. QED BY <4>2, <5>1, <5>2, <5>3 DEF Unique
      <4>. QED BY <1>1, <2>1, <4>3
    <3>. QED BY <3>1, <3>2
  <2>6. OneAtATime'
    BY <2>3 DEF OneAtATime, AtMostOne
  <2>. QED BY <2>3, <2>4, <2>5, <2>6
<1>. QED BY <1>8, <1>9, <1>10 DEF EditInv

(* A load, or the 404 of a question that is gone.                          *)
LEMMA StartKeeps ==
    ASSUME EditInv, NEW m \in requests, StartRegeneration(m)
    PROVE  EditInv'
<1>1. /\ m.op.kind \in {"one", "all"}
      /\ requests' = requests \ {m} /\ questions' = questions /\ shared' = shared
      /\ mirror' = mirror /\ editing' = editing /\ busyAll' = busyAll /\ actions' = actions
      /\ intended' = intended /\ hasty' = hasty /\ misplaced' = misplaced
  BY DEF StartRegeneration, rowVars, pageVars, historyVars
<1>2. PICK g : g = [n |-> m.n, by |-> m.by, op |-> m.op, loaded |-> questions]
  OBVIOUS
<1>3. PICK r : r = [n |-> m.n, by |-> m.by, kind |-> m.op.kind, ok |-> FALSE,
                    view |-> Interview']
  OBVIOUS
<1>4. \/ running' = running \cup {g} /\ replies' = replies
      \/ m.op.kind = "one" /\ running' = running /\ replies' = replies \cup {r}
  BY <1>2, <1>3 DEF StartRegeneration, Reply
<1>5. /\ g.n = m.n /\ g.by = m.by /\ g.op = m.op /\ g.loaded = questions
      /\ r.by = m.by /\ r.kind = m.op.kind
      /\ r.view.questions = questions /\ r.view.shared = shared
  BY <1>1, <1>2, <1>3 DEF Interview
<1>6. Sent(m)
  BY DEF EditInv, EditTypes
<1>7. \A x : Sent(x)' = Sent(x) /\ Loading(x)' = Loading(x) /\ Answer(x)' = Answer(x)
  BY <1>1 DEF Sent, Loading, Answer
<1>8. Loading(g) /\ Answer(r)
  BY <1>1, <1>5, <1>6 DEF Loading, Answer, Sent, EditInv, EditTypes
<1>9. EditTypes'
  <2>1. \A x \in requests' : Sent(x)'
    BY <1>1, <1>7 DEF EditInv, EditTypes
  <2>2. (\A x \in running' : Loading(x)') /\ (\A x \in replies' : Answer(x)')
    BY <1>4, <1>7, <1>8 DEF EditInv, EditTypes
  <2>. QED BY <1>1, <2>1, <2>2 DEF EditInv, EditTypes
<1>10. OneAll'
  <2> SUFFICES ASSUME NEW c \in Recruiters
      PROVE  /\ AtMostOne(AllRequests(c)') /\ AtMostOne(AllRunning(c)') /\ AtMostOne(AllReplies(c)')
             /\ AllRequests(c)' = {} \/ AllRunning(c)' = {}
             /\ AllRequests(c)' = {} \/ AllReplies(c)' = {}
             /\ AllRunning(c)' = {} \/ AllReplies(c)' = {}
             /\ busyAll'[c] <=> ~(AllRequests(c)' = {} /\ AllRunning(c)' = {} /\ AllReplies(c)' = {})
    BY Zenon DEF OneAll, AtMostOne
  <2>0. /\ AtMostOne(AllRequests(c)) /\ AtMostOne(AllRunning(c)) /\ AtMostOne(AllReplies(c))
        /\ AllRequests(c) = {} \/ AllRunning(c) = {}
        /\ AllRequests(c) = {} \/ AllReplies(c) = {}
        /\ AllRunning(c) = {} \/ AllReplies(c) = {}
        /\ busyAll[c] <=> ~(AllRequests(c) = {} /\ AllRunning(c) = {} /\ AllReplies(c) = {})
    BY DEF EditInv, OneAll
  <2>1. CASE m.by = c /\ m.op.kind = "all"
    <3>1. /\ AllRequests(c)' = AllRequests(c) \ {m} /\ m \in AllRequests(c)
          /\ AllReplies(c)' = AllReplies(c)
      BY <1>1, <1>4, <2>1 DEF AllRequests, AllReplies
    <3>2. AllRunning(c)' = AllRunning(c) \cup {g}
      BY <1>4, <1>5, <2>1 DEF AllRunning
    <3>. QED BY <1>1, <2>0, <3>1, <3>2 DEF AtMostOne
  <2>2. CASE ~(m.by = c /\ m.op.kind = "all")
    <3>1. AllRequests(c)' = AllRequests(c)
      BY <1>1, <2>2 DEF AllRequests
    <3>2. AllRunning(c)' = AllRunning(c)
      BY <1>4, <1>5, <2>2 DEF AllRunning
    <3>3. AllReplies(c)' = AllReplies(c)
      BY <1>4, <1>5, <2>2 DEF AllReplies
    <3>. QED BY <1>1, <2>0, <3>1, <3>2, <3>3
  <2>. QED BY <2>1, <2>2
<1>11. Careful'
  <2> SUFFICES ASSUME ~hasty
      PROVE  /\ intended' = questions' /\ ~misplaced'
             /\ OneAtATime'
             /\ \A x \in requests' : Fresh(x)'
             /\ \A x \in running' : x.loaded = questions'
    BY <1>1 DEF Careful
  <2>1. intended = questions /\ ~misplaced /\ OneAtATime
    BY DEF EditInv, Careful
  <2>2. requests = {m} /\ running = {} /\ replies = {}
    BY <2>1 DEF OneAtATime, AtMostOne
  <2>3. /\ requests' = {}
        /\ \/ running' = {g} /\ replies' = {}
           \/ running' = {} /\ replies' = {r}
    BY <1>1, <1>4, <2>2
  <2>4. OneAtATime'
    BY <2>3 DEF OneAtATime, AtMostOne
  <2>. QED BY <1>1, <1>5, <2>1, <2>3, <2>4
<1>. QED BY <1>9, <1>10, <1>11 DEF EditInv

(* The model answers or fails: the reply takes the place of the load.      *)
LEMMA FinishKeeps ==
    ASSUME EditInv, NEW g \in running, ModelAnswers(g) \/ ModelFails(g)
    PROVE  EditInv'
<1>1. /\ running' = running \ {g} /\ requests' = requests /\ shared' = shared
      /\ mirror' = mirror /\ editing' = editing /\ busyAll' = busyAll /\ actions' = actions
      /\ hasty' = hasty /\ misplaced' = misplaced
      /\ \/ questions' = Applied(g.loaded, g.op, g.n) /\ intended' = Applied(intended, g.op, g.n)
         \/ questions' = questions /\ intended' = intended
  BY DEF ModelAnswers, ModelFails, rowVars, pageVars, historyVars, Intend
<1>2. PICK r : /\ r.by = g.by /\ r.kind = g.op.kind /\ r.view = Interview'
               /\ replies' = replies \cup {r}
  <2>1. CASE ModelAnswers(g)
    <3>1. PICK r : r = [n |-> g.n, by |-> g.by, kind |-> g.op.kind, ok |-> TRUE, view |-> Interview']
      OBVIOUS
    <3>. QED BY <2>1, <3>1 DEF ModelAnswers, Reply
  <2>2. CASE ModelFails(g)
    <3>1. PICK r : r = [n |-> g.n, by |-> g.by, kind |-> g.op.kind, ok |-> FALSE, view |-> Interview']
      OBVIOUS
    <3>. QED BY <2>2, <3>1 DEF ModelFails, Reply
  <2>. QED BY <2>1, <2>2
<1>3. r.view.questions = questions' /\ r.view.shared = shared'
  BY <1>2 DEF Interview
<1>4. Loading(g) /\ actions \in Nat
  BY EditingAssumption DEF EditInv, EditTypes
<1>5. GoodList(questions', actions)
  <2>1. g.n \in Nat /\ g.n <= actions /\ g.op.kind \in Kinds /\ g.op.kind # "add"
        /\ GoodList(g.loaded, actions)
    BY <1>4 DEF Loading, Kinds
  <2>2. \A l \in Nat : (g.n <= l /\ actions <= l) => GoodList(Applied(g.loaded, g.op, g.n), l)
    BY <1>4, <2>1, AppliedGood DEF Loading
  <2>. QED BY <1>1, <1>4, <2>1, <2>2 DEF EditInv, EditTypes
<1>6. \A x : Sent(x)' = Sent(x) /\ Loading(x)' = Loading(x) /\ Answer(x)' = Answer(x)
  BY <1>1 DEF Sent, Loading, Answer
<1>7. Answer(r)
  BY <1>1, <1>2, <1>3, <1>4, <1>5 DEF Answer, Loading, Kinds, EditInv, EditTypes
<1>8. EditTypes'
  <2>1. \A x \in requests' : Sent(x)'
    BY <1>1, <1>6 DEF EditInv, EditTypes
  <2>2. (\A x \in running' : Loading(x)') /\ (\A x \in replies' : Answer(x)')
    BY <1>1, <1>2, <1>6, <1>7 DEF EditInv, EditTypes
  <2>. QED BY <1>1, <1>5, <2>1, <2>2 DEF EditInv, EditTypes
<1>9. OneAll'
  <2> SUFFICES ASSUME NEW c \in Recruiters
      PROVE  /\ AtMostOne(AllRequests(c)') /\ AtMostOne(AllRunning(c)') /\ AtMostOne(AllReplies(c)')
             /\ AllRequests(c)' = {} \/ AllRunning(c)' = {}
             /\ AllRequests(c)' = {} \/ AllReplies(c)' = {}
             /\ AllRunning(c)' = {} \/ AllReplies(c)' = {}
             /\ busyAll'[c] <=> ~(AllRequests(c)' = {} /\ AllRunning(c)' = {} /\ AllReplies(c)' = {})
    BY Zenon DEF OneAll, AtMostOne
  <2>0. /\ AtMostOne(AllRequests(c)) /\ AtMostOne(AllRunning(c)) /\ AtMostOne(AllReplies(c))
        /\ AllRequests(c) = {} \/ AllRunning(c) = {}
        /\ AllRequests(c) = {} \/ AllReplies(c) = {}
        /\ AllRunning(c) = {} \/ AllReplies(c) = {}
        /\ busyAll[c] <=> ~(AllRequests(c) = {} /\ AllRunning(c) = {} /\ AllReplies(c) = {})
    BY DEF EditInv, OneAll
  <2>1. AllRequests(c)' = AllRequests(c)
    BY <1>1 DEF AllRequests
  <2>2. CASE g.by = c /\ g.op.kind = "all"
    <3>1. AllRunning(c)' = AllRunning(c) \ {g} /\ g \in AllRunning(c)
      BY <1>1, <2>2 DEF AllRunning
    <3>2. AllReplies(c)' = AllReplies(c) \cup {r}
      BY <1>2, <2>2 DEF AllReplies
    <3>. QED BY <1>1, <2>0, <2>1, <3>1, <3>2 DEF AtMostOne
  <2>3. CASE ~(g.by = c /\ g.op.kind = "all")
    <3>1. AllRunning(c)' = AllRunning(c)
      BY <1>1, <2>3 DEF AllRunning
    <3>2. AllReplies(c)' = AllReplies(c)
      BY <1>2, <2>3 DEF AllReplies
    <3>. QED BY <1>1, <2>0, <2>1, <3>1, <3>2
  <2>. QED BY <2>2, <2>3
<1>10. Careful'
  <2> SUFFICES ASSUME ~hasty
      PROVE  /\ intended' = questions' /\ ~misplaced'
             /\ OneAtATime'
             /\ \A x \in requests' : Fresh(x)'
             /\ \A x \in running' : x.loaded = questions'
    BY <1>1 DEF Careful
  <2>1. intended = questions /\ ~misplaced /\ OneAtATime /\ g.loaded = questions
    BY DEF EditInv, Careful
  <2>2. requests = {} /\ running = {g} /\ replies = {}
    BY <2>1 DEF OneAtATime, AtMostOne
  <2>3. requests' = {} /\ running' = {} /\ replies' = {r}
    BY <1>1, <1>2, <2>2
  <2>4. OneAtATime'
    BY <2>3 DEF OneAtATime, AtMostOne
  <2>5. intended' = questions'
    BY <1>1, <2>1
  <2>. QED BY <1>1, <2>1, <2>3, <2>4, <2>5
<1>. QED BY <1>8, <1>9, <1>10 DEF EditInv

(* The reply re-enables the button that its request disabled.              *)
LEMMA ArrivalKeeps ==
    ASSUME EditInv, NEW m \in replies, ReplyArrives(m)
    PROVE  EditInv'
<1>1. /\ replies' = replies \ {m} /\ requests' = requests /\ running' = running
      /\ questions' = questions /\ shared' = shared /\ actions' = actions
      /\ intended' = intended /\ hasty' = hasty /\ misplaced' = misplaced
  BY DEF ReplyArrives, rowVars, historyVars
<1>2. /\ mirror' = [mirror EXCEPT ![m.by] = IF m.ok THEN m.view ELSE @]
      /\ editing' = [editing EXCEPT ![m.by] = IF m.kind = "update" THEN Closed ELSE @]
      /\ busyAll' = [busyAll EXCEPT ![m.by] = @ /\ m.kind # "all"]
  BY DEF ReplyArrives
<1>3. Answer(m)
  BY DEF EditInv, EditTypes
<1>4. /\ mirror = [c \in Recruiters |-> mirror[c]] /\ editing = [c \in Recruiters |-> editing[c]]
      /\ busyAll \in [Recruiters -> BOOLEAN]
      /\ \A c \in Recruiters : GoodList(mirror[c].questions, actions)
  BY DEF EditInv, EditTypes
<1>5. /\ mirror' = [c \in Recruiters |-> mirror'[c]]
      /\ \A c \in Recruiters : mirror'[c] = mirror[c] \/ mirror'[c] = m.view
  BY <1>2, <1>4
<1>6. editing' = [c \in Recruiters |-> editing'[c]]
  BY <1>2, <1>4
<1>7. /\ busyAll' \in [Recruiters -> BOOLEAN]
      /\ \A c \in Recruiters : busyAll'[c] <=> (busyAll[c] /\ ~(c = m.by /\ m.kind = "all"))
  BY <1>2, <1>4
<1>8. \A c \in Recruiters : GoodList(mirror'[c].questions, actions)
  BY <1>3, <1>4, <1>5 DEF Answer
<1>9. \A x : Sent(x)' = Sent(x) /\ Loading(x)' = Loading(x) /\ Answer(x)' = Answer(x)
  BY <1>1 DEF Sent, Loading, Answer
<1>10. EditTypes'
  <2>1. /\ \A x \in requests' : Sent(x)'
        /\ \A x \in running' : Loading(x)'
        /\ \A x \in replies' : Answer(x)'
    BY <1>1, <1>9 DEF EditInv, EditTypes
  <2>2. GoodList(questions', actions') /\ shared' \in BOOLEAN /\ actions' \in 0..MaxActions
    BY <1>1 DEF EditInv, EditTypes
  <2>3. \A c \in Recruiters : GoodList(mirror'[c].questions, actions')
    BY <1>1, <1>8
  <2>. QED BY <1>5, <1>6, <1>7, <2>1, <2>2, <2>3 DEF EditTypes
<1>11. OneAll'
  <2> SUFFICES ASSUME NEW c \in Recruiters
      PROVE  /\ AtMostOne(AllRequests(c)') /\ AtMostOne(AllRunning(c)') /\ AtMostOne(AllReplies(c)')
             /\ AllRequests(c)' = {} \/ AllRunning(c)' = {}
             /\ AllRequests(c)' = {} \/ AllReplies(c)' = {}
             /\ AllRunning(c)' = {} \/ AllReplies(c)' = {}
             /\ busyAll'[c] <=> ~(AllRequests(c)' = {} /\ AllRunning(c)' = {} /\ AllReplies(c)' = {})
    BY Zenon DEF OneAll, AtMostOne
  <2>0. /\ AtMostOne(AllRequests(c)) /\ AtMostOne(AllRunning(c)) /\ AtMostOne(AllReplies(c))
        /\ AllRequests(c) = {} \/ AllRunning(c) = {}
        /\ AllRequests(c) = {} \/ AllReplies(c) = {}
        /\ AllRunning(c) = {} \/ AllReplies(c) = {}
        /\ busyAll[c] <=> ~(AllRequests(c) = {} /\ AllRunning(c) = {} /\ AllReplies(c) = {})
    BY DEF EditInv, OneAll
  <2>1. AllRequests(c)' = AllRequests(c) /\ AllRunning(c)' = AllRunning(c)
    BY <1>1 DEF AllRequests, AllRunning
  <2>2. CASE m.by = c /\ m.kind = "all"
    <3>1. AllReplies(c)' = AllReplies(c) \ {m} /\ m \in AllReplies(c)
      BY <1>1, <2>2 DEF AllReplies
    <3>2. AllReplies(c)' = {}
      BY <2>0, <3>1 DEF AtMostOne
    <3>3. ~busyAll'[c]
      BY <1>7, <2>2
    <3>. QED BY <2>0, <2>1, <3>1, <3>2, <3>3 DEF AtMostOne
  <2>3. CASE ~(m.by = c /\ m.kind = "all")
    <3>1. AllReplies(c)' = AllReplies(c)
      BY <1>1, <2>3 DEF AllReplies
    <3>2. busyAll'[c] <=> busyAll[c]
      BY <1>7, <2>3
    <3>. QED BY <2>0, <2>1, <3>1, <3>2
  <2>. QED BY <2>2, <2>3
<1>12. Careful'
  <2> SUFFICES ASSUME ~hasty
      PROVE  /\ intended' = questions' /\ ~misplaced'
             /\ OneAtATime'
             /\ \A x \in requests' : Fresh(x)'
             /\ \A x \in running' : x.loaded = questions'
    BY <1>1 DEF Careful
  <2>1. intended = questions /\ ~misplaced /\ OneAtATime
    BY DEF EditInv, Careful
  <2>2. requests' = {} /\ running' = {} /\ replies' = {}
    BY <1>1, <2>1 DEF OneAtATime, AtMostOne
  <2>3. OneAtATime'
    BY <2>2 DEF OneAtATime, AtMostOne
  <2>. QED BY <1>1, <2>1, <2>2, <2>3
<1>. QED BY <1>10, <1>11, <1>12 DEF EditInv

LEMMA EditInvNext == EditInv /\ [EditingNext]_editVars => EditInv'
<1> SUFFICES ASSUME EditInv, [EditingNext]_editVars PROVE EditInv'
  OBVIOUS
<1>1. CASE EditingNext
  BY <1>1, EditorKeeps, ServePatchKeeps, StartKeeps, FinishKeeps, ArrivalKeeps DEF EditingNext
<1>2. CASE UNCHANGED editVars
  <2>1. /\ questions' = questions /\ shared' = shared /\ mirror' = mirror
        /\ editing' = editing /\ busyAll' = busyAll
        /\ requests' = requests /\ running' = running /\ replies' = replies
        /\ actions' = actions
        /\ intended' = intended /\ hasty' = hasty /\ misplaced' = misplaced
    BY <1>2 DEF editVars, rowVars, pageVars, historyVars
  <2>2. EditTypes'
    BY <2>1 DEF EditInv, EditTypes, Sent, Loading, Answer
  <2>3. OneAll'
    BY <2>1 DEF EditInv, OneAll, AllRequests, AllRunning, AllReplies
  <2>4. Careful'
    BY <2>1 DEF EditInv, Careful, OneAtATime, Fresh, TextsOf
  <2>. QED BY <2>2, <2>3, <2>4 DEF EditInv
<1>. QED BY <1>1, <1>2

-----------------------------------------------------------------------------
(* The three invariants above hold together, whatever is sent, served and  *)
(* answered in whatever order.                                             *)
THEOREM EditingCorrect == EditingSpec => []EditInv
<1>. QED BY EditInvInit, EditInvNext, PTL DEF EditingSpec

LEMMA GoodQuestions ==
    ASSUME NEW list, actions \in Nat, GoodList(list, actions)
    PROVE  Questions(list)
<1>1. \A i \in DOMAIN list : list[i] \in Question(actions)
  BY DEF GoodList
<1>2. ASSUME NEW q \in Question(actions)
      PROVE  DOMAIN q = {"id", "text"} /\ q.text[1] <= actions
  BY <1>2 DEF Question
<1>. QED BY <1>1, <1>2 DEF Questions, ToSet

(* Every value of the row and of the pages stays in its range, and the     *)
(* "Regenerate all" button of a page is disabled exactly as long as its    *)
(* request, its load or its reply is on its way (InterviewEditor.tsx, lines  *)
(* 122-129 and 158).                                                       *)
THEOREM EditingTypes == EditingSpec => []EditingTypeOK
<1>1. EditInv => EditingTypeOK
  <2> SUFFICES ASSUME EditInv PROVE EditingTypeOK
    OBVIOUS
  <2>1. actions \in Nat /\ actions \in 0..MaxActions /\ shared \in BOOLEAN
    BY EditingAssumption DEF EditInv, EditTypes
  <2>2. Questions(questions) /\ \A c \in Recruiters : Questions(mirror[c].questions)
    BY <2>1, GoodQuestions DEF EditInv, EditTypes
  <2>3. ASSUME NEW c \in Recruiters
        PROVE  busyAll[c] <=>
                  \/ \E x \in requests \cup running : x.by = c /\ x.op.kind = "all"
                  \/ \E m \in replies : m.by = c /\ m.kind = "all"
    <3>1. busyAll[c] <=> ~(AllRequests(c) = {} /\ AllRunning(c) = {} /\ AllReplies(c) = {})
      BY DEF EditInv, OneAll
    <3>. QED BY <3>1 DEF AllRequests, AllRunning, AllReplies
  <2>. QED BY <2>1, <2>2, <2>3, Zenon DEF EditingTypeOK
<1>. QED BY <1>1, EditingCorrect, PTL

(* No list in the row, in a mirror or on its way ever has two questions    *)
(* with one id.                                                            *)
THEOREM UniqueIdsAlways == EditingSpec => []UniqueIds
<1>1. EditInv => UniqueIds
  BY DEF EditInv, EditTypes, Sent, Changes, GoodList, Unique, UniqueIds
<1>. QED BY <1>1, EditingCorrect, PTL

(* While everybody acts on an up-to-date mirror with nothing in flight,    *)
(* the questions are what all the actions together make of them.           *)
THEOREM EditsAlwaysLand == EditingSpec => []EditsLand
<1>1. EditInv => EditsLand
  BY DEF EditInv, Careful, EditsLand
<1>. QED BY <1>1, EditingCorrect, PTL

(* A saved edit replaces the text its form was opened with, unless         *)
(* somebody was hasty.                                                     *)
THEOREM EditsHit == EditingSpec => []EditsHitTheirQuestion
<1>1. EditInv => EditsHitTheirQuestion
  BY DEF EditInv, Careful, EditsHitTheirQuestion
<1>. QED BY <1>1, EditingCorrect, PTL

=============================================================================
