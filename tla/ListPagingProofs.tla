---------------------------- MODULE ListPagingProofs ----------------------------
(***************************************************************************)
(* What TLAPS proves of reading a list page by page, for any users, limits *)
(* and offsets, and any number of pages.                                   *)
(*                                                                         *)
(* The positions of the listed users are 1 .. Cardinality(listed), without *)
(* a gap (Ranks): so a page of the query that is not full is the last.     *)
(* PagingInv follows the reader: who was seen stays before its offset      *)
(* unless somebody comes, who is before its offset was seen unless         *)
(* somebody goes, and on an unchanged list its offset is the number of     *)
(* entries it has read.                                                    *)
(***************************************************************************)
EXTENDS ListPaging, SequenceTheorems, FiniteSetTheorems, TLAPS

-------------------------------------------------------------------------------
(* Positions and slices.                                                    *)

LEMMA FiniteLists ==
    ASSUME listed \subseteq Users
    PROVE  /\ IsFiniteSet(listed) /\ Cardinality(listed) \in Nat
           /\ \A u \in listed : u \in Nat
           /\ \A T \in SUBSET listed : /\ IsFiniteSet(T) /\ Cardinality(T) \in Nat
                                       /\ Cardinality(T) <= Cardinality(listed)
                                       /\ Cardinality(T) = Cardinality(listed) => T = listed
  <1>1. IsFiniteSet(listed)
    BY PagingAssumption, FS_Subset
  <1>2. \A T \in SUBSET listed : /\ IsFiniteSet(T)
                                 /\ Cardinality(T) <= Cardinality(listed)
                                 /\ Cardinality(T) = Cardinality(listed) => T = listed
    BY <1>1, FS_Subset
  <1>3. Cardinality(listed) \in Nat /\ \A T \in SUBSET listed : Cardinality(T) \in Nat
    BY <1>1, <1>2, FS_CardinalityType
  <1>4. \A u \in listed : u \in Nat
    BY PagingAssumption
  <1> QED  BY <1>1, <1>2, <1>3, <1>4

\* The positions are the numbers from 1 on, each of one user.
LEMMA Ranks ==
    ASSUME listed \subseteq Users
    PROVE  [u \in listed |-> Position(u)] \in Bijection(listed, 1 .. Cardinality(listed))
  <1> DEFINE L == listed
             size == Cardinality(L)
             AtLeast(u) == {v \in L : v >= u}
             rank == [u \in L |-> Position(u)]
  <1>1. /\ IsFiniteSet(L) /\ size \in Nat /\ \A u \in L : u \in Nat
        /\ \A T \in SUBSET L : IsFiniteSet(T) /\ Cardinality(T) \in Nat /\ Cardinality(T) <= size
    BY FiniteLists
  <1>2. \A u \in L : Position(u) = Cardinality(AtLeast(u)) /\ AtLeast(u) \in SUBSET L /\ u \in AtLeast(u)
    BY <1>1 DEF Position
  <1>3. ASSUME NEW u \in L PROVE Position(u) \in 1 .. size
    <2>1. AtLeast(u) # {} /\ IsFiniteSet(AtLeast(u)) /\ Cardinality(AtLeast(u)) \in Nat /\ Cardinality(AtLeast(u)) <= size
      BY <1>1, <1>2
    <2>2. Cardinality(AtLeast(u)) # 0
      BY <2>1, FS_EmptySet
    <2> QED  BY <1>2, <2>1, <2>2, <1>1
  <1>4. ASSUME NEW u \in L, NEW v \in L, u < v PROVE Position(u) # Position(v)
    <2>1. AtLeast(v) \in SUBSET AtLeast(u) /\ u \in AtLeast(u) /\ u \notin AtLeast(v)
      BY <1>1, <1>4
    <2>2. IsFiniteSet(AtLeast(u))
      BY <1>1
    <2>3. Cardinality(AtLeast(u)) = Cardinality(AtLeast(v)) => AtLeast(u) = AtLeast(v)
      BY <2>1, <2>2, FS_Subset
    <2> QED  BY <1>2, <2>1, <2>3
  <1> HIDE DEF size, AtLeast
  <1>5. rank \in [L -> 1 .. size]
    BY <1>3
  <1>6. \A u, v \in L : rank[u] = rank[v] => u = v
    <2>1. \A u, v \in L : u # v => u < v \/ v < u
      BY <1>1
    <2> QED  BY <1>4, <2>1
  <1>7. rank \in Injection(L, 1 .. size)
    BY <1>5, <1>6 DEF Injection, IsInjective
  <1>8. IsFiniteSet(1 .. size) /\ Cardinality(1 .. size) = size
    <2>1. 1 \in Int /\ size \in Int
      BY <1>1
    <2>2. IsFiniteSet(1 .. size) /\ Cardinality(1 .. size) = IF 1 > size THEN 0 ELSE size - 1 + 1
      BY <2>1, FS_Interval
    <2> QED  BY <1>1, <2>2
  <1>9. rank \in Surjection(L, 1 .. size)
    <2>1. Cardinality(L) = Cardinality(1 .. size)
      BY <1>8 DEF size
    <2> HIDE DEF rank
    <2> QED  BY <1>7, <1>8, <2>1, FS_Injection
  <1> QED  BY <1>7, <1>9 DEF Bijection, size

\* How many users a page of the query holds.
LEMMA SliceSize ==
    ASSUME listed \subseteq Users, NEW n \in Nat, NEW start \in Nat, start <= Cardinality(listed)
    PROVE  Cardinality(Slice(n, start)) = Minimum(start + n, Cardinality(listed)) - start
  <1> DEFINE size == Cardinality(listed)
             end == Minimum(start + n, size)
             rank == [u \in listed |-> Position(u)]
             page == Slice(n, start)
             part == [u \in page |-> Position(u)]
             T == start + 1 .. end
  <1>1. /\ size \in Nat /\ IsFiniteSet(listed) /\ rank \in Bijection(listed, 1 .. size)
    BY FiniteLists, Ranks
  <1>2. end \in Nat /\ end <= size /\ end <= start + n /\ start <= end
        /\ (end = size \/ end = start + n)
    BY <1>1 DEF Minimum
  <1>3. /\ rank \in [listed -> 1 .. size]
        /\ \A u, v \in listed : rank[u] = rank[v] => u = v
        /\ \A t \in 1 .. size : \E u \in listed : rank[u] = t
    BY <1>1 DEF Bijection, Injection, Surjection, IsInjective
  <1>4. \A u \in listed : Position(u) \in 1 .. size
    BY <1>3
  <1>5. \A u \in page : u \in listed /\ Position(u) \in T
    <2>1. \A u \in page : u \in listed /\ Position(u) \in start + 1 .. start + n
      BY DEF Slice
    <2> HIDE DEF size, end, page
    <2> QED  BY <1>2, <1>4, <2>1
  <1>6. \A t \in T : \E u \in page : Position(u) = t
    <2> SUFFICES ASSUME NEW t \in T PROVE \E u \in page : Position(u) = t
      OBVIOUS
    <2>1. t \in 1 .. size /\ t \in start + 1 .. start + n
      <3> HIDE DEF size, end
      <3> QED  BY <1>1, <1>2
    <2>2. PICK u \in listed : rank[u] = t
      BY <1>3, <2>1
    <2> QED  BY <2>1, <2>2 DEF Slice
  <1>7. \A u, v \in page : Position(u) = Position(v) => u = v
    BY <1>3, <1>5
  <1>8. part \in Bijection(page, T)
    <2> HIDE DEF page, T
    <2> QED  BY <1>5, <1>6, <1>7 DEF Bijection, Injection, Surjection, IsInjective
  <1>9. IsFiniteSet(page)
    BY <1>1, FS_Subset DEF Slice
  <1>10. Cardinality(T) = Cardinality(page)
    <2> HIDE DEF page, T, part
    <2> QED  BY <1>8, <1>9, FS_Bijection DEF ExistsBijection
  <1>11. Cardinality(T) = end - start
    <2> HIDE DEF size, end
    <2>1. start + 1 \in Int /\ end \in Int
      BY <1>2
    <2>2. Cardinality(T) = IF start + 1 > end THEN 0 ELSE end - (start + 1) + 1
      BY <2>1, FS_Interval
    <2> QED  BY <1>2, <2>2
  <1> QED  BY <1>10, <1>11

\* A finite set has a subset of every size up to its own.
LEMMA SubsetOfSize ==
    ASSUME NEW S, IsFiniteSet(S), NEW k \in Nat, k <= Cardinality(S)
    PROVE  kSubset(k, S) # {}
  <1>1. Cardinality(S) \in Nat /\ ExistsBijection(1 .. Cardinality(S), S)
    BY FS_CardinalityType
  <1>2. PICK f : f \in Bijection(1 .. Cardinality(S), S)
    BY <1>1 DEF ExistsBijection
  <1>3. f \in [1 .. Cardinality(S) -> S] /\ \A i, j \in 1 .. Cardinality(S) : f[i] = f[j] => i = j
    BY <1>2 DEF Bijection, Injection, IsInjective
  <1> DEFINE T == {f[i] : i \in 1 .. k}
             g == [i \in 1 .. k |-> f[i]]
  <1>4. 1 .. k \subseteq 1 .. Cardinality(S)
    BY <1>1
  <1>5. g \in Bijection(1 .. k, T)
    BY <1>3, <1>4 DEF Bijection, Injection, Surjection, IsInjective
  <1>6. IsFiniteSet(1 .. k) /\ Cardinality(1 .. k) = k
    <2>1. 1 \in Int /\ k \in Int
      OBVIOUS
    <2>2. IsFiniteSet(1 .. k) /\ Cardinality(1 .. k) = IF 1 > k THEN 0 ELSE k - 1 + 1
      BY <2>1, FS_Interval
    <2> QED  BY <2>2
  <1>7. T \subseteq S
    BY <1>3, <1>4
  <1> HIDE DEF T, g
  <1>8. Cardinality(T) = k
    BY <1>5, <1>6, FS_Bijection DEF ExistsBijection
  <1> QED  BY <1>7, <1>8 DEF kSubset

-------------------------------------------------------------------------------
(* One page.                                                                *)

PagingType ==
    /\ listed \subseteq Users /\ came \subseteq Users /\ went \in BOOLEAN
    /\ cached \in BOOLEAN /\ door \in {"http", "ws", "go"}
    /\ limit \in Int /\ first \in Int /\ offset \in Int
    /\ pages \in Seq(SUBSET Users)
    /\ state \in {"reading", "done", "refused", "panic"}

\* Nobody asks with a limit of 0 in the end, and the validators keep what is
\* negative from the query, and from the cache behind HTTP.
LEMMA Limits ==
    ASSUME PagingType
    PROVE  /\ Limit \in Int /\ Limit # 0
           /\ ~Refused /\ (~cached \/ door = "http") => Limit \in Nat /\ offset \in Nat
  <1>1. /\ GatewayLimit \in Int /\ GatewayLimit >= 1
        /\ ClientLimit \in Int /\ ClientLimit >= 1
    BY PagingAssumption
  <1>2. Limit \in Int /\ Limit # 0
    BY <1>1 DEF PagingType, Passed, Limit
  <1>3. ASSUME ~Refused, ~cached \/ door = "http" PROVE Limit >= 1 /\ offset >= 0
    <2>1. CASE ~cached
      BY <1>3, <2>1, <1>2 DEF Refused, Fit
    <2>2. CASE door = "http"
      <3>1. limit \in 1 .. MaxLimit /\ offset >= 0
        BY <1>3, <2>2 DEF Refused, Fit
      <3>2. Limit = limit
        BY <2>2, <3>1 DEF Passed, Limit
      <3> QED  BY <3>1, <3>2
    <2> QED  BY <1>3, <2>1, <2>2
  <1> QED  BY <1>2, <1>3 DEF PagingType

\* A page that is full ends within the list; any other one ends with it.
LEMMA PageIs ==
    ASSUME PagingType, ~Refused, NEW page \in Answers
    PROVE  /\ page \subseteq listed /\ IsFiniteSet(page) /\ Cardinality(page) \in Nat
           /\ offset \in Nat /\ offset <= Cardinality(listed) =>
                /\ Cardinality(page) = Limit => offset + Limit <= Cardinality(listed)
                /\ Cardinality(page) # Limit => Cardinality(page) = Cardinality(listed) - offset
  <1> DEFINE size == Cardinality(listed)
             end == Minimum(offset + Limit, size)
  <1>1. size \in Nat /\ Limit \in Int /\ Limit # 0
    BY FiniteLists, Limits DEF PagingType
  <1>2. page \subseteq listed
    <2>1. \A n, start : Slice(n, start) \subseteq listed
      BY DEF Slice
    <2>2. \A k : \A s \in kSubset(k, listed) : s \subseteq listed
      BY DEF kSubset
    <2> QED  BY <2>1, <2>2 DEF Answers, CacheSlices
  <1>3. IsFiniteSet(page) /\ Cardinality(page) \in Nat
    BY <1>2, FiniteLists DEF PagingType
  <1>4. ASSUME offset \in Nat, offset <= size
        PROVE  /\ Cardinality(page) = Limit => offset + Limit <= size
               /\ Cardinality(page) # Limit => Cardinality(page) = size - offset
    <2>1. CASE cached /\ offset >= size
      <3>1. page = {}
        BY <1>1, <2>1 DEF Answers, CacheSlices
      <3>2. Cardinality(page) = 0
        BY <3>1, FS_EmptySet
      <3> HIDE DEF size
      <3> QED  BY <1>1, <1>4, <2>1, <3>2
    <2>2. CASE cached /\ ~(offset >= size)
      <3>1. Cardinality(page) = end - offset
        BY <1>1, <2>2 DEF Answers, CacheSlices, kSubset
      <3> HIDE DEF size
      <3> QED  BY <1>1, <1>4, <3>1 DEF Minimum
    <2>3. CASE ~cached
      <3>1. page = Slice(Limit, offset) /\ Limit \in Nat
        BY <2>3, Limits DEF Answers
      <3>2. Cardinality(page) = end - offset
        BY <1>4, <3>1, SliceSize DEF PagingType
      <3> HIDE DEF size
      <3> QED  BY <1>1, <1>4, <3>2 DEF Minimum
    <2> QED  BY <2>1, <2>2, <2>3
  <1> QED  BY <1>2, <1>3, <1>4

\* Where a validator looks first the cache has an answer, and the query always has.
LEMMA PanicIs ==
    ASSUME PagingType, ~Refused, Answers = {}
    PROVE  cached /\ door # "http"
  <1>1. cached
    BY DEF Answers
  <1>2. ASSUME door = "http" PROVE FALSE
    <2> DEFINE size == Cardinality(listed)
               end == Minimum(offset + Limit, size)
    <2>1. Limit \in Nat /\ Limit # 0 /\ offset \in Nat /\ size \in Nat /\ IsFiniteSet(listed)
      BY <1>2, Limits, FiniteLists DEF PagingType
    <2>2. ~(offset >= size)
      BY <1>1, <2>1 DEF Answers, CacheSlices
    <2>3. end - offset \in Nat /\ end - offset <= size /\ ~(end < offset)
      <3> HIDE DEF size
      <3> QED  BY <2>1, <2>2 DEF Minimum
    <2>4. kSubset(end - offset, listed) # {}
      BY <2>1, <2>3, SubsetOfSize
    <2>5. Answers = kSubset(end - offset, listed)
      <3>1. ~(offset < 0)
        BY <2>1
      <3> QED  BY <1>1, <2>1, <2>2, <2>3, <3>1 DEF Answers, CacheSlices
    <2> QED  BY <2>4, <2>5
  <1> QED  BY <1>1, <1>2

-------------------------------------------------------------------------------
(* The reader.                                                              *)

StartInv ==
    /\ pages = <<>> => came = {} /\ ~went /\ offset = first /\ state # "done"
    /\ state = "panic" => cached /\ door # "http"

\* Who was seen is before the offset.
TwiceInv ==
    ~cached /\ came = {} =>
      /\ \A i, j \in DOMAIN pages : pages[i] \cap pages[j] # {} => i = j
      /\ \A u \in Seen \cap listed : Position(u) <= offset

\* Who is before the offset was seen, and in the end everybody was.
SkipInv ==
    first = 0 /\ ~went =>
      /\ ~cached => \A u \in listed \ came : Position(u) <= offset \/ state = "done" => u \in Seen
      /\ cached /\ state = "done" /\ Len(pages) = 1 => listed \ came \subseteq Seen

\* The offset counts what was read.
CountInv ==
    /\ IsFiniteSet(Entries)
    /\ first = 0 /\ Unchanged =>
         /\ state = "reading" => Cardinality(Entries) = offset /\ offset <= Cardinality(listed)
         /\ state = "done" => Cardinality(Entries) = Cardinality(listed)

PagingInv == PagingType /\ StartInv /\ TwiceInv /\ SkipInv /\ CountInv

\* What reading a page changes.
LEMMA ReadIs ==
    ASSUME PagingType, Read
    PROVE  /\ ~Refused /\ state = "reading" /\ pages' # <<>> /\ Limit \in Int
           /\ UNCHANGED <<listed, cached, door, limit, first, came, went>>
           /\ \A u : Position(u)' = Position(u)
           /\ \E page \in Answers, l \in Nat :
                /\ page \subseteq listed /\ page \subseteq Users
                /\ l = Len(pages) + 1 /\ l \notin DOMAIN pages /\ DOMAIN pages' = DOMAIN pages \cup {l}
                /\ pages'[l] = page /\ \A i \in DOMAIN pages : pages'[i] = pages[i]
                /\ pages' \in Seq(SUBSET Users) /\ Len(pages') = Len(pages) + 1
                /\ Seen' = Seen \cup page
                /\ Entries' = Entries \cup ({l} \X page)
                /\ offset' = offset + Limit
                /\ state' = IF Cardinality(page) # Limit THEN "done" ELSE "reading"
  <1>1. /\ ~Refused /\ state = "reading" /\ Limit \in Int
        /\ UNCHANGED <<listed, cached, door, limit, first, came, went>>
        /\ \A u : Position(u)' = Position(u)
    BY Limits DEF Read, Position
  <1>2. PICK page \in Answers : /\ pages' = Append(pages, page) /\ offset' = offset + Limit
                                /\ state' = IF Cardinality(page) # Limit THEN "done" ELSE "reading"
    BY DEF Read
  <1>3. page \subseteq listed /\ page \in SUBSET Users /\ pages \in Seq(SUBSET Users)
    BY <1>1, PageIs DEF PagingType
  <1> DEFINE l == Len(pages) + 1
             q == pages'
  <1>4. /\ l \notin DOMAIN pages /\ DOMAIN q = DOMAIN pages \cup {l} /\ q # <<>>
        /\ q[l] = page /\ \A i \in DOMAIN pages : q[i] = pages[i]
        /\ q \in Seq(SUBSET Users) /\ Len(q) = Len(pages) + 1 /\ l \in Nat
    BY <1>2, <1>3
  <1>5. UNION {q[i] : i \in DOMAIN q} = Seen \cup page
    <2> HIDE DEF q, l
    <2> QED  BY <1>4 DEF Seen
  <1>6. UNION {{i} \X q[i] : i \in DOMAIN q} = Entries \cup ({l} \X page)
    <2> HIDE DEF q, l
    <2>1. {{i} \X q[i] : i \in DOMAIN q} = {{i} \X pages[i] : i \in DOMAIN pages} \cup {{l} \X page}
      BY <1>4
    <2> QED  BY <2>1 DEF Entries
  <1>7. Seen' = Seen \cup page /\ Entries' = Entries \cup ({l} \X page)
    BY <1>5, <1>6 DEF Seen, Entries
  <1> QED  BY <1>1, <1>2, <1>3, <1>4, <1>7

\* A page adds as many entries as it has users.
LEMMA EntriesGrow ==
    ASSUME IsFiniteSet(Entries), NEW l, l \notin DOMAIN pages, NEW page, IsFiniteSet(page)
    PROVE  /\ IsFiniteSet(Entries \cup ({l} \X page))
           /\ Cardinality(Entries \cup ({l} \X page)) = Cardinality(Entries) + Cardinality(page)
           /\ Cardinality(Entries) \in Nat
  <1> DEFINE row == {l} \X page
             f == [u \in page |-> <<l, u>>]
  <1>1. f \in Bijection(page, row)
    <2>1. f \in [page -> row] /\ \A t \in row : \E u \in page : f[u] = t
      OBVIOUS
    <2>2. \A u, v \in page : f[u] = f[v] => u = v
      OBVIOUS
    <2> HIDE DEF f, row
    <2>3. DOMAIN f = page
      BY <2>1
    <2> QED  BY <2>1, <2>2, <2>3 DEF Bijection, Injection, Surjection, IsInjective
  <1>2. Entries \cap row = {}
    <2>1. \A t \in Entries : \E i \in DOMAIN pages : t \in {i} \X pages[i]
      BY DEF Entries
    <2>2. \A t \in Entries : t[1] \in DOMAIN pages
      BY <2>1
    <2> QED  BY <2>2
  <1> HIDE DEF row, f
  <1>3. IsFiniteSet(row) /\ Cardinality(row) = Cardinality(page)
    BY <1>1, FS_Bijection DEF ExistsBijection
  <1>4. /\ IsFiniteSet(Entries \cup row)
        /\ Cardinality(Entries \cup row) = Cardinality(Entries) + Cardinality(row) - Cardinality(Entries \cap row)
    BY <1>3, FS_Union
  <1>5. Cardinality(Entries \cap row) = 0 /\ Cardinality(Entries) \in Nat /\ Cardinality(row) \in Nat
    BY <1>2, <1>3, FS_EmptySet, FS_CardinalityType
  <1> QED  BY <1>3, <1>4, <1>5 DEF row

\* Who comes puts nobody forward, and who goes puts nobody back.
LEMMA PositionIn ==
    ASSUME NEW M \in SUBSET Users, NEW L \in SUBSET M, NEW u \in L
    PROVE  LET before(S) == Cardinality({v \in S : v >= u})
           IN  before(L) \in Nat /\ before(M) \in Nat /\ 1 <= before(L) /\ before(L) <= before(M)
  <1> DEFINE A == {v \in L : v >= u}
             B == {v \in M : v >= u}
  <1>1. IsFiniteSet(M)
    BY PagingAssumption, FS_Subset
  <1>2. IsFiniteSet(B) /\ A \subseteq B
    BY <1>1, FS_Subset
  <1>3. u \in A
    BY PagingAssumption
  <1> HIDE DEF A, B
  <1>4. IsFiniteSet(A) /\ Cardinality(A) <= Cardinality(B)
    BY <1>2, FS_Subset
  <1>5. Cardinality(A) \in Nat /\ Cardinality(B) \in Nat /\ Cardinality(A) # 0
    BY <1>2, <1>3, <1>4, FS_CardinalityType, FS_EmptySet
  <1> QED  BY <1>4, <1>5 DEF A, B

LEMMA NothingRead ==
    ASSUME pages = <<>>
    PROVE  DOMAIN pages = {} /\ Seen = {} /\ Entries = {} /\ Len(pages) = 0 /\ Cardinality(Entries) = 0
  <1>1. DOMAIN pages = {} /\ Seen = {} /\ Entries = {} /\ Len(pages) = 0
    BY DEF Seen, Entries
  <1> QED  BY <1>1, FS_EmptySet

LEMMA ComeKeeps ==
    ASSUME PagingInv, state = "reading", NEW u \in Users, Come(u)
    PROVE  PagingInv'
  <1> USE DEF PagingInv
  <1>1. /\ listed' = listed \cup {u} /\ came' = IF pages = <<>> THEN came ELSE came \cup {u}
        /\ UNCHANGED <<cached, door, limit, first, offset, pages, state, went, Seen, Entries>>
    BY DEF Come, Seen, Entries
  <1>2. PagingType'
    BY <1>1 DEF PagingType
  <1> DEFINE M == listed'
  <1>3. M \in SUBSET Users /\ listed \in SUBSET M
    BY <1>1, <1>2 DEF PagingType
  <1>4. \A v \in listed : Position(v) \in Nat /\ Position(v)' \in Nat /\ Position(v) <= Position(v)'
    BY <1>3, PositionIn DEF Position
  <1>5. \A v \in listed' : Position(v)' \in Nat /\ 1 <= Position(v)'
    BY <1>3, PositionIn DEF Position
  <1>6. StartInv'
    BY <1>1 DEF StartInv
  <1>7. TwiceInv'
    BY <1>1, NothingRead DEF TwiceInv
  <1>8. SkipInv'
    <2>1. CASE pages = <<>>
      BY <1>1, <1>5, <2>1 DEF SkipInv, StartInv
    <2>2. CASE pages # <<>>
      BY <1>1, <1>4, <2>2 DEF SkipInv, PagingType
    <2> QED  BY <2>1, <2>2
  <1>9. CountInv'
    <2>1. CASE pages = <<>>
      <3>1. Cardinality(listed') \in Nat
        BY <1>2, PagingAssumption, FS_Subset, FS_CardinalityType DEF PagingType
      <3> QED  BY <1>1, <2>1, <3>1, NothingRead DEF CountInv, StartInv
    <2>2. CASE pages # <<>>
      BY <1>1, <2>2 DEF CountInv, Unchanged
    <2> QED  BY <2>1, <2>2
  <1> QED  BY <1>2, <1>6, <1>7, <1>8, <1>9

LEMMA GoKeeps ==
    ASSUME PagingInv, state = "reading", NEW u \in Users, Go(u)
    PROVE  PagingInv'
  <1> USE DEF PagingInv
  <1>1. /\ listed' = listed \ {u} /\ went' = (went \/ pages # <<>>)
        /\ UNCHANGED <<cached, door, limit, first, offset, pages, state, came, Seen, Entries>>
    BY DEF Go, Seen, Entries
  <1>2. PagingType'
    BY <1>1 DEF PagingType
  <1>3. \A v \in listed' : /\ Position(v) \in Nat /\ Position(v)' \in Nat
                           /\ 1 <= Position(v)' /\ Position(v)' <= Position(v)
    BY <1>1, PositionIn DEF Position, PagingType
  <1>4. StartInv'
    BY <1>1 DEF StartInv
  <1>5. TwiceInv'
    BY <1>1, <1>3 DEF TwiceInv, PagingType
  <1>6. SkipInv'
    <2> SUFFICES ASSUME first = 0, ~went' PROVE SkipInv'
      BY <1>1 DEF SkipInv
    <2>1. pages = <<>> /\ offset = 0
      BY <1>1 DEF StartInv
    <2>2. \A v \in listed' : ~(Position(v)' <= offset')
      BY <1>1, <1>3, <2>1
    <2> QED  BY <1>1, <2>2 DEF SkipInv
  <1>7. CountInv'
    <2>1. Cardinality(listed') \in Nat
      BY <1>2, PagingAssumption, FS_Subset, FS_CardinalityType DEF PagingType
    <2>2. CASE pages = <<>>
      <3>1. IsFiniteSet(Entries) /\ Cardinality(Entries) = 0 /\ offset = first
        BY <2>2, NothingRead DEF CountInv, StartInv
      <3> QED  BY <1>1, <2>1, <3>1 DEF CountInv
    <2>3. CASE pages # <<>>
      BY <1>1, <2>3 DEF CountInv, Unchanged
    <2> QED  BY <2>2, <2>3
  <1> QED  BY <1>2, <1>4, <1>5, <1>6, <1>7

LEMMA StopKeeps ==
    ASSUME PagingInv, Refuse \/ Panic
    PROVE  PagingInv'
  <1> USE DEF PagingInv
  <1>1. /\ UNCHANGED <<listed, cached, door, limit, first, offset, pages, came, went, Seen, Entries>>
        /\ state' \in {"refused", "panic"} /\ \A v : Position(v)' = Position(v)
    BY DEF Refuse, Panic, Stop, Seen, Entries, Position
  <1>2. state' = "panic" => cached /\ door # "http"
    BY PanicIs DEF Refuse, Panic, Stop
  <1>3. PagingType'
    BY <1>1 DEF PagingType
  <1>4. StartInv' /\ TwiceInv'
    BY <1>1, <1>2 DEF StartInv, TwiceInv
  <1>5. SkipInv' /\ CountInv'
    BY <1>1 DEF SkipInv, CountInv
  <1> QED  BY <1>3, <1>4, <1>5

LEMMA ReadKeeps ==
    ASSUME PagingInv, Read
    PROVE  PagingInv'
  <1> USE DEF PagingInv
  <1>1. /\ ~Refused /\ state = "reading" /\ pages' # <<>> /\ Limit \in Int
        /\ UNCHANGED <<listed, cached, door, limit, first, came, went>>
        /\ \A u : Position(u)' = Position(u)
    BY ReadIs
  <1>2. PICK page \in Answers, l \in Nat :
                /\ page \subseteq listed /\ page \subseteq Users
                /\ l = Len(pages) + 1 /\ l \notin DOMAIN pages /\ DOMAIN pages' = DOMAIN pages \cup {l}
                /\ pages'[l] = page /\ \A i \in DOMAIN pages : pages'[i] = pages[i]
                /\ pages' \in Seq(SUBSET Users) /\ Len(pages') = Len(pages) + 1
                /\ Seen' = Seen \cup page
                /\ Entries' = Entries \cup ({l} \X page)
                /\ offset' = offset + Limit
                /\ state' = IF Cardinality(page) # Limit THEN "done" ELSE "reading"
    BY ReadIs
  <1>3. PagingType'
    BY <1>1, <1>2 DEF PagingType
  <1>4. StartInv'
    BY <1>1, <1>2 DEF StartInv
  <1>5. \A u \in listed : Position(u) \in Nat /\ 1 <= Position(u)
    BY PositionIn DEF Position, PagingType
  <1>6. \A i \in DOMAIN pages : pages[i] \subseteq Seen
    BY DEF Seen
  <1>7. ~cached => /\ Limit \in Nat /\ offset \in Nat /\ page = Slice(Limit, offset)
                   /\ \A u \in listed : u \in page <=> Position(u) \in offset + 1 .. offset + Limit
    <2>1. ~cached => Limit \in Nat /\ offset \in Nat /\ page = Slice(Limit, offset)
      BY <1>1, Limits DEF Answers
    <2> QED  BY <2>1 DEF Slice
  <1>8. TwiceInv'
    <2> SUFFICES ASSUME ~cached, came = {} PROVE TwiceInv'
      BY <1>1 DEF TwiceInv
    <2>1. Seen \cap page = {}
      BY <1>2, <1>5, <1>7 DEF TwiceInv
    <2>2. \A i, j \in DOMAIN pages' : pages'[i] \cap pages'[j] # {} => i = j
      BY <1>2, <1>6, <2>1 DEF TwiceInv
    <2>3. \A u \in Seen' \cap listed : Position(u) <= offset'
      BY <1>2, <1>5, <1>7 DEF TwiceInv
    <2> QED  BY <1>1, <2>2, <2>3 DEF TwiceInv
  <1>9. SkipInv'
    <2> SUFFICES ASSUME first = 0, ~went PROVE SkipInv'
      BY <1>1 DEF SkipInv
    <2>1. ASSUME ~cached, NEW u \in listed \ came, Position(u) <= offset' \/ state' = "done" PROVE u \in Seen'
      <3>1. CASE Position(u) <= offset
        BY <1>2, <2>1, <3>1 DEF SkipInv
      <3>2. CASE Position(u) > offset /\ Position(u) <= offset + Limit
        BY <1>2, <1>5, <1>7, <2>1, <3>2
      <3>3. CASE Position(u) > offset + Limit
        <4> DEFINE size == Cardinality(listed)
        <4>1. size \in Nat /\ Position(u) <= size
          <5>1. \A v \in listed : Position(v) \in 1 .. size
            BY Ranks DEF PagingType, Bijection, Injection
          <5> QED  BY <5>1, FiniteLists DEF PagingType
        <4>2. offset <= size /\ Minimum(offset + Limit, size) = offset + Limit
          <5> HIDE DEF size
          <5> QED  BY <1>5, <1>7, <2>1, <3>3, <4>1 DEF Minimum
        <4>3. Cardinality(page) = offset + Limit - offset
          BY <1>7, <2>1, <4>2, SliceSize DEF PagingType
        <4>4. Cardinality(page) = Limit
          BY <1>7, <2>1, <4>3
        <4>5. Position(u) <= offset'
          BY <1>2, <2>1, <4>4
        <4> QED  BY <1>2, <1>5, <1>7, <2>1, <3>3, <4>5
      <3> QED  BY <1>5, <1>7, <2>1, <3>1, <3>2, <3>3
    <2>2. ASSUME cached, state' = "done", Len(pages') = 1 PROVE listed \subseteq page
      <3>1. pages = <<>>
        BY <1>2, <2>2 DEF PagingType
      <3>2. offset = 0
        BY <3>1 DEF StartInv
      <3>3. Cardinality(listed) \in Nat /\ (Cardinality(page) = Cardinality(listed) => page = listed)
        BY <1>2, FiniteLists DEF PagingType
      <3>4. Cardinality(page) = Cardinality(listed) - 0
        BY <1>1, <1>2, <2>2, <3>2, <3>3, PageIs
      <3> QED  BY <3>3, <3>4
    <2> QED  BY <1>1, <1>2, <2>1, <2>2 DEF SkipInv
  <1>10. CountInv'
    <2>1. /\ IsFiniteSet(page) /\ Cardinality(page) \in Nat
          /\ offset \in Nat /\ offset <= Cardinality(listed) =>
               /\ Cardinality(page) = Limit => offset + Limit <= Cardinality(listed)
               /\ Cardinality(page) # Limit => Cardinality(page) = Cardinality(listed) - offset
      BY <1>1, PageIs
    <2>2. /\ IsFiniteSet(Entries') /\ Cardinality(Entries') = Cardinality(Entries) + Cardinality(page)
          /\ Cardinality(Entries) \in Nat
      BY <1>2, <2>1, EntriesGrow DEF CountInv
    <2>3. Cardinality(listed) \in Nat
      BY FiniteLists DEF PagingType
    <2> QED  BY <1>1, <1>2, <2>1, <2>2, <2>3 DEF CountInv, Unchanged
  <1> QED  BY <1>3, <1>4, <1>8, <1>9, <1>10

LEMMA PagingInit == Init => PagingInv
  <1> SUFFICES ASSUME Init PROVE PagingInv
    OBVIOUS
  <1>1. PagingType
    <2>1. limit \in Int /\ first \in Int /\ offset \in Int
      BY PagingAssumption DEF Init
    <2>2. listed \subseteq Users /\ came \subseteq Users /\ pages \in Seq(SUBSET Users)
      BY DEF Init
    <2>3. went \in BOOLEAN
      BY DEF Init
    <2>4. cached \in BOOLEAN /\ door \in {"http", "ws", "go"} /\ state = "reading"
      BY DEF Init
    <2> QED  BY <2>1, <2>2, <2>3, <2>4 DEF PagingType
  <1>2. pages = <<>> /\ offset = first /\ came = {} /\ ~went /\ state = "reading"
    BY DEF Init
  <1>3. \A u \in listed : 1 <= Position(u) /\ Position(u) \in Nat
    BY <1>1, PositionIn DEF PagingType, Position
  <1>4. StartInv /\ TwiceInv
    BY <1>2, NothingRead DEF StartInv, TwiceInv
  <1>5. SkipInv
    BY <1>2, <1>3, NothingRead DEF SkipInv
  <1>6. CountInv
    <2>1. Cardinality(listed) \in Nat /\ IsFiniteSet({})
      BY <1>1, FiniteLists, FS_EmptySet DEF PagingType
    <2>2. Entries = {} /\ Cardinality(Entries) = 0
      BY <1>2, NothingRead
    <2>3. IsFiniteSet(Entries)
      BY <2>1, <2>2
    <2>4. first = 0 => offset = 0
      BY <1>2
    <2> QED  BY <1>2, <2>1, <2>2, <2>3, <2>4 DEF CountInv
  <1> QED  BY <1>1, <1>4, <1>5, <1>6 DEF PagingInv

LEMMA PagingStep == PagingInv /\ [Next]_vars => PagingInv'
  <1> SUFFICES ASSUME PagingInv, [Next]_vars PROVE PagingInv'
    OBVIOUS
  <1>1. ASSUME state = "reading", NEW u \in Users, Come(u) \/ Go(u) PROVE PagingInv'
    BY <1>1, ComeKeeps, GoKeeps
  <1>2. CASE UNCHANGED vars
    <2>1. UNCHANGED <<Seen, Entries, Unchanged>> /\ \A u : Position(u)' = Position(u)
      BY <1>2 DEF vars, Seen, Entries, Unchanged, Position
    <2>2. PagingType' /\ StartInv'
      BY <1>2 DEF PagingInv, vars, PagingType, StartInv
    <2>3. TwiceInv' /\ SkipInv'
      BY <1>2, <2>1 DEF PagingInv, vars, TwiceInv, SkipInv
    <2>4. CountInv'
      BY <1>2, <2>1 DEF PagingInv, vars, CountInv
    <2> QED  BY <2>2, <2>3, <2>4 DEF PagingInv
  <1> QED  BY <1>1, <1>2, ReadKeeps, StopKeeps DEF Next

LEMMA PagingInvariant == Spec => []PagingInv
  BY PagingInit, PagingStep, PTL DEF Spec

\* With any limit and offset, the slicing panics only for a list from the cache, and
\* never behind the validator of the HTTP handler.
THEOREM PanicAlwaysNeedsCache == Spec => []PanicNeedsCache
  <1>1. PagingInv => PanicNeedsCache
    BY DEF PagingInv, StartInv, PanicNeedsCache
  <1> QED  BY <1>1, PagingInvariant, PTL

\* Reading from the service, nobody is on two pages unless somebody came meanwhile.
THEOREM NobodyEverTwice == Spec => []NobodyTwice
  <1>1. PagingInv => NobodyTwice
    BY DEF PagingInv, TwiceInv, NobodyTwice
  <1> QED  BY <1>1, PagingInvariant, PTL

\* Nobody who is on the list all the time is skipped, unless somebody went meanwhile,
\* or the list came from the cache on more pages than one.
THEOREM NobodyEverSkipped == Spec => []NobodySkipped
  <1>1. PagingInv => NobodySkipped
    BY DEF PagingInv, PagingType, SkipInv, NobodySkipped
  <1> QED  BY <1>1, PagingInvariant, PTL

\* The pages of an unchanged list have as many entries as it has users, from the
\* service and from the cache.
THEOREM CountStaysRight == Spec => []CountIsRight
  <1>1. PagingInv => CountIsRight
    BY DEF PagingInv, CountInv, CountIsRight
  <1> QED  BY <1>1, PagingInvariant, PTL

===============================================================================
