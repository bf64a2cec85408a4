-------------------------- MODULE ConfigToolsProofs --------------------------
(***************************************************************************)
(* What holds of the tools that read ARM for any collection, filter, page  *)
(* size, cap, limit on bytes and way of paging.                            *)
(***************************************************************************)
EXTENDS ConfigTools, FiniteSetTheorems, SequenceTheorems, TLAPS

Sensible == walk.start = 0 /\ walk.limit > 0

\* A call that lists is one of a list tool or of apim_get_api; a list tool is called
\* by a client that pages, and until it ends there is no answer.
CallShape ==
    /\ call.pc = "getting" => call.read = <<>> /\ call.tool # "list"
    /\ call.pc = "getting" /\ call.tool = "operations" => call.page = 0
    /\ call.pc = "listing" => call.tool \in {"list", "operations"}
    /\ call.pc = "listing" /\ call.tool = "list" => walk.open
    /\ call.pc # "idle" => answer = Nothing

\* What was read are the pages read so far, unless the collection changed meanwhile.
ReadSoFar ==
    call.pc = "listing" /\ ~call.torn => call.read = Slice(Listing, 0, call.page * PageSize)

\* Where a walk is: a sensible one is not before its start, nor beyond the end of what
\* it can see.
WalkShape ==
    /\ call.pc = "listing" /\ call.tool = "list" /\ walk.intact => ~call.torn
    /\ Sensible /\ walk.open => walk.offset >= 0
    /\ Sensible /\ walk.open /\ walk.intact => walk.offset <= Len(Selected(Visible))

IInv == TypeOK /\ CallShape /\ ReadSoFar /\ WalkShape /\ WalkLosesNothing /\ AuditTellsOutcome
-----------------------------------------------------------------------------
(***************************************************************************)
(* Numbers in their order.                                                 *)
(***************************************************************************)

\* How many members of a set are below a number.
Below(S, k) == Cardinality({j \in S : j < k})

\* The ranks of a finite set of numbers are those below its cardinality, and the
\* greater number has the greater rank.
LEMMA Ranks ==
    ASSUME NEW S \in SUBSET Int, IsFiniteSet(S)
    PROVE  /\ \A k \in S : Below(S, k) \in 0 .. Cardinality(S) - 1
           /\ \A k, l \in S : k < l => Below(S, k) < Below(S, l)
<1>1. ASSUME NEW k \in S PROVE Below(S, k) \in 0 .. Cardinality(S) - 1
  <2>. DEFINE T == {j \in S : j < k}
  <2>1. T \in SUBSET S /\ T # S
    BY <1>1
  <2>2. Cardinality(T) \in Nat /\ Cardinality(S) \in Nat
    BY FS_Subset, FS_CardinalityType
  <2>3. Cardinality(T) <= Cardinality(S) /\ Cardinality(T) # Cardinality(S)
    BY <2>1, FS_Subset
  <2>. QED  BY <2>2, <2>3 DEF Below
<1>2. ASSUME NEW k \in S, NEW l \in S, k < l PROVE Below(S, k) < Below(S, l)
  <2>. DEFINE T == {j \in S : j < k}
              U == {j \in S : j < l}
  <2>0. k < l /\ ~(k < k) /\ \A j \in S : j < k => j < l
    BY <1>2
  <2>1. T \cup {k} \subseteq U /\ k \notin T
    BY <2>0
  <2>2. IsFiniteSet(T) /\ IsFiniteSet(U) /\ U \subseteq S
    BY FS_Subset
  <2>. HIDE DEF T, U
  <2>3. IsFiniteSet(T \cup {k}) /\ Cardinality(T \cup {k}) = Cardinality(T) + 1
    BY <2>1, <2>2, FS_AddElement
  <2>4. Cardinality(T \cup {k}) <= Cardinality(U)
    BY <2>1, <2>2, FS_Subset
  <2>5. Cardinality(T) \in Nat /\ Cardinality(U) \in Nat
    BY <2>2, FS_CardinalityType
  <2>6. Cardinality(T) < Cardinality(U)
    BY <2>3, <2>4, <2>5
  <2>. QED  BY <2>6 DEF Below, T, U
<1>. QED  BY <1>1, <1>2

\* Every rank is that of a member.
LEMMA Enumeration ==
    ASSUME NEW S \in SUBSET Int, IsFiniteSet(S), NEW n \in 1 .. Cardinality(S)
    PROVE  Nth(S, n) \in S /\ Below(S, Nth(S, n)) = n - 1
<1>. DEFINE c == Cardinality(S)
            T == 0 .. c - 1
            rank == [k \in S |-> Below(S, k)]
<1>1. c \in Nat
  BY FS_CardinalityType
<1>2. rank \in [S -> T]
  BY Ranks
<1>3. \A k, l \in S : rank[k] = rank[l] => k = l
  <2>1. SUFFICES ASSUME NEW k \in S, NEW l \in S, k # l PROVE Below(S, k) # Below(S, l)
    OBVIOUS
  <2>2. k < l \/ l < k
    BY <2>1
  <2>3. Below(S, k) < Below(S, l) \/ Below(S, l) < Below(S, k)
    BY <2>2, Ranks
  <2>4. Below(S, k) \in Int /\ Below(S, l) \in Int
    BY <1>1, Ranks
  <2>. QED  BY <2>3, <2>4
<1>4. rank \in Injection(S, T)
  BY <1>2, <1>3 DEF Injection, IsInjective
<1>5. IsFiniteSet(T) /\ Cardinality(T) = c
  <2>. HIDE DEF c
  <2>1. 0 \in Int /\ c - 1 \in Int
    BY <1>1
  <2>2. IsFiniteSet(T) /\ Cardinality(T) = IF 0 > c - 1 THEN 0 ELSE c - 1 - 0 + 1
    BY <2>1, FS_Interval
  <2>. QED  BY <1>1, <2>2
<1>6. rank \in Surjection(S, T)
  BY <1>4, <1>5, FS_Injection
<1>7. \E k \in S : rank[k] = n - 1
  <2>1. n - 1 \in T
    BY <1>1
  <2>. QED  BY <1>6, <2>1 DEF Surjection
<1>8. \E k \in S : Cardinality({j \in S : j < k}) = n - 1
  BY <1>7 DEF Below
<1>. QED  BY <1>8 DEF Nth, Below

\* A finite set of numbers that has members has a greatest one.
LEMMA Greatest ==
    ASSUME NEW S \in SUBSET Int, IsFiniteSet(S), S # {}
    PROVE  \E k \in S : \A m \in S : m <= k
<1>. DEFINE c == Cardinality(S)
            k == Nth(S, c)
<1>1. c \in Nat /\ c # 0
  BY FS_CardinalityType, FS_EmptySet
<1>2. k \in S /\ Below(S, k) = c - 1
  BY <1>1, Enumeration
<1>. HIDE DEF k
<1>3. ASSUME NEW m \in S, m > k PROVE FALSE
  <2>1. Below(S, k) < Below(S, m) /\ Below(S, m) \in 0 .. c - 1
    BY <1>2, <1>3, Ranks
  <2>. HIDE DEF c
  <2>. QED  BY <1>1, <1>2, <2>1
<1>4. \A m \in S : m <= k
  BY <1>2, <1>3
<1>. QED  BY <1>2, <1>4

-----------------------------------------------------------------------------
(***************************************************************************)
(* Sequences.                                                              *)
(***************************************************************************)

\* The listing of a collection holds its members.
LEMMA CollectionTyped ==
    ASSUME ConfigToolsAssumption, NEW h \in SUBSET Items
    PROVE  LET l == [n \in 1 .. Cardinality(h) |-> Nth(h, n)]
           IN  l \in Seq(Items) /\ Len(l) = Cardinality(h)
<1>1. IsFiniteSet(h) /\ h \in SUBSET Int
  BY FS_Subset DEF ConfigToolsAssumption
<1>2. Cardinality(h) \in Nat
  BY <1>1, FS_CardinalityType
<1>3. \A n \in 1 .. Cardinality(h) : Nth(h, n) \in Items
  BY <1>1, Enumeration
<1>4. [n \in 1 .. Cardinality(h) |-> Nth(h, n)] \in [1 .. Cardinality(h) -> Items]
  BY <1>3
<1>. QED  BY <1>2, <1>4, SeqDef

LEMMA ListingTyped ==
    ASSUME ConfigToolsAssumption, held \subseteq Items
    PROVE  Listing \in Seq(Items) /\ Len(Listing) = Cardinality(held)
BY CollectionTyped DEF Listing

\* A tool selects items that match, and all of them that it was given.
LEMMA SelectedTyped ==
    ASSUME NEW read \in Seq(Items)
    PROVE  Selected(read) \in Seq(Matching)
<1>. DEFINE at == {n \in DOMAIN read : read[n] \in Matching}
            c == Cardinality(at)
<1>1. at \in SUBSET (1 .. Len(read)) /\ Len(read) \in Nat
  BY LenProperties
<1>2. IsFiniteSet(at) /\ at \in SUBSET Int
  <2>1. IsFiniteSet(1 .. Len(read))
    BY <1>1, FS_Interval
  <2>. QED  BY <1>1, <2>1, FS_Subset
<1>3. c \in Nat
  BY <1>2, FS_CardinalityType
<1>4. \A n \in 1 .. c : Nth(at, n) \in at
  BY <1>2, Enumeration
<1>5. \A n \in 1 .. c : read[Nth(at, n)] \in Matching
  BY <1>4
<1>6. Selected(read) = [n \in 1 .. c |-> read[Nth(at, n)]]
  BY DEF Selected
<1>. HIDE DEF at, c
<1>7. Selected(read) \in [1 .. c -> Matching]
  BY <1>5, <1>6
<1>. QED  BY <1>3, <1>7, SeqDef

\* Where a slice of Python begins and ends.
At(s, n) ==
    IF n < 0 THEN IF Len(s) + n < 0 THEN 0 ELSE Len(s) + n
    ELSE IF n > Len(s) THEN Len(s) ELSE n

\* A slice is a part of the list that it is cut from.
LEMMA SliceIs ==
    ASSUME NEW S, NEW s \in Seq(S), NEW from \in Int, NEW to \in Int
    PROVE  /\ Slice(s, from, to) = SubSeq(s, At(s, from) + 1, At(s, to))
           /\ At(s, from) \in 0 .. Len(s) /\ At(s, to) \in 0 .. Len(s)
           /\ Slice(s, from, to) \in Seq(S)
           /\ Len(Slice(s, from, to)) = IF At(s, from) + 1 <= At(s, to)
                                          THEN At(s, to) - At(s, from) ELSE 0
           /\ \A i \in 1 .. Len(Slice(s, from, to)) : Slice(s, from, to)[i] = s[At(s, from) + i]
<1>. DEFINE f == At(s, from)
            t == At(s, to)
<1>1. Len(s) \in Nat
  OBVIOUS
<1>2. f \in 0 .. Len(s) /\ t \in 0 .. Len(s)
  BY <1>1 DEF At
<1>3. Slice(s, from, to) = SubSeq(s, f + 1, t)
  BY DEF Slice, At
<1>. HIDE DEF f, t
<1>4. \A i \in f + 1 .. t : s[i] \in S
  BY <1>1, <1>2
<1>5. /\ SubSeq(s, f + 1, t) \in Seq(S)
      /\ Len(SubSeq(s, f + 1, t)) = IF f + 1 <= t THEN t - (f + 1) + 1 ELSE 0
      /\ \A i \in 1 .. t - (f + 1) + 1 : SubSeq(s, f + 1, t)[i] = s[f + 1 + i - 1]
  BY <1>1, <1>2, <1>4, SubSeqProperties
<1>6. Len(SubSeq(s, f + 1, t)) = IF f + 1 <= t THEN t - f ELSE 0
  BY <1>1, <1>2, <1>5
<1>7. \A i \in 1 .. Len(SubSeq(s, f + 1, t)) : SubSeq(s, f + 1, t)[i] = s[f + i]
  <2>1. \A i \in 1 .. Len(SubSeq(s, f + 1, t)) : i \in 1 .. t - (f + 1) + 1 /\ f + 1 + i - 1 = f + i
    BY <1>1, <1>2, <1>6
  <2>. QED  BY <1>5, <2>1
<1>. QED  BY <1>2, <1>3, <1>5, <1>6, <1>7 DEF f, t

\* Adjacent slices make one.
LEMMA SlicesJoin ==
    ASSUME NEW S, NEW s \in Seq(S), NEW a \in Nat, NEW b \in Nat, a <= b
    PROVE  Slice(s, 0, a) \o Slice(s, a, b) = Slice(s, 0, b)
<1>. DEFINE i == At(s, a)
            j == At(s, b)
<1>1. Len(s) \in Nat
  OBVIOUS
<1>2. i \in 0 .. Len(s) /\ j \in i .. Len(s) /\ At(s, 0) = 0
  BY <1>1 DEF At
<1>3. /\ Slice(s, 0, a) = SubSeq(s, 1, i) /\ Slice(s, 0, b) = SubSeq(s, 1, j)
      /\ Slice(s, a, b) = SubSeq(s, i + 1, j)
  BY <1>2, SliceIs
<1>. HIDE DEF i, j
<1>4. SubSeq(s, 1, i) \o SubSeq(s, i + 1, j) = SubSeq(s, 1, j)
  BY <1>1, <1>2, ConcatAdjacentSubSeq
<1>. QED  BY <1>3, <1>4

\* The numbers up to n are n.
LEMMA UpTo == ASSUME NEW n \in Nat PROVE IsFiniteSet(1 .. n) /\ Cardinality(1 .. n) = n
<1>1. IsFiniteSet(1 .. n) /\ Cardinality(1 .. n) = IF 1 > n THEN 0 ELSE n - 1 + 1
  BY FS_Interval
<1>. QED  BY <1>1

\* The size of a list is a number.
LEMMA SizeIsNat ==
    ASSUME ConfigToolsAssumption, NEW s \in Seq(Items)
    PROVE  Size(s) \in Nat
<1>. DEFINE N == DOMAIN s
            cut(n) == {n} \X (1 .. Weight[s[n]])
            Cuts == {cut(n) : n \in N}
            f == [n \in N |-> cut(n)]
<1>1. IsFiniteSet(N) /\ \A n \in N : s[n] \in Items
  <2>1. Len(s) \in Nat /\ N = 1 .. Len(s)
    BY LenProperties
  <2>2. IsFiniteSet(1 .. Len(s))
    BY <2>1, FS_Interval
  <2>. QED  BY <2>1, <2>2, ElementOfSeq
<1>2. \A n \in N : IsFiniteSet(cut(n))
  <2>1. SUFFICES ASSUME NEW n \in N PROVE IsFiniteSet(cut(n))
    OBVIOUS
  <2>2. Weight[s[n]] \in Nat
    BY <1>1 DEF ConfigToolsAssumption
  <2>3. IsFiniteSet({n}) /\ IsFiniteSet(1 .. Weight[s[n]])
    BY <2>2, FS_Singleton, UpTo
  <2>. QED  BY <2>3, FS_Product
<1>3. f \in Surjection(N, Cuts)
  BY DEF Surjection
<1>4. IsFiniteSet(Cuts)
  BY <1>1, <1>3, FS_Surjection
<1>5. IsFiniteSet(UNION Cuts)
  BY <1>2, <1>4, FS_UNION
<1>6. Size(s) = Cardinality(UNION Cuts)
  BY DEF Size
<1>. QED  BY <1>5, <1>6, FS_CardinalityType

\* The size of one item is its weight.
LEMMA SizeOfOne ==
    ASSUME ConfigToolsAssumption, NEW s \in Seq(Items), Len(s) = 1
    PROVE  Size(s) = Weight[s[1]]
<1>1. DOMAIN s = {1} /\ s[1] \in Items
  BY LenProperties
<1>2. Weight[s[1]] \in Nat
  BY <1>1 DEF ConfigToolsAssumption
<1>. DEFINE w == Weight[s[1]]
<1>3. UNION {{n} \X (1 .. Weight[s[n]]) : n \in DOMAIN s} = {1} \X (1 .. w)
  BY <1>1
<1>4. Size(s) = Cardinality({1} \X (1 .. w))
  BY <1>3 DEF Size
<1>. HIDE DEF w
<1>5. w \in Nat
  BY <1>2 DEF w
<1>6. IsFiniteSet(1 .. w) /\ Cardinality(1 .. w) = w
  BY <1>5, UpTo
<1>7. IsFiniteSet({1}) /\ Cardinality({1}) = 1
  BY FS_Singleton
<1>8. Cardinality({1} \X (1 .. w)) = 1 * w
  BY <1>6, <1>7, FS_Product
<1>9. Size(s) = w
  BY <1>4, <1>5, <1>8
<1>. QED  BY <1>9 DEF w

-----------------------------------------------------------------------------
(***************************************************************************)
(* The envelope.                                                           *)
(***************************************************************************)

\* An answer of a list tool.
GoesOn(a, shown, total, offset) ==
    /\ a \in Answers /\ a.kind = "ok" /\ a.shown = shown
    /\ a.next = IF offset + Len(shown) < total THEN offset + Len(shown) ELSE None

\* An answer shows the first k items of its page.
ShowsFirst(a, page, total, offset, k) ==
    /\ GoesOn(a, SubSeq(page, 1, k), total, offset)
    /\ ~a.truncated => k = Len(page)
    /\ a.truncated => k < Len(page) \/ (Len(page) = 0 /\ Base > MaxBytes)
    /\ k = 0 /\ Len(page) > 0 => ~FitsAlone(page[1])

\* The beginnings of a page are lists of items.
LEMMA FirstItems ==
    ASSUME NEW page \in Seq(Items), NEW k \in 0 .. Len(page)
    PROVE  /\ SubSeq(page, 1, k) \in Seq(Items) /\ Len(SubSeq(page, 1, k)) = k
           /\ \A i \in 1 .. k : SubSeq(page, 1, k)[i] = page[i]
<1>1. Len(page) \in Nat /\ \A i \in 1 .. k : page[i] \in Items
  OBVIOUS
<1>. QED  BY <1>1, SubSeqProperties

LEMMA EnvelopeIs ==
    ASSUME NEW s \in Seq(Items), NEW total \in Nat, NEW offset \in Int
    PROVE  /\ GoesOn(Envelope(s, total, offset), s, total, offset)
           /\ ~Envelope(s, total, offset).truncated
<1>1. Len(s) \in Nat
  OBVIOUS
<1>. QED  BY <1>1 DEF Envelope, Answers, GoesOn

\* Truncation drops items from the end, none without need, and all only if the first
\* one fits in no answer.
LEMMA TruncatedIs ==
    ASSUME ConfigToolsAssumption, NEW page \in Seq(Items), NEW total \in Nat, NEW offset \in Int
    PROVE  \E k \in 0 .. Len(page) :
              ShowsFirst(Truncated(page, total, offset), page, total, offset, k)
<1>0. Len(page) \in Nat /\ Base \in Nat /\ Hint \in Nat /\ MaxBytes \in Nat
  BY DEF ConfigToolsAssumption
<1>1. CASE Base + Size(page) <= MaxBytes
  <2>. DEFINE e == Envelope(page, total, offset)
  <2>1. Truncated(page, total, offset) = e
    BY <1>1 DEF Truncated
  <2>2. GoesOn(e, page, total, offset) /\ ~e.truncated
    BY EnvelopeIs
  <2>. HIDE DEF e
  <2>3. SubSeq(page, 1, Len(page)) = page
    BY SubSeqFull
  <2>4. Len(page) \in 0 .. Len(page) /\ (Len(page) > 0 => Len(page) # 0)
    BY <1>0
  <2>5. ShowsFirst(e, page, total, offset, Len(page))
    BY <2>2, <2>3, <2>4 DEF ShowsFirst
  <2>. QED  BY <2>1, <2>4, <2>5
<1>2. CASE ~(Base + Size(page) <= MaxBytes)
  <2>. DEFINE fits(n) == Base + Hint + Size(SubSeq(page, 1, n)) <= MaxBytes
              fitting == {n \in 0 .. Len(page) : fits(n)}
              kept == CHOOSE n \in fitting \cup {0} : \A m \in fitting : m <= n
              a == [Envelope(SubSeq(page, 1, kept), total, offset) EXCEPT !.truncated = TRUE]
  <2>1. Truncated(page, total, offset) = a
    BY <1>2 DEF Truncated
  <2>2. kept \in fitting \cup {0} /\ \A m \in fitting : m <= kept
    <3>1. fitting \cup {0} \in SUBSET (0 .. Len(page))
      BY <1>0
    <3>2. IsFiniteSet(fitting \cup {0})
      <4>1. IsFiniteSet(0 .. Len(page))
        BY <1>0, FS_Interval
      <4>. QED  BY <3>1, <4>1, FS_Subset
    <3>3. fitting \cup {0} \in SUBSET Int
      BY <1>0, <3>1
    <3>4. \E k \in fitting \cup {0} : \A m \in fitting \cup {0} : m <= k
      <4>. HIDE DEF fitting
      <4>. QED  BY <3>2, <3>3, Greatest
    <3>5. \E k \in fitting \cup {0} : \A m \in fitting : m <= k
      BY <3>4
    <3>. HIDE DEF fitting
    <3>. QED  BY <3>5
  <2>. HIDE DEF fits, kept
  <2>3. kept \in 0 .. Len(page) /\ \A m \in 0 .. Len(page) : fits(m) => m <= kept
    BY <1>0, <2>2
  <2>4. kept # 0 => fits(kept)
    BY <2>2
  <2>. HIDE DEF fitting
  <2>5. SubSeq(page, 1, kept) \in Seq(Items) /\ Len(SubSeq(page, 1, kept)) = kept
    BY <2>3, FirstItems
  <2>6. GoesOn(a, SubSeq(page, 1, kept), total, offset) /\ a.truncated
    <3>. DEFINE q == SubSeq(page, 1, kept)
                e == Envelope(q, total, offset)
    <3>1. GoesOn(e, q, total, offset)
      BY <2>5, EnvelopeIs
    <3>2. a = [e EXCEPT !.truncated = TRUE]
      OBVIOUS
    <3>. HIDE DEF a, e, q
    <3>3. GoesOn(a, q, total, offset) /\ a.truncated
      BY <3>1, <3>2 DEF GoesOn, Answers
    <3>. QED  BY <3>3 DEF q
  <2>7. kept < Len(page) \/ (Len(page) = 0 /\ Base > MaxBytes)
    <3>1. SubSeq(page, 1, Len(page)) = page /\ Size(page) \in Nat
      BY SubSeqFull, SizeIsNat
    <3>2. ASSUME kept = Len(page), kept # 0 PROVE FALSE
      <4>1. Base + Hint + Size(page) <= MaxBytes
        BY <2>4, <3>1, <3>2 DEF fits
      <4>. QED  BY <1>0, <1>2, <3>1, <4>1
    <3>3. ASSUME Len(page) = 0 PROVE Base > MaxBytes
      <4>1. Size(page) = 0
        <5>1. DOMAIN page = {}
          BY <3>3, LenProperties
        <5>2. UNION {{n} \X (1 .. Weight[page[n]]) : n \in DOMAIN page} = {}
          BY <5>1
        <5>. QED  BY <5>2, FS_EmptySet DEF Size
      <4>. QED  BY <1>0, <1>2, <4>1
    <3>. QED  BY <1>0, <2>3, <3>2, <3>3
  <2>8. kept = 0 /\ Len(page) > 0 => ~FitsAlone(page[1])
    <3>1. SUFFICES ASSUME kept = 0, Len(page) > 0 PROVE ~FitsAlone(page[1])
      OBVIOUS
    <3>2. 1 \in 0 .. Len(page) /\ ~fits(1)
      BY <1>0, <2>3, <3>1
    <3>3. /\ SubSeq(page, 1, 1) \in Seq(Items) /\ Len(SubSeq(page, 1, 1)) = 1
          /\ SubSeq(page, 1, 1)[1] = page[1]
      BY <3>2, FirstItems
    <3>4. Size(SubSeq(page, 1, 1)) = Weight[page[1]]
      BY <3>3, SizeOfOne
    <3>. QED  BY <3>2, <3>4 DEF FitsAlone, fits
  <2>. HIDE DEF a
  <2>. QED  BY <2>1, <2>3, <2>6, <2>7, <2>8 DEF ShowsFirst
<1>. QED  BY <1>1, <1>2

\* The items that match are items.
LEMMA MatchingItems ==
    ASSUME ConfigToolsAssumption, NEW s \in Seq(Matching)
    PROVE  s \in Seq(Items)
BY SeqMonotonic DEF ConfigToolsAssumption

\* What a tool answers of its list: the first items of the page that was asked for.
LEMMA PaginatedIs ==
    ASSUME ConfigToolsAssumption, NEW items \in Seq(Matching), NEW limit \in Int, NEW offset \in Int
    PROVE  /\ Paginated(items, limit, offset).shown \in Seq(Matching)
           /\ \E k \in 0 .. Len(Slice(items, offset, offset + limit)) :
                 ShowsFirst(Paginated(items, limit, offset), Slice(items, offset, offset + limit),
                            Len(items), offset, k)
<1>. DEFINE page == Slice(items, offset, offset + limit)
            a == Paginated(items, limit, offset)
<1>1. page \in Seq(Matching)
  BY SliceIs
<1>2. page \in Seq(Items) /\ Len(items) \in Nat
  BY <1>1, MatchingItems
<1>3. a = Truncated(page, Len(items), offset)
  BY DEF Paginated
<1>. HIDE DEF page, a
<1>4. PICK k \in 0 .. Len(page) : ShowsFirst(a, page, Len(items), offset, k)
  BY <1>2, <1>3, TruncatedIs
<1>5. a.shown \in Seq(Matching)
  <2>1. a.shown = SubSeq(page, 1, k)
    BY <1>4 DEF ShowsFirst, GoesOn
  <2>2. \A i \in 1 .. k : page[i] \in Matching
    BY <1>1
  <2>. QED  BY <2>1, <2>2, SubSeqProperties
<1>. QED  BY <1>4, <1>5 DEF page, a

\* The page of an offset that is not negative.
LEMMA PageAt ==
    ASSUME NEW items \in Seq(Matching), NEW limit \in Int, NEW offset \in Nat
    PROVE  LET page == Slice(items, offset, offset + limit)
           IN  /\ page \in Seq(Matching)
               /\ Len(page) > 0 => offset + Len(page) <= Len(items)
               /\ \A i \in 1 .. Len(page) : page[i] = items[offset + i]
               /\ offset < Len(items) /\ limit > 0 => Len(page) > 0
<1>. DEFINE page == Slice(items, offset, offset + limit)
            f == At(items, offset)
            t == At(items, offset + limit)
<1>1. Len(items) \in Nat
  OBVIOUS
<1>2. /\ page \in Seq(Matching) /\ f \in 0 .. Len(items) /\ t \in 0 .. Len(items)
      /\ Len(page) = IF f + 1 <= t THEN t - f ELSE 0
      /\ \A i \in 1 .. Len(page) : page[i] = items[f + i]
  <2>1. offset + limit \in Int /\ offset \in Int
    OBVIOUS
  <2>. QED  BY <2>1, SliceIs
<1>3. f = IF offset > Len(items) THEN Len(items) ELSE offset
  BY DEF At
<1>4. offset < Len(items) /\ limit > 0 => f + 1 <= t
  BY <1>1 DEF At
<1>. HIDE DEF page, f, t
<1>5. Len(page) > 0 => f = offset /\ offset + Len(page) <= Len(items)
  BY <1>1, <1>2, <1>3
<1>6. \A i \in 1 .. Len(page) : page[i] = items[offset + i]
  BY <1>2, <1>5
<1>7. offset < Len(items) /\ limit > 0 => Len(page) > 0
  BY <1>2, <1>4
<1>. QED  BY <1>2, <1>5, <1>6, <1>7 DEF page

\* An answer goes on where the items already got end.
LEMMA WalkGoesOn ==
    ASSUME ConfigToolsAssumption, NEW items \in Seq(Matching), NEW limit \in Nat \ {0},
           NEW offset \in 0 .. Len(items)
    PROVE  LET a == Paginated(items, limit, offset)
           IN  /\ a.next # None => a.next \in offset .. Len(items)
               /\ SubSeq(items, 1, offset) \o a.shown =
                     SubSeq(items, 1, IF a.next = None THEN Len(items) ELSE a.next)
<1>. DEFINE page == Slice(items, offset, offset + limit)
            a == Paginated(items, limit, offset)
<1>1. Len(items) \in Nat
  OBVIOUS
<1>2. /\ page \in Seq(Matching)
      /\ Len(page) > 0 => offset + Len(page) <= Len(items)
      /\ \A i \in 1 .. Len(page) : page[i] = items[offset + i]
  <2>1. offset \in Nat /\ limit \in Int
    BY <1>1
  <2>. QED  BY <2>1, PageAt
<1>3. PICK k \in 0 .. Len(page) : ShowsFirst(a, page, Len(items), offset, k)
  BY PaginatedIs
<1>. HIDE DEF page, a
<1>4. Len(page) \in Nat /\ offset + k \in offset .. Len(items)
  BY <1>1, <1>2
<1>5. /\ a.shown = SubSeq(page, 1, k)
      /\ a.next = IF offset + k < Len(items) THEN offset + k ELSE None
  <2>1. page \in Seq(Items)
    BY <1>2, MatchingItems
  <2>2. Len(SubSeq(page, 1, k)) = k
    BY <2>1, FirstItems
  <2>. QED  BY <1>3, <2>2 DEF ShowsFirst, GoesOn
<1>6. SubSeq(page, 1, k) = SubSeq(items, offset + 1, offset + k)
  <2>1. \A i \in 1 .. k : page[i] \in Matching
    BY <1>2, <1>4
  <2>2. /\ SubSeq(page, 1, k) \in Seq(Matching) /\ Len(SubSeq(page, 1, k)) = k
        /\ \A i \in 1 .. k : SubSeq(page, 1, k)[i] = page[i]
    BY <2>1, <1>4, SubSeqProperties
  <2>3. \A i \in offset + 1 .. offset + k : items[i] \in Matching
    BY <1>1, <1>4
  <2>4. /\ SubSeq(items, offset + 1, offset + k) \in Seq(Matching)
        /\ Len(SubSeq(items, offset + 1, offset + k)) = k
        /\ \A i \in 1 .. k : SubSeq(items, offset + 1, offset + k)[i] = items[offset + i]
    <3>1. /\ SubSeq(items, offset + 1, offset + k) \in Seq(Matching)
          /\ Len(SubSeq(items, offset + 1, offset + k)) =
                IF offset + 1 <= offset + k THEN offset + k - (offset + 1) + 1 ELSE 0
          /\ \A i \in 1 .. offset + k - (offset + 1) + 1 :
                SubSeq(items, offset + 1, offset + k)[i] = items[offset + 1 + i - 1]
      BY <1>1, <1>4, <2>3, SubSeqProperties
    <3>2. k \in Nat /\ offset + k - (offset + 1) + 1 = k
      BY <1>4
    <3>3. \A i \in 1 .. k : offset + 1 + i - 1 = offset + i
      BY <1>4
    <3>. QED  BY <3>1, <3>2, <3>3
  <2>5. \A i \in 1 .. k : page[i] = items[offset + i]
    BY <1>2, <1>4
  <2>. QED  BY <2>2, <2>4, <2>5, SeqEqual
<1>7. SubSeq(items, 1, offset) \o a.shown = SubSeq(items, 1, offset + k)
  <2>1. 1 \in 1 .. Len(items) + 1 /\ offset \in 1 - 1 .. Len(items)
    BY <1>1
  <2>2. SubSeq(items, 1, offset) \o SubSeq(items, offset + 1, offset + k)
           = SubSeq(items, 1, offset + k)
    BY <1>4, <2>1, ConcatAdjacentSubSeq
  <2>. QED  BY <1>5, <1>6, <2>2
<1>8. offset + k # None
  BY <1>4 DEF ConfigToolsAssumption
<1>9. CASE offset + k < Len(items)
  BY <1>4, <1>5, <1>7, <1>8, <1>9 DEF a
<1>10. CASE ~(offset + k < Len(items))
  <2>1. offset + k = Len(items)
    BY <1>1, <1>4, <1>10
  <2>. QED  BY <1>5, <1>7, <1>10, <2>1 DEF a
<1>. QED  BY <1>9, <1>10

-----------------------------------------------------------------------------
(***************************************************************************)
(* What a call reads.                                                      *)
(***************************************************************************)

\* The number of items on the pages before a page.
LEMMA PagesGrow ==
    ASSUME NEW a \in Nat, NEW b \in Nat, NEW p \in Nat, a <= b
    PROVE  a * p \in Nat /\ b * p \in Nat /\ a * p <= b * p
<1>1. a * p \in Nat /\ b * p \in Nat /\ (b - a) * p \in Nat
  <2>1. b - a \in Nat
    OBVIOUS
  <2>. QED  BY <2>1
<1>2. b * p = a * p + (b - a) * p
  OBVIOUS
<1>. QED  BY <1>1, <1>2

\* What can be seen of the collection changes only with it.
LEMMA SameCollection ==
    ASSUME held' = held
    PROVE  Listing' = Listing /\ Visible' = Visible /\ Selected(Visible)' = Selected(Visible)
<1>1. Listing' = Listing
  BY DEF Listing
<1>2. Visible' = Visible
  BY <1>1 DEF Visible
<1>. QED  BY <1>1, <1>2

\* What can be seen of the collection is a list of items.
LEMMA VisibleTyped ==
    ASSUME ConfigToolsAssumption, held \subseteq Items
    PROVE  Visible \in Seq(Items) /\ Selected(Visible) \in Seq(Matching)
<1>1. MaxPages * PageSize \in Nat
  <2>1. MaxPages \in Nat /\ PageSize \in Nat
    BY DEF ConfigToolsAssumption
  <2>. QED  BY <2>1, PagesGrow
<1>. DEFINE m == MaxPages * PageSize
<1>. HIDE DEF m
<1>2. Slice(Listing, 0, m) \in Seq(Items)
  BY <1>1, ListingTyped, SliceIs DEF m
<1>3. Visible \in Seq(Items)
  BY <1>2 DEF Visible, m
<1>. QED  BY <1>3, SelectedTyped

\* Before the first page nothing is read.
LEMMA NothingRead ==
    ASSUME ConfigToolsAssumption, NEW s \in Seq(Items)
    PROVE  Slice(s, 0, 0 * PageSize) = <<>>
<1>1. 0 * PageSize = 0
  <2>1. PageSize \in Nat
    BY DEF ConfigToolsAssumption
  <2>. QED  BY <2>1
<1>2. Slice(s, 0, 0) = <<>>
  <2>. DEFINE cut == Slice(s, 0, 0)
  <2>1. 0 \in Int /\ Len(s) \in Nat
    OBVIOUS
  <2>2. /\ cut \in Seq(Items)
        /\ Len(cut) = IF At(s, 0) + 1 <= At(s, 0) THEN At(s, 0) - At(s, 0) ELSE 0
    BY <2>1, SliceIs
  <2>3. At(s, 0) = 0
    BY <2>1 DEF At
  <2>. HIDE DEF cut
  <2>4. Len(cut) = 0
    BY <2>2, <2>3
  <2>5. cut = <<>>
    BY <2>2, <2>4, EmptySeq
  <2>. QED  BY <2>5 DEF cut
<1>. QED  BY <1>1, <1>2

\* The pages that are read, the next one included, are what the call may see of an
\* unchanged collection.
LEMMA PagesRead ==
    ASSUME ConfigToolsAssumption, TypeOK, ReadSoFar, call.pc = "listing", call.page < MaxPages
    PROVE  /\ Listing \in Seq(Items) /\ Page \in Seq(Items) /\ call.read \o Page \in Seq(Items)
           /\ Visible \in Seq(Items) /\ Selected(Visible) \in Seq(Matching)
           /\ ~call.torn => call.read \o Page = Slice(Listing, 0, (call.page + 1) * PageSize)
           /\ ~call.torn /\ ~(NextLink /\ call.page + 1 < MaxPages) =>
                 call.read \o Page = Visible
<1>. DEFINE a == call.page * PageSize
            b == (call.page + 1) * PageSize
            m == MaxPages * PageSize
<1>1. /\ call.page \in Nat /\ call.page + 1 \in Nat /\ PageSize \in Nat /\ MaxPages \in Nat
      /\ call.page <= call.page + 1 /\ call.page + 1 <= MaxPages
  BY DEF TypeOK, Calls, ConfigToolsAssumption
<1>2. a \in Nat /\ b \in Nat /\ a <= b /\ m \in Nat /\ b <= m
  BY <1>1, PagesGrow
<1>3. Listing \in Seq(Items) /\ Len(Listing) \in Nat
  BY ListingTyped DEF TypeOK
<1>4. Page = Slice(Listing, a, b) /\ Visible = Slice(Listing, 0, m)
  BY DEF Page, Visible
<1>5. (NextLink <=> b < Len(Listing)) /\ (~call.torn => call.read = Slice(Listing, 0, a))
  BY DEF NextLink, ReadSoFar
<1>6. call.page + 1 = MaxPages => b = m
  OBVIOUS
<1>. HIDE DEF a, b, m
<1>7. Page \in Seq(Items) /\ Visible \in Seq(Items)
  BY <1>2, <1>3, <1>4, SliceIs
<1>8. call.read \o Page \in Seq(Items)
  BY <1>7, ConcatProperties DEF TypeOK, Calls
<1>9. ~call.torn => call.read \o Page = Slice(Listing, 0, b)
  BY <1>2, <1>3, <1>4, <1>5, SlicesJoin
<1>10. ~NextLink => Slice(Listing, 0, b) = Visible
  <2>1. SUFFICES ASSUME b >= Len(Listing) PROVE Slice(Listing, 0, b) = Visible
    BY <1>2, <1>3, <1>5
  <2>2. At(Listing, b) = Len(Listing) /\ At(Listing, m) = Len(Listing)
    BY <1>2, <1>3, <2>1 DEF At
  <2>3. /\ Slice(Listing, 0, b) = SubSeq(Listing, At(Listing, 0) + 1, At(Listing, b))
        /\ Slice(Listing, 0, m) = SubSeq(Listing, At(Listing, 0) + 1, At(Listing, m))
    BY <1>2, <1>3, SliceIs
  <2>. QED  BY <1>4, <2>2, <2>3
<1>11. call.page + 1 >= MaxPages => Slice(Listing, 0, b) = Visible
  <2>1. call.page + 1 >= MaxPages => call.page + 1 = MaxPages
    BY <1>1
  <2>. QED  BY <1>4, <1>6, <2>1
<1>12. Selected(Visible) \in Seq(Matching)
  BY <1>7, SelectedTyped
<1>13. ~(call.page + 1 < MaxPages) => call.page + 1 >= MaxPages
  BY <1>1
<1>. QED  BY <1>3, <1>7, <1>8, <1>9, <1>10, <1>11, <1>12, <1>13 DEF b

-----------------------------------------------------------------------------
(***************************************************************************)
(* Steps.                                                                  *)
(***************************************************************************)

\* No call is in progress, and what a call would have told is told.
LEMMA NoCallShape ==
    ASSUME call'.pc = "idle"
    PROVE  CallShape' /\ ReadSoFar'
BY DEF CallShape, ReadSoFar

LEMMA IdleTyped ==
    ASSUME ConfigToolsAssumption
    PROVE  /\ Idle \in Calls /\ Idle.pc = "idle" /\ Idle.page = 0 /\ Idle.tool = "list"
           /\ Idle.read = <<>> /\ Idle.torn = FALSE
           /\ 0 < MaxPages /\ 0 < NServices
           /\ Nothing \in Answers /\ Nothing.kind = "none" /\ Nothing.truncated = FALSE
           /\ NoWalk \in Walks
           /\ Unaudited \in [outcome : {"none", "ok", "error"}, truncated : BOOLEAN]
           /\ Unaudited = [outcome |-> Nothing.kind, truncated |-> Nothing.truncated]
<1>1. <<>> \in Seq(Items) /\ <<>> \in Seq(Matching)
  OBVIOUS
<1>. QED  BY <1>1 DEF ConfigToolsAssumption, Idle, Calls, Tools, Nothing, Answers, NoWalk, Walks,
                      Unaudited

\* A call that ends, with an answer or without, and leaves the walk as it is.
LEMMA CallEnded ==
    ASSUME ConfigToolsAssumption, IInv, call' = Idle,
           held' = held, changes' = changes, walk' = walk,
           answer' \in Answers,
           event' = [outcome |-> answer'.kind, truncated |-> answer'.truncated]
    PROVE  IInv'
<1>1. TypeOK'
  BY IdleTyped DEF IInv, TypeOK, Answers
<1>2. CallShape' /\ ReadSoFar'
  BY IdleTyped, NoCallShape
<1>3. WalkShape' /\ WalkLosesNothing'
  BY IdleTyped, SameCollection DEF IInv, WalkShape, WalkLosesNothing, Sensible
<1>4. AuditTellsOutcome'
  BY DEF AuditTellsOutcome
<1>. QED  BY <1>1, <1>2, <1>3, <1>4 DEF IInv

LEMMA AnsweredEnds ==
    ASSUME ConfigToolsAssumption, IInv, NEW a \in Answers, Answered(a),
           held' = held, changes' = changes, walk' = walk
    PROVE  IInv'
BY CallEnded DEF Answered

\* A call that goes on, after its first await or with a page more.
LEMMA CallGoesOn ==
    ASSUME ConfigToolsAssumption, IInv, held' = held, changes' = changes, walk' = walk,
           call' \in Calls,
           call'.page < IF call'.tool = "services" THEN NServices ELSE MaxPages,
           CallShape', ReadSoFar',
           call'.pc = "listing" /\ call'.tool = "list" /\ walk.intact => ~call'.torn,
           answer' = Nothing, event' = Unaudited
    PROVE  IInv'
<1>1. TypeOK'
  BY IdleTyped DEF IInv, TypeOK
<1>2. WalkShape' /\ WalkLosesNothing'
  BY SameCollection DEF IInv, WalkShape, WalkLosesNothing, Sensible
<1>3. AuditTellsOutcome'
  BY IdleTyped DEF AuditTellsOutcome
<1>. QED  BY <1>1, <1>2, <1>3 DEF IInv

\* While a call is in progress there is neither an answer nor an event.
LEMMA NothingYet ==
    ASSUME ConfigToolsAssumption, IInv, call.pc # "idle"
    PROVE  answer = Nothing /\ event = Unaudited
<1>1. answer = Nothing
  BY DEF IInv, CallShape
<1>. QED  BY <1>1, IdleTyped DEF IInv, AuditTellsOutcome

\* The collection, and the client that pages.
LEMMA ClientSteps ==
    ASSUME ConfigToolsAssumption, IInv,
           \/ \E i \in Items : Change(i)
           \/ \E limit \in Limits, offset \in Offsets : Open(limit, offset)
           \/ GiveUp
    PROVE  IInv'
<1>1. ASSUME NEW i \in Items, Change(i) PROVE IInv'
  <2>1. /\ held' \subseteq Items /\ changes' \in 0 .. MaxChanges
        /\ call' = [call EXCEPT !.torn = @ \/ (call.pc = "listing" /\ call.page > 0)]
        /\ walk' = [walk EXCEPT !.intact = (walk = NoWalk)] /\ answer' = answer /\ event' = event
        /\ call \in Calls /\ walk \in Walks
    BY <1>1 DEF Change, IInv, TypeOK, ConfigToolsAssumption
  <2>2. /\ call' \in Calls /\ walk' \in Walks
        /\ call'.pc = call.pc /\ call'.tool = call.tool /\ call'.page = call.page
        /\ call'.read = call.read
        /\ call'.torn = (call.torn \/ (call.pc = "listing" /\ call.page > 0))
        /\ walk'.open = walk.open /\ walk'.limit = walk.limit /\ walk'.start = walk.start
        /\ walk'.offset = walk.offset /\ walk'.intact = (walk = NoWalk)
    BY <2>1 DEF Calls, Walks
  <2>7. TypeOK'
    BY <2>1, <2>2 DEF IInv, TypeOK
  <2>3. CallShape'
    BY <2>1, <2>2 DEF IInv, CallShape
  <2>4. ReadSoFar'
    <3>1. SUFFICES ASSUME call'.pc = "listing", ~call'.torn
                   PROVE  call'.read = Slice(Listing', 0, call'.page * PageSize)
      BY DEF ReadSoFar
    <3>2. call.pc = "listing" /\ ~call.torn /\ ~(call.page > 0)
      BY <2>2, <3>1
    <3>3. call.page = 0
      BY <2>1, <3>2 DEF Calls
    <3>4. Listing \in Seq(Items) /\ Listing' \in Seq(Items)
      <4>1. \A h : h \subseteq Items =>
              [n \in 1 .. Cardinality(h) |-> Nth(h, n)] \in Seq(Items)
        BY CollectionTyped
      <4>. QED  BY <2>1, <4>1 DEF IInv, TypeOK, Listing
    <3>5. call.read = <<>>
      BY <3>2, <3>3, <3>4, NothingRead DEF IInv, ReadSoFar
    <3>. QED  BY <2>2, <3>3, <3>4, <3>5, NothingRead
  <2>5. WalkShape' /\ WalkLosesNothing'
    <3>1. CASE walk = NoWalk
      <4>1. walk'.open = FALSE /\ walk'.limit = 0
        BY <2>2, <3>1 DEF NoWalk
      <4>2. ~(call.pc = "listing" /\ call.tool = "list")
        BY <3>1 DEF IInv, CallShape, NoWalk
      <4>. QED  BY <2>2, <4>1, <4>2 DEF WalkShape, WalkLosesNothing, Sensible
    <3>2. CASE walk # NoWalk
      BY <2>2, <3>2 DEF IInv, WalkShape, WalkLosesNothing, Sensible
    <3>. QED  BY <3>1, <3>2
  <2>6. AuditTellsOutcome'
    BY <2>1 DEF IInv, AuditTellsOutcome
  <2>. QED  BY <2>7, <2>3, <2>4, <2>5, <2>6 DEF IInv
<1>2. ASSUME NEW limit \in Limits, NEW offset \in Offsets, Open(limit, offset) PROVE IInv'
  <2>1. /\ held' = held /\ changes' = changes /\ call' = call /\ answer' = answer
        /\ event' = event /\ call.pc = "idle"
        /\ walk' = [open |-> TRUE, limit |-> limit, start |-> offset, offset |-> offset,
                    got |-> <<>>, intact |-> TRUE]
    BY <1>2 DEF Open
  <2>2. TypeOK'
    <3>1. walk' \in Walks
      BY <2>1 DEF Walks, ConfigToolsAssumption
    <3>. QED  BY <2>1, <3>1 DEF IInv, TypeOK
  <2>3. CallShape' /\ ReadSoFar' /\ AuditTellsOutcome'
    BY <2>1, NoCallShape DEF IInv, AuditTellsOutcome
  <2>4. Selected(Visible)' \in Seq(Matching)
    BY <2>1, VisibleTyped, SameCollection DEF IInv, TypeOK
  <2>5. /\ walk'.open = TRUE /\ walk'.start = offset /\ walk'.offset = offset
        /\ walk'.got = <<>>
    BY <2>1
  <2>6. offset = 0 => offset <= Len(Selected(Visible)')
    BY <2>4
  <2>7. SubSeq(Selected(Visible)', 1, 0) = <<>>
    BY SubSeqEmpty
  <2>. QED  BY <2>1, <2>2, <2>3, <2>5, <2>6, <2>7
            DEF IInv, WalkShape, WalkLosesNothing, Sensible
<1>3. CASE GiveUp
  <2>1. /\ held' = held /\ changes' = changes /\ call' = call /\ answer' = answer
        /\ event' = event /\ call.pc = "idle" /\ walk' = NoWalk
    BY <1>3 DEF GiveUp
  <2>2. TypeOK'
    BY <2>1, IdleTyped DEF IInv, TypeOK
  <2>3. CallShape' /\ ReadSoFar' /\ AuditTellsOutcome'
    BY <2>1, NoCallShape DEF IInv, AuditTellsOutcome
  <2>4. walk'.open = FALSE /\ walk'.limit = 0
    BY <2>1 DEF NoWalk
  <2>. QED  BY <2>1, <2>2, <2>3, <2>4 DEF IInv, WalkShape, WalkLosesNothing, Sensible
<1>. QED  BY <1>1, <1>2, <1>3

\* A call until its first await, one that is refused before it, and one that is
\* cancelled.
LEMMA CallSteps ==
    ASSUME ConfigToolsAssumption, IInv,
           AskList \/ (\E tool \in Tools \ {"list"} : AskOne(tool)) \/ Refuse \/ Cancel
    PROVE  IInv'
<1>1. CASE AskList
  <2>1. /\ call' = [Idle EXCEPT !.pc = "listing", !.tool = "list"] /\ walk.open
        /\ held' = held /\ changes' = changes /\ walk' = walk
        /\ answer' = Nothing /\ event' = Unaudited
    BY <1>1 DEF AskList, Begun
  <2>2. /\ call' \in Calls /\ call'.pc = "listing" /\ call'.tool = "list" /\ call'.page = 0
        /\ call'.read = <<>> /\ call'.torn = FALSE
    BY <2>1, IdleTyped DEF Calls, Tools
  <2>3. CallShape'
    BY <2>1, <2>2 DEF CallShape
  <2>4. ReadSoFar'
    <3>1. Listing' \in Seq(Items)
      BY <2>1, ListingTyped, SameCollection DEF IInv, TypeOK
    <3>. QED  BY <2>2, <3>1, NothingRead DEF ReadSoFar
  <2>. QED  BY <2>1, <2>2, <2>3, <2>4, IdleTyped, CallGoesOn
<1>2. ASSUME NEW tool \in Tools \ {"list"}, AskOne(tool) PROVE IInv'
  <2>1. /\ call' = [Idle EXCEPT !.pc = "getting", !.tool = tool]
        /\ held' = held /\ changes' = changes /\ walk' = walk
        /\ answer' = Nothing /\ event' = Unaudited
    BY <1>2 DEF AskOne, Begun
  <2>2. /\ call' \in Calls /\ call'.pc = "getting" /\ call'.tool = tool /\ call'.page = 0
        /\ call'.read = <<>> /\ call'.torn = FALSE
    BY <2>1, IdleTyped DEF Calls, Tools
  <2>3. CallShape' /\ ReadSoFar'
    BY <2>1, <2>2 DEF CallShape, ReadSoFar
  <2>. QED  BY <2>1, <2>2, <2>3, IdleTyped, CallGoesOn
<1>3. CASE Refuse
  <2>1. [Nothing EXCEPT !.kind = "error"] \in Answers
    BY IdleTyped DEF Answers
  <2>. QED  BY <1>3, <2>1, AnsweredEnds DEF Refuse, Failed
<1>4. CASE Cancel
  <2>1. event' = [outcome |-> answer'.kind, truncated |-> answer'.truncated]
    BY <1>4 DEF Cancel, IInv, AuditTellsOutcome
  <2>. QED  BY <1>4, <2>1, CallEnded DEF Cancel, IInv, TypeOK
<1>. QED  BY <1>1, <1>2, <1>3, <1>4

\* The answers of ARM that are no page.
LEMMA GetSteps ==
    ASSUME ConfigToolsAssumption, IInv,
           GetFails \/ GotOne \/ GotApi \/ GotService \/ PageFails \/ UpstreamRaises
    PROVE  IInv'
<1>1. /\ [Nothing EXCEPT !.kind = "error"] \in Answers
      /\ [Nothing EXCEPT !.kind = "ok"] \in Answers
  BY IdleTyped DEF Answers
<1>2. CASE GetFails \/ PageFails \/ UpstreamRaises
  BY <1>1, <1>2, AnsweredEnds DEF GetFails, PageFails, UpstreamRaises, Failed
<1>3. CASE GotTheOne
  BY <1>1, <1>3, AnsweredEnds DEF GotTheOne
<1>4. ASSUME call.pc = "getting", call.tool = "operations",
             call' = [call EXCEPT !.pc = "listing"],
             UNCHANGED <<held, changes, walk, answer, event>>
      PROVE  IInv'
  <2>1. call \in Calls /\ call.read = <<>> /\ call.page = 0
    BY <1>4 DEF IInv, TypeOK, CallShape
  <2>2. /\ call' \in Calls /\ call'.pc = "listing" /\ call'.tool = "operations"
        /\ call'.read = <<>> /\ call'.page = 0
    BY <1>4, <2>1 DEF Calls
  <2>3. answer' = Nothing /\ event' = Unaudited
    BY <1>4, NothingYet
  <2>4. CallShape'
    BY <2>2, <2>3 DEF CallShape
  <2>5. ReadSoFar'
    <3>1. Listing' \in Seq(Items)
      BY <1>4, ListingTyped, SameCollection DEF IInv, TypeOK
    <3>. QED  BY <2>2, <3>1, NothingRead DEF ReadSoFar
  <2>. QED  BY <1>4, <2>2, <2>3, <2>4, <2>5, IdleTyped, CallGoesOn
<1>5. ASSUME call.pc = "getting", call.tool = "services", call.page + 1 # NServices,
             call' = [call EXCEPT !.page = @ + 1],
             UNCHANGED <<held, changes, walk, answer, event>>
      PROVE  IInv'
  <2>1. call \in Calls /\ call.read = <<>> /\ call.page < NServices
    BY <1>5 DEF IInv, TypeOK, CallShape
  <2>2. /\ call' \in Calls /\ call'.pc = "getting" /\ call'.tool = "services"
        /\ call'.read = <<>> /\ call'.page = call.page + 1
    BY <1>5, <2>1 DEF Calls
  <2>3. call'.page < NServices
    BY <1>5, <2>1, <2>2 DEF Calls, ConfigToolsAssumption
  <2>4. answer' = Nothing /\ event' = Unaudited
    BY <1>5, NothingYet
  <2>5. CallShape' /\ ReadSoFar'
    BY <2>2, <2>4 DEF CallShape, ReadSoFar
  <2>. QED  BY <1>5, <2>2, <2>3, <2>4, <2>5, CallGoesOn
<1>. QED  BY <1>2, <1>3, <1>4, <1>5 DEF GotOne, GotApi, GotService

\* A page that is not the last one.
LEMMA NextPage ==
    ASSUME ConfigToolsAssumption, IInv, call.pc = "listing", call.page + 1 < MaxPages,
           call' = [call EXCEPT !.page = @ + 1, !.read = @ \o Page],
           UNCHANGED <<held, changes, walk, answer, event>>
    PROVE  IInv'
<1>1. call \in Calls /\ call.tool \in {"list", "operations"} /\ call.page < MaxPages
  BY DEF IInv, TypeOK, CallShape
<1>2. /\ call.read \o Page \in Seq(Items)
      /\ ~call.torn => call.read \o Page = Slice(Listing, 0, (call.page + 1) * PageSize)
  BY <1>1, PagesRead DEF IInv
<1>3. /\ call' \in Calls /\ call'.pc = "listing" /\ call'.tool = call.tool
      /\ call'.torn = call.torn /\ call'.page = call.page + 1
      /\ call'.read = call.read \o Page
  <2>. DEFINE read == call.read \o Page
  <2>1. call' = [call EXCEPT !.page = call.page + 1, !.read = read]
    OBVIOUS
  <2>2. read \in Seq(Items)
    BY <1>2
  <2>. HIDE DEF read
  <2>4. call \in Calls /\ call.page + 1 \in Nat
    BY <1>1 DEF Calls
  <2>3. /\ call' \in Calls /\ call'.pc = call.pc /\ call'.tool = call.tool
        /\ call'.torn = call.torn /\ call'.page = call.page + 1 /\ call'.read = read
    BY <2>1, <2>2, <2>4 DEF Calls
  <2>. QED  BY <2>3 DEF read
<1>4. answer' = Nothing /\ event' = Unaudited
  BY NothingYet
<1>5. CallShape'
  BY <1>1, <1>3, <1>4 DEF IInv, CallShape
<1>6. ReadSoFar'
  BY <1>2, <1>3, SameCollection DEF ReadSoFar
<1>7. call'.pc = "listing" /\ call'.tool = "list" /\ walk.intact => ~call'.torn
  BY <1>3 DEF IInv, WalkShape
<1>8. call'.page < IF call'.tool = "services" THEN NServices ELSE MaxPages
  BY <1>1, <1>3
<1>. QED  BY <1>3, <1>4, <1>5, <1>6, <1>7, <1>8, CallGoesOn

\* The operations that apim_get_api shows.
LEMMA InlinedIs ==
    ASSUME ConfigToolsAssumption, NEW read \in Seq(Items)
    PROVE  /\ Inlined(read) \in Answers
           /\ Inlined(read).kind = "ok" /\ Inlined(read).next = None
           /\ Inlined(read).truncated <=> Len(read) > MaxInline
           /\ Len(Inlined(read).shown) = IF Len(read) > MaxInline THEN MaxInline ELSE Len(read)
<1>. DEFINE m == MaxInline
            shown == Slice(read, 0, m)
            more == Len(read) > MaxInline
<1>1. MaxInline \in Nat /\ Len(read) \in Nat
  BY DEF ConfigToolsAssumption
<1>2. /\ shown \in Seq(Items)
      /\ Len(shown) = IF At(read, 0) + 1 <= At(read, m) THEN At(read, m) - At(read, 0) ELSE 0
  BY <1>1, SliceIs
<1>3. At(read, 0) = 0 /\ At(read, m) = IF m > Len(read) THEN Len(read) ELSE m
  BY <1>1 DEF At
<1>4. Inlined(read) = [Nothing EXCEPT !.kind = "ok", !.shown = shown, !.truncated = more]
  BY DEF Inlined
<1>7. more \in BOOLEAN
  OBVIOUS
<1>. HIDE DEF shown
<1>5. Len(shown) = IF Len(read) > MaxInline THEN MaxInline ELSE Len(read)
  BY <1>1, <1>2, <1>3
<1>. HIDE DEF more
<1>6. /\ Inlined(read) \in Answers
      /\ Inlined(read).kind = "ok" /\ Inlined(read).next = None
      /\ Inlined(read).truncated = more
      /\ Inlined(read).shown = shown
  BY <1>2, <1>4, <1>7 DEF Nothing, Answers
<1>. QED  BY <1>5, <1>6 DEF more

\* What an answer of a list tool does to the walk.
LEMMA ListAnswered ==
    ASSUME ConfigToolsAssumption, IInv, call.pc = "listing", call.tool = "list",
           NEW items \in Seq(Matching),
           ~call.torn => items = Selected(Visible),
           held' = held, changes' = changes,
           Answered(Paginated(items, walk.limit, walk.offset)),
           walk' = [walk EXCEPT
                       !.open = (Paginated(items, walk.limit, walk.offset).next # None),
                       !.offset = IF Paginated(items, walk.limit, walk.offset).next = None THEN @
                                  ELSE Paginated(items, walk.limit, walk.offset).next,
                       !.got = @ \o Paginated(items, walk.limit, walk.offset).shown]
    PROVE  IInv'
<1>. DEFINE a == Paginated(items, walk.limit, walk.offset)
            page == Slice(items, walk.offset, walk.offset + walk.limit)
<1>1. walk \in Walks /\ walk.open /\ walk.limit \in Int /\ walk.offset \in Int
  BY DEF IInv, TypeOK, CallShape, Walks
<1>2. PICK k \in 0 .. Len(page) : ShowsFirst(a, page, Len(items), walk.offset, k)
  BY <1>1, PaginatedIs
<1>3. a \in Answers /\ a.shown \in Seq(Matching)
  BY <1>1, <1>2, PaginatedIs DEF ShowsFirst, GoesOn
<1>4. /\ walk' = [walk EXCEPT !.open = (a.next # None),
                              !.offset = IF a.next = None THEN @ ELSE a.next,
                              !.got = @ \o a.shown]
      /\ call' = Idle /\ answer' = a
      /\ event' = [outcome |-> a.kind, truncated |-> a.truncated]
  BY DEF Answered
<1>5. a.next = None \/ (a.next \in Int /\ a.next >= walk.offset)
  <2>1. page \in Seq(Items) /\ Len(page) \in Nat
    <3>1. page \in Seq(Matching)
      <4>1. walk.offset + walk.limit \in Int
        BY <1>1
      <4>. QED  BY <1>1, <4>1, SliceIs
    <3>. QED  BY <3>1, MatchingItems
  <2>2. Len(SubSeq(page, 1, k)) = k
    BY <2>1, FirstItems
  <2>3. a.next = IF walk.offset + k < Len(items) THEN walk.offset + k ELSE None
    BY <1>2, <2>2 DEF ShowsFirst, GoesOn
  <2>. HIDE DEF a, page
  <2>. QED  BY <1>1, <2>1, <2>3
<1>. HIDE DEF a, page
<1>8. /\ walk' \in Walks /\ (walk'.open <=> a.next # None)
      /\ walk'.offset = IF a.next = None THEN walk.offset ELSE a.next
      /\ walk'.got = walk.got \o a.shown
      /\ walk'.limit = walk.limit /\ walk'.start = walk.start /\ walk'.intact = walk.intact
  <2>1. walk.got \o a.shown \in Seq(Matching)
    BY <1>1, <1>3, ConcatProperties DEF Walks
  <2>. QED  BY <1>1, <1>4, <1>5, <2>1 DEF Walks
<1>9. TypeOK'
  BY <1>3, <1>4, <1>8, IdleTyped DEF IInv, TypeOK, Answers
<1>10. CallShape' /\ ReadSoFar' /\ AuditTellsOutcome'
  BY <1>4, IdleTyped, NoCallShape DEF AuditTellsOutcome
<1>11. Sensible' /\ walk'.open => walk'.offset >= 0
  BY <1>1, <1>5, <1>8 DEF IInv, WalkShape, Sensible
<1>12. ASSUME walk'.intact, Sensible'
       PROVE  /\ walk'.open => walk'.offset <= Len(Selected(Visible)')
              /\ walk'.got = IF walk'.open THEN SubSeq(Selected(Visible)', 1, walk'.offset)
                             ELSE Selected(Visible)'
  <2>1. Sensible /\ walk.intact /\ ~call.torn /\ items = Selected(Visible)
    BY <1>8, <1>12 DEF IInv, WalkShape, Sensible
  <2>2. /\ walk.limit \in Nat \ {0} /\ walk.offset \in 0 .. Len(items)
        /\ walk.got = SubSeq(items, 1, walk.offset)
    BY <1>1, <2>1 DEF IInv, WalkShape, WalkLosesNothing, Sensible
  <2>3. /\ a.next # None => a.next \in walk.offset .. Len(items)
        /\ SubSeq(items, 1, walk.offset) \o a.shown =
              SubSeq(items, 1, IF a.next = None THEN Len(items) ELSE a.next)
    BY <2>2, WalkGoesOn DEF a
  <2>4. SubSeq(items, 1, Len(items)) = items
    BY SubSeqFull
  <2>5. Selected(Visible)' = items
    BY <2>1, SameCollection
  <2>6. CASE a.next = None
    BY <1>8, <2>2, <2>3, <2>4, <2>5, <2>6
  <2>7. CASE a.next # None
    <3>1. walk'.offset = a.next /\ walk'.open /\ a.next <= Len(items)
      BY <1>8, <2>2, <2>3, <2>7
    <3>2. walk'.got = SubSeq(items, 1, a.next)
      BY <1>8, <2>2, <2>3, <2>7
    <3>. QED  BY <2>5, <3>1, <3>2
  <2>. QED  BY <2>6, <2>7
<1>13. WalkShape' /\ WalkLosesNothing'
  BY <1>4, <1>11, <1>12, IdleTyped DEF WalkShape, WalkLosesNothing, Sensible
<1>. QED  BY <1>9, <1>10, <1>13 DEF IInv

\* A page, of a list tool or of apim_get_api, the last one or not.
LEMMA PageSteps ==
    ASSUME ConfigToolsAssumption, IInv, PageRead
    PROVE  IInv'
<1>. DEFINE read == call.read \o Page
<1>1. call.pc = "listing" /\ call.tool \in {"list", "operations"} /\ call.page < MaxPages
      /\ held' = held /\ changes' = changes
  BY DEF PageRead, IInv, TypeOK, CallShape
<1>2. /\ read \in Seq(Items)
      /\ ~call.torn /\ ~(NextLink /\ call.page + 1 < MaxPages) => read = Visible
  BY <1>1, PagesRead DEF IInv
<1>3. CASE NextLink /\ call.page + 1 < MaxPages
  BY <1>1, <1>3, NextPage DEF PageRead
<1>4. CASE ~(NextLink /\ call.page + 1 < MaxPages)
  <2>1. Finished(read)
    BY <1>4 DEF PageRead
  <2>. HIDE DEF read
  <2>2. CASE call.tool = "operations"
    BY <1>1, <1>2, <2>1, <2>2, InlinedIs, AnsweredEnds DEF Finished
  <2>3. CASE call.tool = "list"
    <3>. DEFINE items == Selected(read)
    <3>1. items \in Seq(Matching) /\ (~call.torn => items = Selected(Visible))
      BY <1>2, <1>4, SelectedTyped
    <3>2. /\ Answered(Paginated(items, walk.limit, walk.offset))
          /\ walk' = [walk EXCEPT
                       !.open = (Paginated(items, walk.limit, walk.offset).next # None),
                       !.offset = IF Paginated(items, walk.limit, walk.offset).next = None THEN @
                                  ELSE Paginated(items, walk.limit, walk.offset).next,
                       !.got = @ \o Paginated(items, walk.limit, walk.offset).shown]
      BY <2>1, <2>3 DEF Finished
    <3>. HIDE DEF items
    <3>. QED  BY <1>1, <2>3, <3>1, <3>2, ListAnswered
  <2>. QED  BY <1>1, <2>2, <2>3
<1>. QED  BY <1>3, <1>4

-----------------------------------------------------------------------------
(***************************************************************************)
(* The theorems.                                                           *)
(***************************************************************************)

LEMMA InitIInv == ASSUME ConfigToolsAssumption, Init PROVE IInv
<1>1. TypeOK
  <2>1. changes \in 0 .. MaxChanges
    BY DEF Init, ConfigToolsAssumption
  <2>2. call \in Calls /\ call.page < IF call.tool = "services" THEN NServices ELSE MaxPages
    BY IdleTyped DEF Init
  <2>3. walk \in Walks /\ answer \in Answers
        /\ event \in [outcome : {"none", "ok", "error"}, truncated : BOOLEAN]
    BY IdleTyped DEF Init
  <2>. QED  BY <2>1, <2>2, <2>3 DEF Init, TypeOK
<1>2. CallShape /\ ReadSoFar
  BY IdleTyped DEF Init, CallShape, ReadSoFar
<1>3. walk.limit = 0 /\ call.pc = "idle"
  BY IdleTyped DEF Init, NoWalk
<1>4. WalkShape /\ WalkLosesNothing
  BY <1>3 DEF WalkShape, WalkLosesNothing, Sensible
<1>5. AuditTellsOutcome
  BY IdleTyped DEF Init, AuditTellsOutcome
<1>. QED  BY <1>1, <1>2, <1>4, <1>5 DEF IInv

LEMMA StepIInv == ASSUME ConfigToolsAssumption, IInv, [Next]_vars PROVE IInv'
<1>1. CASE Next
  BY <1>1, ClientSteps, CallSteps, GetSteps, PageSteps DEF Next, Arm
<1>2. CASE UNCHANGED vars
  <2>. USE <1>2 DEF vars
  <2>1. Listing' = Listing /\ Selected(Visible)' = Selected(Visible)
    BY SameCollection
  <2>. QED  BY <2>1 DEF IInv, TypeOK, CallShape, ReadSoFar, WalkShape, WalkLosesNothing,
                        AuditTellsOutcome, Sensible
<1>. QED  BY <1>1, <1>2

LEMMA IInvHolds == Spec => []IInv
<1>1. Init => IInv
  BY InitIInv, ConfigToolsAssumption
<1>2. IInv /\ [Next]_vars => IInv'
  BY StepIInv, ConfigToolsAssumption
<1>. QED  BY <1>1, <1>2, PTL DEF Spec

\* The variables have their types; in particular no list_all reads more than its cap.
THEOREM ConfigTypeCorrect == Spec => []TypeOK
<1>1. IInv => TypeOK
  BY DEF IInv
<1>. QED  BY <1>1, IInvHolds, PTL

\* The audit event of a call says what its client was told (AuditTellsOutcome;
\* audited_tool).
THEOREM AuditTells == Spec => []AuditTellsOutcome
<1>1. IInv => AuditTellsOutcome
  BY DEF IInv
<1>. QED  BY <1>1, IInvHolds, PTL

\* Paging from 0 with a limit above 0 gets every item that list_all sees, once and in
\* order, for any page size, cap, filter, weights and limit on bytes (WalkLosesNothing;
\* _paginate, build_list_envelope, apply_truncation).
THEOREM WalksLoseNothing == Spec => []WalkLosesNothing
<1>1. IInv => WalkLosesNothing
  BY DEF IInv
<1>. QED  BY <1>1, IInvHolds, PTL

\* A call that lists ends well only with its last page.
LEMMA EndsWithLastPage ==
    ASSUME ConfigToolsAssumption, IInv, Next, ListEnds
    PROVE  /\ Finished(call.read \o Page)
           /\ ~call.torn => call.read \o Page = Visible
           /\ call.read \o Page \in Seq(Items)
           /\ Visible \in Seq(Items) /\ Listing \in Seq(Items)
           /\ call.tool \in {"list", "operations"}
<1>1. call.pc = "listing" /\ call'.pc = "idle" /\ answer'.kind = "ok" /\ call \in Calls
  BY DEF ListEnds, IInv, TypeOK
<1>2. call.tool \in {"list", "operations"} /\ call.page < MaxPages /\ answer = Nothing
  BY <1>1 DEF IInv, TypeOK, CallShape
<1>3. PageRead
  <2>1. ASSUME NEW i \in Items, Change(i) PROVE FALSE
    BY <1>1, <2>1 DEF Change, Calls
  <2>2. ~GiveUp /\ ~AskList /\ ~Refuse
    BY <1>1 DEF GiveUp, AskList, Begun, Refuse
  <2>3. /\ \A limit \in Limits, offset \in Offsets : ~Open(limit, offset)
        /\ \A tool \in Tools \ {"list"} : ~AskOne(tool)
    BY <1>1 DEF Open, AskOne, Begun
  <2>4. ~Cancel
    BY <1>1, <1>2, IdleTyped DEF Cancel
  <2>5. ~PageFails /\ ~UpstreamRaises
    BY <1>1, IdleTyped DEF PageFails, UpstreamRaises, Failed, Answered, Nothing
  <2>6. ~GetFails /\ ~GotOne /\ ~GotApi /\ ~GotService
    BY <1>1, <1>2 DEF GetFails, GotOne, GotApi, GotService, GotTheOne
  <2>. QED  BY <2>1, <2>2, <2>3, <2>4, <2>5, <2>6 DEF Next, Arm
<1>4. ~(NextLink /\ call.page + 1 < MaxPages)
  <2>1. SUFFICES ASSUME call' = [call EXCEPT !.page = @ + 1, !.read = @ \o Page] PROVE FALSE
    BY <1>3 DEF PageRead
  <2>. QED  BY <1>1, <2>1 DEF Calls
<1>5. Finished(call.read \o Page)
  BY <1>3, <1>4 DEF PageRead
<1>. QED  BY <1>1, <1>2, <1>4, <1>5, PagesRead DEF IInv

\* What a list tool has answered.
LEMMA ListAnswer ==
    ASSUME ConfigToolsAssumption, IInv, Next, ListEnds, call.tool = "list", ~call.torn,
           walk.offset >= 0
    PROVE  LET items == Selected(Visible)
               page  == Slice(items, walk.offset, walk.offset + walk.limit)
           IN  /\ items \in Seq(Matching) /\ page \in Seq(Items)
               /\ Len(page) > 0 => walk.offset + Len(page) <= Len(items)
               /\ walk.offset < Len(items) /\ walk.limit > 0 =>
                     Len(page) > 0 /\ page[1] = items[walk.offset + 1]
               /\ \E k \in 0 .. Len(page) :
                     ShowsFirst(answer', page, Len(items), walk.offset, k)
               /\ walk.offset \in Nat /\ walk.limit \in Int
<1>. DEFINE items == Selected(Visible)
            page == Slice(items, walk.offset, walk.offset + walk.limit)
<1>1. walk.offset \in Nat /\ walk.limit \in Int /\ walk.offset \in Int
  BY DEF IInv, TypeOK, Walks
<1>2. answer' = Paginated(items, walk.limit, walk.offset)
  BY EndsWithLastPage DEF Finished, Answered
<1>3. items \in Seq(Matching)
  BY EndsWithLastPage, SelectedTyped
<1>. HIDE DEF items
<1>4. /\ page \in Seq(Matching)
      /\ Len(page) > 0 => walk.offset + Len(page) <= Len(items)
      /\ \A i \in 1 .. Len(page) : page[i] = items[walk.offset + i]
      /\ walk.offset < Len(items) /\ walk.limit > 0 => Len(page) > 0
  BY <1>1, <1>3, PageAt
<1>5. \E k \in 0 .. Len(page) : ShowsFirst(answer', page, Len(items), walk.offset, k)
  BY <1>1, <1>2, <1>3, PaginatedIs
<1>. HIDE DEF page
<1>6. page \in Seq(Items) /\ Len(page) \in Nat
  BY <1>4, MatchingItems
<1>7. Len(page) > 0 => 1 \in 1 .. Len(page)
  BY <1>6
<1>. QED  BY <1>1, <1>3, <1>4, <1>5, <1>6, <1>7 DEF items, page

\* An answer leaves a client where it was only because of its limit or its offset, or
\* of an item that fits in no answer (StallsExplained; apply_truncation).
THEOREM StallsAreExplained == Spec => StallsExplained
<1>1. ASSUME IInv, Next, ListEnds, ~call.torn, answer'.next # None, answer'.next <= walk.offset
      PROVE  \/ walk.limit <= 0 \/ walk.offset < 0
             \/ ~FitsAlone(Selected(Visible)[walk.offset + 1])
  <2>. DEFINE items == Selected(Visible)
              page == Slice(items, walk.offset, walk.offset + walk.limit)
  <2>1. SUFFICES ASSUME walk.limit > 0, walk.offset >= 0
                 PROVE  ~FitsAlone(items[walk.offset + 1])
    BY <1>1 DEF IInv, TypeOK, Walks
  <2>2. call.tool = "list"
    <3>1. SUFFICES ASSUME call.tool = "operations" PROVE FALSE
      BY <1>1, EndsWithLastPage, ConfigToolsAssumption
    <3>2. answer' = Inlined(call.read \o Page) /\ call.read \o Page \in Seq(Items)
      BY <1>1, <3>1, EndsWithLastPage, ConfigToolsAssumption DEF Finished, Answered
    <3>. QED  BY <1>1, <3>2, InlinedIs, ConfigToolsAssumption
  <2>3. /\ items \in Seq(Matching) /\ page \in Seq(Items)
        /\ walk.offset < Len(items) /\ walk.limit > 0 =>
              Len(page) > 0 /\ page[1] = items[walk.offset + 1]
        /\ \E k \in 0 .. Len(page) : ShowsFirst(answer', page, Len(items), walk.offset, k)
        /\ walk.offset \in Nat /\ walk.limit \in Int
    BY <1>1, <2>1, <2>2, ListAnswer, ConfigToolsAssumption
  <2>. HIDE DEF items, page
  <2>4. PICK k \in 0 .. Len(page) : ShowsFirst(answer', page, Len(items), walk.offset, k)
    BY <2>3
  <2>5. Len(page) \in Nat /\ Len(items) \in Nat /\ Len(SubSeq(page, 1, k)) = k
    BY <2>3, FirstItems
  <2>6. answer'.next = walk.offset + k /\ walk.offset + k < Len(items)
    BY <1>1, <2>4, <2>5 DEF ShowsFirst, GoesOn
  <2>7. k = 0 /\ walk.offset < Len(items)
    BY <1>1, <2>3, <2>5, <2>6
  <2>. QED  BY <2>1, <2>3, <2>4, <2>7 DEF ShowsFirst
<1>2. IInv /\ [Next]_vars => [StallExplained]_vars
  BY <1>1 DEF StallExplained
<1>. QED  BY <1>2, IInvHolds, PTL DEF Spec, StallsExplained

\* list_all sees the whole of a collection that is not beyond its cap.
LEMMA SeesAll ==
    ASSUME ConfigToolsAssumption, held \subseteq Items, Cardinality(held) <= MaxPages * PageSize
    PROVE  Visible = Listing
<1>. DEFINE m == MaxPages * PageSize
<1>1. m \in Nat
  <2>1. MaxPages \in Nat /\ PageSize \in Nat
    BY DEF ConfigToolsAssumption
  <2>. QED  BY <2>1, PagesGrow
<1>. HIDE DEF m
<1>2. Listing \in Seq(Items) /\ Len(Listing) \in Nat /\ Len(Listing) <= m
  BY ListingTyped DEF m
<1>3. At(Listing, 0) = 0 /\ At(Listing, m) = Len(Listing)
  BY <1>1, <1>2 DEF At
<1>4. Slice(Listing, 0, m) = SubSeq(Listing, 1, Len(Listing))
  BY <1>1, <1>2, <1>3, SliceIs
<1>. QED  BY <1>2, <1>4, SubSeqFull DEF Visible, m

\* An answer tells whether it leaves out items that the call asked for, up to the cap
\* of list_all (OmissionsAnnounced; list_all, _paginate, apply_truncation, apim_get_api).
THEOREM OmissionsAreAnnounced == Spec => OmissionsAnnounced
<1>1. ASSUME IInv, Next, ListEnds, ~call.torn, walk.offset >= 0,
             Cardinality(held) <= MaxPages * PageSize, call.tool = "list"
      PROVE  LET total == Len(Selected(Listing))
                 upto  == walk.offset + Len(answer'.shown)
                 told  == answer'.next # None \/ answer'.truncated
             IN  /\ upto < total => told
                 /\ told => (upto < total \/ Base > MaxBytes)
  <2>. DEFINE items == Selected(Visible)
              page == Slice(items, walk.offset, walk.offset + walk.limit)
  <2>1. /\ items \in Seq(Matching) /\ page \in Seq(Items)
        /\ Len(page) > 0 => walk.offset + Len(page) <= Len(items)
        /\ \E k \in 0 .. Len(page) : ShowsFirst(answer', page, Len(items), walk.offset, k)
        /\ walk.offset \in Nat
    BY <1>1, ListAnswer, ConfigToolsAssumption
  <2>2. items = Selected(Listing)
    BY <1>1, SeesAll, ConfigToolsAssumption DEF IInv, TypeOK
  <2>. HIDE DEF items, page
  <2>3. PICK k \in 0 .. Len(page) : ShowsFirst(answer', page, Len(items), walk.offset, k)
    BY <2>1
  <2>4. Len(page) \in Nat /\ Len(items) \in Nat /\ Len(SubSeq(page, 1, k)) = k
    BY <2>1, FirstItems
  <2>5. /\ Len(answer'.shown) = k
        /\ answer'.next = IF walk.offset + k < Len(items) THEN walk.offset + k ELSE None
    BY <2>3, <2>4 DEF ShowsFirst, GoesOn
  <2>6. walk.offset + k # None
    BY <2>1, <2>4, ConfigToolsAssumption DEF ConfigToolsAssumption
  <2>7. answer'.next # None <=> walk.offset + k < Len(items)
    BY <2>5, <2>6
  <2>8. answer'.truncated => k < Len(page) \/ Base > MaxBytes
    BY <2>3 DEF ShowsFirst
  <2>9. k < Len(page) => walk.offset + k < Len(items)
    BY <2>1, <2>4
  <2>. QED  BY <2>2, <2>5, <2>7, <2>8, <2>9
<1>2. ASSUME IInv, Next, ListEnds, ~call.torn, walk.offset >= 0,
             Cardinality(held) <= MaxPages * PageSize, call.tool # "list"
      PROVE  LET total == Len(Listing)
                 upto  == 0 + Len(answer'.shown)
                 told  == answer'.next # None \/ answer'.truncated
             IN  /\ upto < total => told
                 /\ told => (upto < total \/ Base > MaxBytes)
  <2>1. call.tool = "operations" /\ call.read \o Page = Visible /\ Finished(call.read \o Page)
        /\ Visible \in Seq(Items)
    BY <1>2, EndsWithLastPage, ConfigToolsAssumption
  <2>2. Visible = Listing
    BY <1>2, SeesAll, ConfigToolsAssumption DEF IInv, TypeOK
  <2>3. answer' = Inlined(Listing)
    BY <2>1, <2>2 DEF Finished, Answered
  <2>4. /\ answer'.next = None
        /\ answer'.truncated <=> Len(Listing) > MaxInline
        /\ Len(answer'.shown) = IF Len(Listing) > MaxInline THEN MaxInline ELSE Len(Listing)
    BY <2>1, <2>2, <2>3, InlinedIs, ConfigToolsAssumption
  <2>5. Len(Listing) \in Nat /\ MaxInline \in Nat
    BY <2>1, <2>2, ConfigToolsAssumption DEF ConfigToolsAssumption
  <2>. QED  BY <2>4, <2>5
<1>3. IInv /\ [Next]_vars => [OmissionAnnounced]_vars
  BY <1>1, <1>2 DEF OmissionAnnounced
<1>. QED  BY <1>3, IInvHolds, PTL DEF Spec, OmissionsAnnounced

=============================================================================
