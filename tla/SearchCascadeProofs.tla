------------------------ MODULE SearchCascadeProofs ------------------------
(***************************************************************************)
(* Proofs about SearchCascade, for any catalog, any offers of the sources, *)
(* any searches at once and any settings.  What is computed by going       *)
(* through a list - deduplication and merge - needs an induction over the  *)
(* naturals (NatSetInduction, from the well-foundedness of finite sets),   *)
(* and so does the existence of the recursive functions that define it     *)
(* (Recursion).  Everything about one search is a fact about a record, so  *)
(* that only the last part speaks of states and steps.                     *)
(***************************************************************************)
EXTENDS SearchCascade, FunctionTheorems, FiniteSetTheorems, WellFoundedInduction, TLAPS

-----------------------------------------------------------------------------
(* The inductive invariant.  Its parts about one search speak of the rest   *)
(* of the state only through their parameters: filed, the keys that were in *)
(* the catalog at some time; ever, the repositories that had a badge at     *)
(* some time; md, the mode.  The first two only grow.                       *)

Filed == DOMAIN catalog \cup pruned

Seen(item, ever) == Official(item) \/ RepoIdentities(item) \cap ever # {}

\* An item filed under a candidate's identity is what the candidate is.
Genuine(item) ==
  \A c \in Offered : item.key = CanonicalIdentity(c) =>
    item.type = c.item /\ RepoIdentities(item) = {c.url.repo} \ {""}

Discovered(item) ==
  /\ Genuine(item) /\ item.type = "tool" /\ item.score >= Threshold
  /\ \E c \in Offered : item.key = CanonicalIdentity(c)

\* Sources are asked in two rounds, and only by a search that goes on to discovery.
Staged(r, md) ==
  /\ r.at = "sources" => r.pending \subseteq Officials
  /\ r.at = "github" => r.pending \subseteq {"github"}
  /\ r.at \notin {"sources", "github"} => r.pending = {}
  /\ md = "cached" => r.at \in {"idle", "lookup", "gate", "present", "done", "error"}

Bounded(r, md) ==
  /\ r.pending \subseteq Enabled
  /\ md = "cached" => Len(r.cached) <= LimitOr(r.query, PerSource)
  /\ Len(r.answer) <= (IF md = "cached" THEN LimitOr(r.query, PerSource) ELSE Cap(r))

\* What a search read from the catalog: rows of it, each once.
CachedSound(r, filed, ever) ==
  /\ \A i \in DOMAIN r.cached : LET item == r.cached[i] IN
       /\ item.key \in filed /\ Genuine(item) /\ r.query.want \in {"all", item.type}
       /\ ~r.open /\ item.key \in r.servable => Seen(item, ever)
  /\ \A i, j \in DOMAIN r.cached : r.cached[i].key = r.cached[j].key => i = j

GotSound(r) ==
  \A src \in Source : \A i \in DOMAIN r.got[src] :
    r.got[src][i] \in Offered /\ r.got[src][i].source = src

Covered(r, items) ==
  \A src \in Source : \A c \in ToSet(r.got[src]) \ r.rejected :
    LET item == BestEffortItem(c)
    IN \/ DeduplicationKey(item) \in {DeduplicationKey(i) : i \in items}
       \/ ~Approved(item)

\* What it discovered: nothing before the pipeline has run, then what is written
\* and what is still to be written.
LiveSound(r, filed) ==
  /\ \A item \in ToSet(r.queue) \cup ToSet(r.stored) : Discovered(item)
  /\ \A item \in ToSet(r.stored) : item.key \in filed
  /\ r.at \in {"idle", "lookup", "gate", "sources", "github", "normalize"} =>
       r.queue = <<>> /\ r.stored = <<>> /\ r.live = "none"
  /\ r.at \in {"idle", "lookup"} => r.servable = {}
  /\ r.at \in {"get", "put"} =>
       r.live = "none" /\ Covered(r, ToSet(r.stored) \cup ToSet(r.queue))
  /\ r.at = "put" => r.queue # <<>> /\ (r.exists => r.queue[1].key \in filed)
  /\ r.at = "answer" => r.stored = <<>> \/ r.live = "failed"
  /\ r.at \in {"present", "done"} /\ r.live = "ok" => Covered(r, ToSet(r.stored))

Disjoint(items) ==
  \A i, j \in DOMAIN items : i # j => RepoIdentities(items[i]) \cap RepoIdentities(items[j]) = {}

\* What may be among the rows it is going to show.
Shown(r, item, filed, ever) ==
  item.key \in filed /\ (r.open \/ Seen(item, ever) \/ item.key \in Keys(Live(r)))

AnswerSound(r, filed, ever, md) ==
  r.at \in {"present", "done"} =>
    /\ \A item \in ToSet(r.answer) : Shown(r, item, filed, ever)
    /\ Verified(r) # <<>> => r.answer # <<>>
    /\ Live(r) = <<>> => ToSet(r.answer) \subseteq ToSet(Verified(r))
    /\ md = "mixed" /\ ~r.early => Disjoint(r.answer)

Sound(r, filed, ever, md) ==
  /\ r \in Search /\ Staged(r, md) /\ Bounded(r, md)
  /\ CachedSound(r, filed, ever) /\ GotSound(r) /\ LiveSound(r, filed)
  /\ AnswerSound(r, filed, ever, md)

StoreSound ==
  /\ mode \in {"cached", "mixed"}
  /\ IsFiniteSet(DOMAIN catalog) /\ DOMAIN catalog \subseteq Key /\ pruned \subseteq Key
  /\ \A key \in DOMAIN catalog :
       catalog[key] \in Item /\ catalog[key].key = key /\ Genuine(catalog[key])
  /\ badged \subseteq everBadged /\ everBadged \subseteq Repo

IInv ==
  /\ StoreSound
  /\ search = [s \in Searcher |-> search[s]]
  /\ \A s \in Searcher : Sound(search[s], Filed, everBadged, mode)

-----------------------------------------------------------------------------
(* Induction and recursion over the naturals.                               *)

LEMMA NatSetInduction ==
  ASSUME NEW T, 0 \in T, \A n \in Nat : n \in T => n + 1 \in T
  PROVE  Nat \subseteq T
<1> DEFINE Missing == {1..n : n \in Nat \ T}
<1>1. SUFFICES ASSUME NEW k \in Nat \ T PROVE FALSE
  OBVIOUS
<1>2. Missing # {} /\ Missing \subseteq FiniteSubsetsOf(Nat)
  <2>1. ASSUME NEW n \in Nat PROVE 1..n \in FiniteSubsetsOf(Nat)
    BY FS_Interval DEF FiniteSubsetsOf
  <2>2. QED
    BY <1>1, <2>1
<1>3. PICK X \in Missing : \A Y \in Missing : ~ (<<Y, X>> \in StrictSubsetOrdering(Nat))
  <2> HIDE DEF Missing
  <2>1. QED
    BY <1>2, FS_StrictSubsetOrderingWellFounded, WFMin
<1>4. PICK n \in Nat \ T : X = 1..n
  OBVIOUS
<1>5. n # 0 /\ n - 1 \in Nat
  OBVIOUS
<1>6. n - 1 \notin T
  BY <1>5
<1>7. 1..(n-1) \in Missing
  BY <1>5, <1>6
<1>8. <<1..(n-1), X>> \in StrictSubsetOrdering(Nat)
  <2>1. 1..(n-1) \in SUBSET Nat /\ 1..n \in SUBSET Nat /\ 1..(n-1) \subseteq 1..n
    BY <1>5
  <2>2. n \in 1..n /\ n \notin 1..(n-1)
    BY <1>5
  <2>3. QED
    BY <1>4, <2>1, <2>2 DEF StrictSubsetOrdering
<1>9. QED
  BY <1>3, <1>7, <1>8

\* What goes through a list step by step exists.
IsRecursion(f, N, S, base, step) ==
  /\ f \in [0..N -> S]
  /\ f = [n \in 0..N |-> IF n = 0 THEN base ELSE step[<<n, f[n-1]>>]]

LEMMA Recursion ==
  ASSUME NEW N \in Nat, NEW S, NEW base \in S, NEW step \in [(1..N) \X S -> S]
  PROVE  \E f : IsRecursion(f, N, S, base, step)
<1> DEFINE P(m) == \E f \in [0..m -> S] :
                      f = [n \in 0..m |-> IF n = 0 THEN base ELSE step[<<n, f[n-1]>>]]
           T == {m \in Nat : m <= N => P(m)}
<1>1. 0 \in T
  <2>1. [n \in 0..0 |-> base] = [n \in 0..0 |-> IF n = 0 THEN base ELSE step[<<n, [k \in 0..0 |-> base][n-1]>>]]
    OBVIOUS
  <2>2. [n \in 0..0 |-> base] \in [0..0 -> S]
    OBVIOUS
  <2>3. P(0)
    BY <2>1, <2>2
  <2>4. QED
    BY <2>3
<1>2. ASSUME NEW m \in Nat, m \in T PROVE m + 1 \in T
  <2>1. SUFFICES ASSUME m + 1 <= N PROVE P(m + 1)
    OBVIOUS
  <2>2. PICK f \in [0..m -> S] : f = [n \in 0..m |-> IF n = 0 THEN base ELSE step[<<n, f[n-1]>>]]
    BY <1>2, <2>1
  <2> DEFINE g == [n \in 0..(m+1) |-> IF n = m + 1 THEN step[<<n, f[m]>>] ELSE f[n]]
  <2>3. g \in [0..(m+1) -> S]
    <3>1. step[<<m + 1, f[m]>>] \in S
      BY <2>1, <2>2
    <3>2. ASSUME NEW n \in 0..(m+1) PROVE (IF n = m + 1 THEN step[<<n, f[m]>>] ELSE f[n]) \in S
      <4>1. CASE n = m + 1
        BY <4>1, <3>1
      <4>2. CASE n # m + 1
        <5>1. n \in 0..m
          BY <4>2
        <5>2. QED
          BY <4>2, <5>1, <2>2
      <4>3. QED
        BY <4>1, <4>2
    <3>3. QED
      BY <3>2
  <2>4. ASSUME NEW n \in 0..(m+1) PROVE g[n] = IF n = 0 THEN base ELSE step[<<n, g[n-1]>>]
    <3>1. CASE n = m + 1
      <4>1. n - 1 = m /\ m \in 0..(m+1) /\ m # m + 1 /\ n # 0
        BY <3>1
      <4>2. QED
        BY <3>1, <4>1
    <3>2. CASE n # m + 1
      <4>1. n \in 0..m
        BY <3>2
      <4>2. g[n] = f[n]
        BY <3>2
      <4>3. f[n] = IF n = 0 THEN base ELSE step[<<n, f[n-1]>>]
        BY <2>2, <4>1
      <4>4. n # 0 => g[n-1] = f[n-1]
        BY <4>1
      <4>5. QED
        BY <4>2, <4>3, <4>4
    <3>3. QED
      BY <3>1, <3>2
  <2>5. g = [n \in 0..(m+1) |-> IF n = 0 THEN base ELSE step[<<n, g[n-1]>>]]
    <3> HIDE DEF g
    <3>1. QED
      BY <2>3, <2>4
  <2>6. QED
    BY <2>3, <2>5
<1>3. N \in T
  <2> HIDE DEF T
  <2>1. QED
    BY <1>1, <1>2, NatSetInduction
<1>4. QED
  BY <1>3 DEF IsRecursion

-----------------------------------------------------------------------------
(* Arranged and Keep.                                                       *)

\* The entries of s at the positions I, each once, in the order of their weights.
IsArranged(a, s, I, w) ==
  /\ Cardinality(I) \in Nat
  /\ \E g \in [1..Cardinality(I) -> I] :
       /\ a = [p \in 1..Cardinality(I) |-> s[g[p]]]
       /\ \A i \in I : \E p \in 1..Cardinality(I) : g[p] = i
       /\ \A p, q \in 1..Cardinality(I) : p < q => Precedes(w, g[p], g[q])

\* rank_items sorts, and sorts stably: what Arranged selects comes out once each,
\* by falling weight, equals in the order they came in.
THEOREM Arrangement ==
  ASSUME NEW S, NEW s \in Seq(S), NEW I \in SUBSET DOMAIN s, NEW w \in [I -> Int]
  PROVE  IsArranged(Arranged(s, I, w), s, I, w)
<1> DEFINE n == Cardinality(I)
           Before(i) == {j \in I : Precedes(w, j, i)}
           card == [i \in I |-> Cardinality(Before(i))]
           place == [i \in I |-> card[i] + 1]
<1>1. IsFiniteSet(I) /\ n \in Nat /\ I \subseteq Nat
  <2>1. DOMAIN s = 1..Len(s) /\ Len(s) \in Nat
    OBVIOUS
  <2>2. IsFiniteSet(I)
    <3>1. IsFiniteSet(1..Len(s))
      BY <2>1, FS_Interval
    <3>2. I \in SUBSET (1..Len(s))
      BY <2>1
    <3>3. QED
      BY <3>1, <3>2, FS_Subset
  <2>3. QED
    BY <2>1, <2>2, FS_CardinalityType
<1>2. ASSUME NEW i \in I
      PROVE  IsFiniteSet(Before(i)) /\ card[i] = Cardinality(Before(i)) /\ card[i] \in 0..(n-1)
  <2>1. Before(i) \subseteq I \ {i} /\ i \in Int /\ w[i] \in Int
    BY <1>1 DEF Precedes
  <2>2. IsFiniteSet(I \ {i}) /\ Cardinality(I \ {i}) = n - 1
    BY <1>1, FS_RemoveElement
  <2>3. IsFiniteSet(Before(i)) /\ Cardinality(Before(i)) <= n - 1
    <3> HIDE DEF Before
    <3>1. QED
      BY <2>1, <2>2, FS_Subset
  <2>4. Cardinality(Before(i)) \in Nat
    BY <2>3, FS_CardinalityType
  <2>5. card[i] = Cardinality(Before(i))
    OBVIOUS
  <2> HIDE DEF Before, card
  <2>6. QED
    BY <2>3, <2>4, <2>5, <1>1
<1>3. ASSUME NEW i \in I, NEW j \in I, Precedes(w, j, i)
      PROVE  place[j] < place[i]
  <2>1. \A k \in Before(j) : Precedes(w, k, i)
    BY <1>3, <1>1 DEF Precedes
  <2>2. j \notin Before(j) /\ Before(j) \cup {j} \subseteq Before(i)
    BY <1>3, <2>1, <1>1 DEF Precedes
  <2>3. IsFiniteSet(Before(j) \cup {j}) /\ Cardinality(Before(j) \cup {j}) = Cardinality(Before(j)) + 1
    <3>1. IsFiniteSet(Before(j))
      BY <1>2
    <3> HIDE DEF Before
    <3>2. QED
      BY <3>1, <2>2, FS_AddElement
  <2>4. Cardinality(Before(j)) + 1 <= Cardinality(Before(i))
    <3>1. IsFiniteSet(Before(i))
      BY <1>2
    <3> HIDE DEF Before
    <3>2. QED
      BY <3>1, <2>2, <2>3, FS_Subset
  <2> HIDE DEF Before, card
  <2>5. card[j] + 1 <= card[i] /\ card[i] \in Int /\ card[j] \in Int
    BY <2>4, <1>2, <1>1
  <2>6. QED
    BY <2>5
<1>4. ASSUME NEW i \in I, NEW j \in I, i # j
      PROVE  Precedes(w, i, j) \/ Precedes(w, j, i)
  BY <1>1, <1>4 DEF Precedes
<1>5. place \in Injection(I, 1..n)
  <2>1. place \in [I -> 1..n]
    <3>1. ASSUME NEW i \in I PROVE card[i] + 1 \in 1..n
      <4> HIDE DEF card
      <4>1. card[i] \in 0..(n-1)
        BY <1>2
      <4> HIDE DEF n
      <4>2. QED
        BY <4>1, <1>1
    <3> HIDE DEF card
    <3>2. QED
      BY <3>1
  <2>2. ASSUME NEW i \in I, NEW j \in I, place[i] = place[j] PROVE i = j
    <3> HIDE DEF place
    <3>1. place[i] \in Int /\ place[j] \in Int
      BY <2>1, <1>1
    <3>2. QED
      BY <1>3, <1>4, <2>2, <3>1
  <2> HIDE DEF place
  <2>3. QED
    BY <2>1, <2>2 DEF Injection, IsInjective
<1>6. \A p \in 1..n : \E i \in I : place[i] = p
  <2>1. IsFiniteSet(1..n) /\ Cardinality(1..n) = n
    BY <1>1, FS_Interval
  <2> HIDE DEF place
  <2>2. place \in Surjection(I, 1..n)
    BY <1>1, <1>5, <2>1, FS_Injection
  <2>3. QED
    BY <2>2 DEF Surjection
<1> DEFINE g == [p \in 1..n |-> CHOOSE i \in I : Cardinality(Before(i)) = p - 1]
<1>7. ASSUME NEW p \in 1..n
      PROVE  g[p] \in I /\ place[g[p]] = p
  <2>1. PICK i \in I : place[i] = p
    BY <1>6
  <2>2. Cardinality(Before(i)) = p - 1
    <3> HIDE DEF card, Before
    <3>1. place[i] = card[i] + 1 /\ card[i] \in Int
      BY <1>2, <1>1
    <3>2. QED
      BY <2>1, <3>1, <1>2
  <2>3. g[p] \in I /\ Cardinality(Before(g[p])) = p - 1
    <3>1. g[p] = CHOOSE k \in I : Cardinality(Before(k)) = p - 1
      OBVIOUS
    <3> HIDE DEF g, Before
    <3>2. QED
      BY <2>2, <3>1
  <2> HIDE DEF card, Before, g
  <2>4. card[g[p]] = p - 1 /\ place[g[p]] = card[g[p]] + 1
    BY <2>3, <1>2
  <2>5. QED
    BY <2>3, <2>4, <1>1
<1>8. Arranged(s, I, w) = [p \in 1..n |-> s[g[p]]]
  BY DEF Arranged
<1>9. ASSUME NEW i \in I PROVE \E p \in 1..n : g[p] = i
  <2>1. place[i] \in 1..n
    <3> HIDE DEF place
    <3>1. QED
      BY <1>5 DEF Injection
  <2>2. place[g[place[i]]] = place[i] /\ g[place[i]] \in I
    BY <2>1, <1>7
  <2>3. g[place[i]] = i
    <3> HIDE DEF place, g
    <3>1. QED
      BY <1>5, <2>2 DEF Injection, IsInjective
  <2>4. QED
    BY <2>1, <2>3
<1>10. ASSUME NEW p \in 1..n, NEW q \in 1..n, p < q PROVE Precedes(w, g[p], g[q])
  <2>1. g[p] \in I /\ g[q] \in I /\ place[g[p]] = p /\ place[g[q]] = q
    BY <1>7
  <2> HIDE DEF place, g
  <2>2. g[p] # g[q]
    BY <2>1, <1>10
  <2>3. ~ Precedes(w, g[q], g[p])
    <3>1. SUFFICES ASSUME Precedes(w, g[q], g[p]) PROVE FALSE
      OBVIOUS
    <3>2. place[g[q]] < place[g[p]]
      BY <2>1, <3>1, <1>3
    <3>3. QED
      BY <2>1, <3>2, <1>10, <1>1
  <2>4. QED
    BY <2>1, <2>2, <2>3, <1>4
<1>11. g \in [1..n -> I]
  BY <1>7
<1>12. QED
  <2> HIDE DEF place, g, Before, card
  <2>1. QED
    BY <1>1, <1>8, <1>9, <1>10, <1>11 DEF IsArranged, n

\* A list made from another by leaving out and moving entries.
Thinned(a, b) ==
  /\ ToSet(a) \subseteq ToSet(b)
  /\ \A p, q \in DOMAIN a : p # q => \E i, j \in DOMAIN b : i # j /\ a[p] = b[i] /\ a[q] = b[j]

LEMMA ThinnedTwice ==
  ASSUME NEW a, NEW b, NEW c, Thinned(a, b), Thinned(b, c)
  PROVE  Thinned(a, c)
  BY DEF Thinned

LEMMA ArrangedFacts ==
  ASSUME NEW S, NEW s \in Seq(S), NEW I \in SUBSET DOMAIN s, NEW w \in [I -> Int]
  PROVE  /\ Arranged(s, I, w) \in Seq(S)
         /\ Thinned(Arranged(s, I, w), s)
         /\ ToSet(Arranged(s, I, w)) = {s[i] : i \in I}
         /\ I # {} => Arranged(s, I, w) # <<>>
         /\ Len(Arranged(s, I, w)) = Cardinality(I)
<1> DEFINE n == Cardinality(I)
           a == Arranged(s, I, w)
<1>1. n \in Nat /\ \E g \in [1..n -> I] :
              /\ a = [p \in 1..n |-> s[g[p]]]
              /\ \A i \in I : \E p \in 1..n : g[p] = i
              /\ \A p, q \in 1..n : p < q => Precedes(w, g[p], g[q])
  <2> HIDE DEF a, n
  <2>1. IsArranged(Arranged(s, I, w), s, I, w)
    BY Arrangement
  <2>2. IsArranged(a, s, I, w)
    BY <2>1 DEF a
  <2>3. QED
    BY <2>2 DEF IsArranged, n
<1>2. PICK g \in [1..n -> I] :
              /\ a = [p \in 1..n |-> s[g[p]]]
              /\ \A i \in I : \E p \in 1..n : g[p] = i
              /\ \A p, q \in 1..n : p < q => Precedes(w, g[p], g[q])
  BY <1>1
<1> HIDE DEF n, a
<1>3. \A i \in I : s[i] \in S /\ i \in DOMAIN s /\ i \in Int
  <2>1. DOMAIN s \subseteq Int /\ \A i \in DOMAIN s : s[i] \in S
    OBVIOUS
  <2>2. QED
    BY <2>1
<1>4. a \in [1..n -> S]
  BY <1>2, <1>3
<1>5. a \in Seq(S) /\ Len(a) = n /\ DOMAIN a = 1..n
  BY <1>1, <1>4
<1>6. ToSet(a) = {s[i] : i \in I}
  BY <1>2, <1>5 DEF ToSet
<1>7. \A p, q \in 1..n : p # q => g[p] # g[q]
  <2>1. \A i \in I : ~ Precedes(w, i, i)
    BY <1>3 DEF Precedes
  <2>2. \A p, q \in 1..n : p # q => p < q \/ q < p
    BY <1>1
  <2>3. QED
    BY <1>2, <2>1, <2>2
<1>8. Thinned(a, s)
  <2>1. ToSet(a) \subseteq ToSet(s)
    BY <1>6, <1>3 DEF ToSet
  <2>2. ASSUME NEW p \in DOMAIN a, NEW q \in DOMAIN a, p # q
        PROVE  \E i, j \in DOMAIN s : i # j /\ a[p] = s[i] /\ a[q] = s[j]
    <3>1. g[p] \in DOMAIN s /\ g[q] \in DOMAIN s /\ g[p] # g[q] /\ a[p] = s[g[p]] /\ a[q] = s[g[q]]
      BY <1>2, <1>3, <1>5, <1>7, <2>2
    <3>2. QED
      BY <3>1
  <2>3. QED
    BY <2>1, <2>2 DEF Thinned
<1>9. I # {} => a # <<>>
  <2>1. SUFFICES ASSUME NEW i \in I PROVE a # <<>>
    OBVIOUS
  <2>2. PICK p \in 1..n : g[p] = i
    BY <1>2
  <2>3. p \in DOMAIN a
    BY <1>5
  <2>4. DOMAIN <<>> = {}
    OBVIOUS
  <2>5. QED
    BY <2>3, <2>4
<1>10. QED
  BY <1>5, <1>6, <1>8, <1>9 DEF n, a

LEMMA KeepFacts ==
  ASSUME NEW S, NEW s \in Seq(S), NEW I \in SUBSET DOMAIN s
  PROVE  /\ Keep(s, I) \in Seq(S)
         /\ Thinned(Keep(s, I), s)
         /\ ToSet(Keep(s, I)) = {s[i] : i \in I}
         /\ I # {} => Keep(s, I) # <<>>
         /\ \A p, q \in DOMAIN Keep(s, I) : p < q =>
              \E i, j \in I : i < j /\ Keep(s, I)[p] = s[i] /\ Keep(s, I)[q] = s[j]
<1> DEFINE w == [i \in I |-> 0]
           n == Cardinality(I)
           a == Keep(s, I)
<1>1. w \in [I -> Int] /\ a = Arranged(s, I, w)
  BY DEF Keep
<1>2. PICK g \in [1..n -> I] :
              /\ a = [p \in 1..n |-> s[g[p]]]
              /\ \A p, q \in 1..n : p < q => Precedes(w, g[p], g[q])
  <2> HIDE DEF w, a
  <2>1. IsArranged(a, s, I, w)
    BY <1>1, Arrangement
  <2>2. QED
    BY <2>1 DEF IsArranged
<1>3. \A i, j \in I : Precedes(w, i, j) => i < j
  BY DEF Precedes
<1>4. ASSUME NEW p \in DOMAIN a, NEW q \in DOMAIN a, p < q
      PROVE  \E i, j \in I : i < j /\ a[p] = s[i] /\ a[q] = s[j]
  <2> HIDE DEF w, a
  <2>1. p \in 1..n /\ q \in 1..n
    BY <1>2
  <2>2. g[p] < g[q] /\ g[p] \in I /\ g[q] \in I
    BY <1>2, <1>3, <1>4, <2>1
  <2>3. QED
    BY <1>2, <2>1, <2>2
<1>5. /\ a \in Seq(S) /\ Thinned(a, s) /\ ToSet(a) = {s[i] : i \in I}
      /\ I # {} => a # <<>>
  <2> HIDE DEF w, a
  <2>1. QED
    BY <1>1, ArrangedFacts
<1> HIDE DEF w
<1>6. QED
  BY <1>4, <1>5

LEMMA TruncateFacts ==
  ASSUME NEW S, NEW s \in Seq(S), NEW n \in Nat
  PROVE  /\ Truncate(s, n) \in Seq(S)
         /\ Len(Truncate(s, n)) <= n
         /\ \A i \in DOMAIN Truncate(s, n) : i \in DOMAIN s /\ Truncate(s, n)[i] = s[i]
         /\ Thinned(Truncate(s, n), s)
         /\ n # 0 /\ s # <<>> => Truncate(s, n) # <<>>
<1> DEFINE m == AtMost(Len(s), n)
           a == Truncate(s, n)
<1>1. m \in Nat /\ m <= Len(s) /\ m <= n /\ (n # 0 /\ s # <<>> => m # 0)
  BY DEF AtMost
<1>2. a = SubSeq(s, 1, m)
  BY DEF Truncate
<1> HIDE DEF m, a
<1>3. a \in Seq(S) /\ Len(a) = m /\ DOMAIN a = 1..m /\ \A i \in 1..m : a[i] = s[i]
  BY <1>1, <1>2
<1>4. \A i \in DOMAIN a : i \in DOMAIN s /\ a[i] = s[i]
  BY <1>1, <1>3
<1>5. Thinned(a, s)
  BY <1>4 DEF Thinned, ToSet
<1>6. QED
  BY <1>1, <1>3, <1>4, <1>5 DEF a

-----------------------------------------------------------------------------
(* Ranking.                                                                 *)

LEMMA ScoresTyped ==
  ASSUME NEW item \in Item
  PROVE  FinalScore(item) \in Int /\ Lexical(item) \in {1000, 900, 250, 0}
         /\ \A badged_ : Tier(item, badged_) \in Int
<1>1. Lexical(item) \in {1000, 900, 250, 0}
  BY DEF Item, Fit, Lexical
<1>2. Cardinality(item.providers) \in Nat
  <2>1. IsFiniteSet(Provider)
    <3>1. IsFiniteSet({}) /\ IsFiniteSet({} \cup {"mcp_registry"})
      BY FS_EmptySet, FS_AddElement
    <3>2. IsFiniteSet(({} \cup {"mcp_registry"}) \cup {"service"})
      BY <3>1, FS_AddElement
    <3>3. IsFiniteSet((({} \cup {"mcp_registry"}) \cup {"service"}) \cup {"github"})
      BY <3>2, FS_AddElement
    <3>4. IsFiniteSet(((({} \cup {"mcp_registry"}) \cup {"service"}) \cup {"github"}) \cup {"official_connectors"})
      BY <3>3, FS_AddElement
    <3>5. Provider = ((({} \cup {"mcp_registry"}) \cup {"service"}) \cup {"github"}) \cup {"official_connectors"}
      BY DEF Provider, Source
    <3>6. QED
      BY <3>4, <3>5
  <2>2. item.providers \in SUBSET Provider
    BY DEF Item
  <2>3. QED
    BY <2>1, <2>2, FS_Subset, FS_CardinalityType
<1>3. EvidenceScore(item) \in Int
  <2>1. item.evidence \in Nat
    BY DEF Item
  <2>2. AtMost(item.evidence + Cardinality(item.providers), 6) \in Nat
    BY <1>2, <2>1 DEF AtMost
  <2>3. QED
    BY <2>2 DEF EvidenceScore
<1>4. Quality(item) \in Int
  <2>1. item.score \in Nat
    <3> DEFINE n == item.score
    <3>1. n \in ScoreRange
      BY DEF Item
    <3> HIDE DEF n
    <3>2. n \in Nat
      BY <3>1 DEF ScoreRange
    <3>3. QED
      BY <3>2 DEF n
  <2>2. (45 * Lexical(item)) \div 100 \in Int /\ (35 * item.score) \div 600 \in Int
    BY <1>1, <2>1
  <2>3. QED
    BY <1>3, <2>2 DEF Quality
<1>5. Bonus(item) \in Int
  BY DEF Bonus
<1>6. FinalScore(item) \in Int
  BY <1>1, <1>4, <1>5 DEF FinalScore
<1>7. \A badged_ : Tier(item, badged_) \in Int
  BY DEF Tier
<1>8. QED
  BY <1>1, <1>6, <1>7

LEMMA FullMatch ==
  ASSUME NEW item \in Item, Lexical(item) >= 900
  PROVE  ~(Lexical(item) \in 1..899)
<1> DEFINE l == Lexical(item)
<1>1. l \in {1000, 900, 250, 0}
  BY ScoresTyped
<1>2. l >= 900
  OBVIOUS
<1> HIDE DEF l
<1>3. ~(l \in 1..899)
  BY <1>1, <1>2
<1>4. QED
  BY <1>3 DEF l

LEMMA RankFacts ==
  ASSUME NEW items \in Seq(Item)
  PROVE  /\ RankItems(items) \in Seq(Item)
         /\ Thinned(RankItems(items), items)
         /\ items # <<>> => RankItems(items) # <<>>
<1> DEFINE strong == \E i \in DOMAIN items : Lexical(items[i]) >= 900
           kept == {i \in DOMAIN items : ~(strong /\ Lexical(items[i]) \in 1..899)}
           w == [i \in kept |-> FinalScore(items[i])]
<1>1. kept \in SUBSET DOMAIN items
  OBVIOUS
<1>2. \A i \in DOMAIN items : items[i] \in Item
  OBVIOUS
<1>3. w \in [kept -> Int]
  BY <1>1, <1>2, ScoresTyped
<1>4. RankItems(items) = Arranged(items, kept, w)
  BY DEF RankItems
<1>5. items # <<>> => kept # {}
  <2>1. SUFFICES ASSUME items # <<>> PROVE \E i \in DOMAIN items : ~(strong /\ Lexical(items[i]) \in 1..899)
    OBVIOUS
  <2>2. CASE strong
    <3>1. PICK i \in DOMAIN items : Lexical(items[i]) >= 900
      BY <2>2
    <3>2. items[i] \in Item
      BY <1>2, <3>1
    <3>3. ~(Lexical(items[i]) \in 1..899)
      BY <3>1, <3>2, FullMatch
    <3>4. QED
      BY <3>1, <3>3
  <2>3. CASE ~ strong
    <3>1. 1 \in DOMAIN items
      BY <2>1
    <3>2. QED
      BY <2>3, <3>1
  <2>4. QED
    BY <2>2, <2>3
<1> HIDE DEF kept, w
<1>6. QED
  BY <1>1, <1>3, <1>4, <1>5, ArrangedFacts

LEMMA OfTypeFacts ==
  ASSUME NEW items \in Seq(Item), NEW want
  PROVE  /\ OfType(items, want) \in Seq(Item)
         /\ Thinned(OfType(items, want), items)
         /\ (\E i \in DOMAIN items : want \in {"all", items[i].type}) => OfType(items, want) # <<>>
         /\ \A item \in ToSet(OfType(items, want)) : want \in {"all", item.type}
<1> DEFINE I == {i \in DOMAIN items : want \in {"all", items[i].type}}
<1>1. I \in SUBSET DOMAIN items /\ OfType(items, want) = Keep(items, I)
  BY DEF OfType
<1>2. \A x \in {items[i] : i \in I} : want \in {"all", x.type}
  OBVIOUS
<1>3. (\E i \in DOMAIN items : want \in {"all", items[i].type}) => I # {}
  OBVIOUS
<1> HIDE DEF I
<1>4. QED
  BY <1>1, <1>2, <1>3, KeepFacts

LEMMA RankCatalogFacts ==
  ASSUME NEW items \in Seq(Item), NEW want, NEW limit \in Nat
  PROVE  LET a == RankCatalogItems(items, want, limit)
         IN  /\ a \in Seq(Item) /\ Len(a) <= limit
             /\ Thinned(a, items)
             /\ \A item \in ToSet(a) : want \in {"all", item.type}
             /\ limit # 0 /\ (\E i \in DOMAIN items : want \in {"all", items[i].type}) => a # <<>>
<1> DEFINE b == OfType(items, want)
           c == RankItems(b)
           a == Truncate(c, limit)
<1>1. RankCatalogItems(items, want, limit) = a
  BY DEF RankCatalogItems
<1>2. /\ b \in Seq(Item) /\ Thinned(b, items)
      /\ (\E i \in DOMAIN items : want \in {"all", items[i].type}) => b # <<>>
      /\ \A item \in ToSet(b) : want \in {"all", item.type}
  BY OfTypeFacts
<1> HIDE DEF b
<1>3. c \in Seq(Item) /\ Thinned(c, b) /\ (b # <<>> => c # <<>>)
  BY <1>2, RankFacts
<1> HIDE DEF c
<1>4. a \in Seq(Item) /\ Len(a) <= limit /\ Thinned(a, c) /\ (limit # 0 /\ c # <<>> => a # <<>>)
  BY <1>3, TruncateFacts
<1> HIDE DEF a
<1>5. Thinned(c, items)
  BY <1>2, <1>3, ThinnedTwice
<1>6. Thinned(a, items) /\ Thinned(a, b)
  BY <1>3, <1>4, <1>5, ThinnedTwice
<1>7. \A item \in ToSet(a) : want \in {"all", item.type}
  BY <1>2, <1>6 DEF Thinned
<1>8. QED
  BY <1>1, <1>2, <1>3, <1>4, <1>6, <1>7

LEMMA OrderFacts ==
  ASSUME NEW items \in Seq(Item), NEW of
  PROVE  /\ OrderByTier(items, of) \in Seq(Item)
         /\ Thinned(OrderByTier(items, of), items)
         /\ Len(OrderByTier(items, of)) = Len(items)
         /\ items # <<>> => OrderByTier(items, of) # <<>>
<1> DEFINE w == [i \in DOMAIN items |-> Tier(items[i], of)]
<1>1. \A i \in DOMAIN items : items[i] \in Item
  OBVIOUS
<1>2. w \in [DOMAIN items -> Int]
  BY <1>1, ScoresTyped
<1>3. OrderByTier(items, of) = Arranged(items, DOMAIN items, w)
  BY DEF OrderByTier
<1>4. items # <<>> => DOMAIN items # {}
  <2>1. items # <<>> => 1 \in DOMAIN items
    OBVIOUS
  <2>2. QED
    BY <2>1
<1>5. Cardinality(DOMAIN items) = Len(items)
  <2>1. DOMAIN items = 1..Len(items) /\ Len(items) \in Nat
    OBVIOUS
  <2>2. QED
    BY <2>1, FS_Interval
<1> HIDE DEF w
<1>6. QED
  BY <1>2, <1>3, <1>4, <1>5, ArrangedFacts
-----------------------------------------------------------------------------
(* Items made of candidates.                                                *)

LEMMA OfferedFacts ==
  ASSUME NEW c \in Offered
  PROVE  /\ c \in Candidate
         /\ c.repository \in {NoUrl, c.url}
         /\ \A d \in Offered : c.url.page = d.url.page => c.url.repo = d.url.repo
<1>1. PICK src \in Source : \E i \in DOMAIN Offers[src] : c = Offers[src][i]
  BY DEF Offered
<1>2. c \in Candidate
  BY <1>1, OffersAssumption
<1>3. QED
  BY <1>2, OffersAssumption

\* What an item of a candidate is, whatever it absorbs.
Like(item, c) ==
  /\ item.key = CanonicalIdentity(c) /\ item.type = c.item /\ item.name = c.title
  /\ item.page = c.url.page /\ item.source = c.source
  /\ RepoIdentities(item) = {c.url.repo} \ {""}

LEMMA BestEffortItemFacts ==
  ASSUME NEW c \in Offered
  PROVE  /\ BestEffortItem(c) \in Item
         /\ Like(BestEffortItem(c), c)
         /\ BestEffortItem(c).providers = {c.source} /\ BestEffortItem(c).proofs = c.proofs
<1>1. c \in Candidate /\ c.repository \in {NoUrl, c.url}
  BY OfferedFacts
<1> DEFINE item == BestEffortItem(c)
<1>2. SourceUrl(c) = c.url
  BY <1>1 DEF SourceUrl
<1>3. /\ c.source \in Source /\ c.id \in STRING /\ c.url \in Url /\ c.title \in STRING
      /\ c.item \in {"tool", "agent"} /\ c.match \in Fit /\ c.package \in Package /\ c.proofs \in Nat
  BY <1>1 DEF Candidate
<1>4. CanonicalIdentity(c) \in Key
  <2>1. Protocol(c) \in {"mcp", "a2a", "official"} /\ c.url.page \in STRING
    BY <1>3 DEF Protocol, Url
  <2>2. QED
    BY <1>3, <2>1 DEF CanonicalIdentity, Key
<1>5. Record(c) \in [package : Package, remotes : BOOLEAN]
  BY <1>3 DEF Record, RegistryRecord, BareRecord, Package
<1>6. item.urls = {c.url} \ {NoUrl}
  BY <1>2 DEF BestEffortItem
<1>7. item \in Item
  <2>1. {c.url} \ {NoUrl} \in SUBSET Url /\ c.url.page \in STRING
    BY <1>3 DEF Url
  <2>2. c.source \in Provider /\ {c.source} \in SUBSET Provider
    BY <1>3 DEF Provider
  <2>3. (IF c.proofs = 0 THEN 1 ELSE c.proofs) + 1 \in Nat
    BY <1>3
  <2>4. 0 \in ScoreRange
    BY DEF ScoreRange
  <2>5. QED
    BY <1>2, <1>3, <1>4, <1>5, <2>1, <2>2, <2>3, <2>4 DEF BestEffortItem, Item
<1>8. RepoIdentities(item) = {c.url.repo} \ {""}
  <2>1. CASE c.url = NoUrl
    <3>1. item.urls = {}
      BY <1>6, <2>1
    <3>2. c.url.repo = ""
      <4>1. NoUrl.repo = ""
        BY DEF NoUrl
      <4>2. QED
        BY <2>1, <4>1
    <3> HIDE DEF item
    <3>3. QED
      BY <3>1, <3>2 DEF RepoIdentities
  <2>2. CASE c.url # NoUrl
    <3>1. item.urls = {c.url}
      BY <1>6, <2>2
    <3> HIDE DEF item
    <3>2. QED
      BY <3>1 DEF RepoIdentities
  <2>3. QED
    BY <2>1, <2>2
<1>9. /\ item.key = CanonicalIdentity(c) /\ item.type = c.item /\ item.name = c.title
      /\ item.page = c.url.page /\ item.source = c.source
      /\ item.providers = {c.source} /\ item.proofs = c.proofs
  BY <1>2 DEF BestEffortItem
<1>10. QED
  BY <1>7, <1>8, <1>9 DEF Like

LEMMA LikeGenuine ==
  ASSUME NEW c \in Offered, NEW item, Like(item, c)
  PROVE  Genuine(item)
<1> SUFFICES ASSUME NEW d \in Offered, item.key = CanonicalIdentity(d)
             PROVE  item.type = d.item /\ RepoIdentities(item) = {d.url.repo} \ {""}
  BY DEF Genuine
<1>1. c \in Candidate /\ d \in Candidate /\ (c.url.page = d.url.page => c.url.repo = d.url.repo)
  BY OfferedFacts
<1>2. <<Protocol(c), c.id, c.url.page>> = <<Protocol(d), d.id, d.url.page>>
  BY DEF Like, CanonicalIdentity
<1>3. Protocol(c) = Protocol(d) /\ c.url.page = d.url.page
  BY <1>2
<1>4. c.item \in {"tool", "agent"} /\ d.item \in {"tool", "agent"}
  BY <1>1 DEF Candidate
<1>5. c.item = d.item
  BY <1>3, <1>4 DEF Protocol
<1>6. QED
  BY <1>1, <1>3, <1>5 DEF Like

-----------------------------------------------------------------------------
(* Deduplication: a group is like one of its candidates, and scores no      *)
(* lower than any of them.                                                  *)

AtLeast(item, c) ==
  /\ DeduplicationKey(item) = DeduplicationKey(BestEffortItem(c))
  /\ item.proofs >= c.proofs /\ c.source \in item.providers
  /\ SourceQuality(item.source) >= SourceQuality(c.source)

IsGrouping(groups, good, n) ==
  /\ groups \in Seq(Item)
  /\ \A j \in DOMAIN groups : \E k \in 1..n : Like(groups[j], good[k])
  /\ \A k \in 1..n : \E j \in DOMAIN groups : AtLeast(groups[j], good[k])

\* Best sources first.
InTurn(good) ==
  /\ good \in Seq(Offered)
  /\ \A j, k \in DOMAIN good :
       j < k => SourceQuality(good[j].source) >= SourceQuality(good[k].source)

LEMMA QualityTyped ==
  ASSUME NEW source \in Provider
  PROVE  SourceQuality(source) \in {65, 85, 100}
BY DEF SourceQuality, Provider, Source

LEMMA SamePage ==
  ASSUME NEW c \in Offered, NEW d \in Offered, NEW g, NEW h, Like(g, c), Like(h, d),
         DeduplicationKey(g) = DeduplicationKey(h)
  PROVE  g.page = h.page /\ RepoIdentities(g) = RepoIdentities(h)
<1>1. g.page = h.page
  <2>1. CASE g.page # "" /\ h.page # ""
    <3>1. <<"repository", g.page, g.type, g.name>> = <<"repository", h.page, h.type, h.name>>
      BY <2>1 DEF DeduplicationKey
    <3>2. QED
      BY <3>1
  <2>2. CASE g.page = "" /\ h.page = ""
    BY <2>2
  <2>3. CASE g.page # "" /\ h.page = ""
    <3>1. <<"repository", g.page, g.type, g.name>> = <<Protocol(d), d.id, d.url.page>>
      BY <2>3 DEF DeduplicationKey, Like, CanonicalIdentity
    <3>2. Len(<<"repository", g.page, g.type, g.name>>) = 4 /\ Len(<<Protocol(d), d.id, d.url.page>>) = 3
      OBVIOUS
    <3>3. QED
      BY <3>1, <3>2
  <2>4. CASE g.page = "" /\ h.page # ""
    <3>1. <<"repository", h.page, h.type, h.name>> = <<Protocol(c), c.id, c.url.page>>
      BY <2>4 DEF DeduplicationKey, Like, CanonicalIdentity
    <3>2. Len(<<"repository", h.page, h.type, h.name>>) = 4 /\ Len(<<Protocol(c), c.id, c.url.page>>) = 3
      OBVIOUS
    <3>3. QED
      BY <3>1, <3>2
  <2>5. QED
    BY <2>1, <2>2, <2>3, <2>4
<1>2. QED
  BY <1>1, OfferedFacts DEF Like

LEMMA AbsorbFacts ==
  ASSUME NEW good, InTurn(good), NEW n \in DOMAIN good, NEW groups, IsGrouping(groups, good, n - 1)
  PROVE  IsGrouping(Absorb(groups, BestEffortItem(good[n])), good, n)
<1> DEFINE item == BestEffortItem(good[n])
           same == {i \in DOMAIN groups : DeduplicationKey(groups[i]) = DeduplicationKey(item)}
           i == CHOOSE i \in same : TRUE
           g == groups[i]
           h == Joined(g, item)
<1>1. /\ good[n] \in Offered /\ n \in Nat \ {0} /\ \A k \in 1..n : good[k] \in Offered
      /\ \A k \in 1..n : k # n => k \in 1..(n-1)
      /\ \A k \in 1..n : SourceQuality(good[k].source) >= SourceQuality(good[n].source)
  <2>1. good[n] \in Offered /\ n \in Nat \ {0} /\ \A k \in 1..n : k \in DOMAIN good /\ good[k] \in Offered
    BY DEF InTurn
  <2>2. SourceQuality(good[n].source) \in Int
    <3>1. good[n].source \in Provider
      BY <2>1, OfferedFacts DEF Candidate, Provider
    <3>2. QED
      BY <3>1, QualityTyped
  <2>3. ASSUME NEW k \in 1..n PROVE SourceQuality(good[k].source) >= SourceQuality(good[n].source)
    <3>1. CASE k = n
      BY <3>1, <2>2
    <3>2. CASE k # n
      <4>1. k < n /\ k \in DOMAIN good
        BY <2>1, <3>2
      <4>2. QED
        BY <4>1 DEF InTurn
    <3>3. QED
      BY <3>1, <3>2
  <2>4. \A k \in 1..n : k # n => k \in 1..(n-1)
    BY <2>1
  <2>5. QED
    BY <2>1, <2>3, <2>4
<1>2. /\ item \in Item /\ Like(item, good[n])
      /\ item.providers = {good[n].source} /\ item.proofs = good[n].proofs
  BY <1>1, BestEffortItemFacts
<1>3. groups \in Seq(Item)
  BY DEF IsGrouping
<1> HIDE DEF item
<1>4. good[n].proofs \in Nat
  BY <1>1, OfferedFacts DEF Candidate
<1>5. CASE same = {}
  <2> DEFINE more == Append(groups, item)
  <2>1. Absorb(groups, item) = more
    BY <1>5 DEF Absorb
  <2>2. /\ more \in Seq(Item) /\ DOMAIN more = DOMAIN groups \cup {Len(groups) + 1}
        /\ more[Len(groups) + 1] = item /\ \A j \in DOMAIN groups : more[j] = groups[j]
    BY <1>2, <1>3
  <2> HIDE DEF more
  <2>3. ASSUME NEW j \in DOMAIN more PROVE \E k \in 1..n : Like(more[j], good[k])
    <3>1. CASE j \in DOMAIN groups
      <4>1. PICK k \in 1..(n-1) : Like(groups[j], good[k])
        BY <3>1 DEF IsGrouping
      <4>2. k \in 1..n
        BY <1>1
      <4>3. QED
        BY <4>1, <4>2, <3>1, <2>2
    <3>2. CASE j = Len(groups) + 1
      <4>1. n \in 1..n
        BY <1>1
      <4>2. QED
        BY <4>1, <3>2, <2>2, <1>2
    <3>3. QED
      BY <3>1, <3>2, <2>2
  <2>4. ASSUME NEW k \in 1..n PROVE \E j \in DOMAIN more : AtLeast(more[j], good[k])
    <3>1. CASE k = n
      <4>1. AtLeast(item, good[n])
        <5>1. SourceQuality(item.source) = SourceQuality(good[n].source)
          BY <1>2 DEF Like
        <5>2. n \in 1..n
          BY <1>1
        <5>3. SourceQuality(item.source) >= SourceQuality(good[n].source)
          BY <5>1, <5>2, <1>1
        <5>4. item.proofs >= good[n].proofs
          BY <1>2, <1>4
        <5>5. QED
          BY <5>3, <5>4, <1>2 DEF AtLeast, item
      <4>2. QED
        BY <3>1, <4>1, <2>2
    <3>2. CASE k # n
      <4>1. PICK j \in DOMAIN groups : AtLeast(groups[j], good[k])
        BY <3>2, <1>1 DEF IsGrouping
      <4>2. QED
        BY <4>1, <2>2
    <3>3. QED
      BY <3>1, <3>2
  <2>5. QED
    BY <2>1, <2>2, <2>3, <2>4 DEF IsGrouping, item
<1>6. CASE same # {}
  <2> DEFINE more == [groups EXCEPT ![i] = h]
  <2>1. Absorb(groups, item) = more
    BY <1>6 DEF Absorb
  <2>2. i \in DOMAIN groups /\ DeduplicationKey(g) = DeduplicationKey(item) /\ g \in Item
    <3>1. i \in same
      BY <1>6
    <3>2. QED
      BY <3>1, <1>3
  <2> HIDE DEF i, g
  <2>3. /\ h.key = g.key /\ h.type = g.type /\ h.name = g.name /\ h.page = g.page /\ h.source = g.source
        /\ h.providers = g.providers \cup {good[n].source} /\ h.proofs = g.proofs + good[n].proofs
        /\ h.urls = g.urls \cup item.urls
    BY <2>2, <1>2 DEF Item, Joined
  <2>4. h \in Item
    <3>1. /\ g.providers \cup item.providers \in SUBSET Provider /\ g.urls \cup item.urls \in SUBSET Url
          /\ g.proofs + item.proofs \in Nat /\ g.evidence + item.evidence \in Nat
      BY <2>2, <1>2 DEF Item
    <3>2. QED
      BY <2>2, <3>1 DEF Item, Joined
  <2> HIDE DEF h
  <2>5. PICK k \in 1..(n-1) : Like(g, good[k])
    BY <2>2 DEF IsGrouping, g
  <2>6. k \in 1..n /\ good[k] \in Offered
    BY <1>1
  <2>7. RepoIdentities(g) = RepoIdentities(item)
    BY <2>2, <2>5, <2>6, <1>1, <1>2, SamePage
  <2>8. RepoIdentities(h) = RepoIdentities(g)
    BY <2>3, <2>7 DEF RepoIdentities
  <2>9. Like(h, good[k])
    BY <2>3, <2>5, <2>8 DEF Like
  <2>10. DeduplicationKey(h) = DeduplicationKey(g)
    BY <2>3 DEF DeduplicationKey
  <2>11. g.proofs \in Nat /\ h.proofs >= g.proofs /\ h.proofs >= good[n].proofs
    BY <1>4, <2>2, <2>3 DEF Item
  <2>12. AtLeast(h, good[n])
    <3>1. h.source = good[k].source
      BY <2>9 DEF Like
    <3>2. SourceQuality(h.source) >= SourceQuality(good[n].source)
      BY <3>1, <2>6, <1>1
    <3>3. QED
      BY <3>2, <2>2, <2>3, <2>10, <2>11 DEF AtLeast, item
  <2>13. ASSUME NEW m \in 1..n, AtLeast(g, good[m]) PROVE AtLeast(h, good[m])
    <3>1. good[m].proofs \in Nat
      BY <1>1, OfferedFacts DEF Candidate
    <3>2. g.proofs >= good[m].proofs /\ h.proofs >= g.proofs /\ h.proofs \in Nat
      BY <2>13, <2>11, <2>4 DEF AtLeast, Item
    <3>3. QED
      BY <2>3, <2>10, <2>11, <2>13, <3>1, <3>2 DEF AtLeast
  <2>14. /\ more \in Seq(Item) /\ DOMAIN more = DOMAIN groups /\ more[i] = h
         /\ \A j \in DOMAIN groups : j # i => more[j] = groups[j]
    BY <1>3, <2>2, <2>4
  <2> HIDE DEF more
  <2>15. ASSUME NEW j \in DOMAIN more PROVE \E m \in 1..n : Like(more[j], good[m])
    <3>1. CASE j = i
      BY <3>1, <2>6, <2>9, <2>14
    <3>2. CASE j # i
      <4>1. PICK m \in 1..(n-1) : Like(groups[j], good[m])
        BY <2>14 DEF IsGrouping
      <4>2. m \in 1..n
        BY <1>1
      <4>3. QED
        BY <4>1, <4>2, <3>2, <2>14
    <3>3. QED
      BY <3>1, <3>2
  <2>16. ASSUME NEW m \in 1..n PROVE \E j \in DOMAIN more : AtLeast(more[j], good[m])
    <3>1. CASE m = n
      BY <3>1, <2>2, <2>12, <2>14
    <3>2. CASE m # n
      <4>1. PICK j \in DOMAIN groups : AtLeast(groups[j], good[m])
        BY <3>2, <1>1 DEF IsGrouping
      <4>2. CASE j = i
        BY <4>1, <4>2, <2>2, <2>13, <2>14 DEF g
      <4>3. CASE j # i
        BY <4>1, <4>3, <2>14
      <4>4. QED
        BY <4>2, <4>3
    <3>3. QED
      BY <3>1, <3>2
  <2>17. QED
    BY <2>1, <2>14, <2>15, <2>16 DEF IsGrouping, item
<1>7. QED
  BY <1>5, <1>6

LEMMA AbsorbTyped ==
  ASSUME NEW groups \in Seq(Item), NEW item \in Item
  PROVE  Absorb(groups, item) \in Seq(Item)
<1> DEFINE same == {i \in DOMAIN groups : DeduplicationKey(groups[i]) = DeduplicationKey(item)}
           one == CHOOSE i \in same : TRUE
<1>1. CASE same = {}
  BY <1>1 DEF Absorb
<1>2. CASE same # {}
  <2>1. Absorb(groups, item) = [groups EXCEPT ![one] = Joined(groups[one], item)]
    BY <1>2 DEF Absorb
  <2>2. one \in DOMAIN groups
    BY <1>2
  <2> HIDE DEF one
  <2> DEFINE g == groups[one]
  <2>3. g \in Item
    BY <2>2
  <2> HIDE DEF g
  <2>4. /\ g.providers \cup item.providers \in SUBSET Provider /\ g.urls \cup item.urls \in SUBSET Url
        /\ g.proofs + item.proofs \in Nat /\ g.evidence + item.evidence \in Nat
    BY <2>3 DEF Item
  <2>5. Joined(g, item) \in Item
    BY <2>3, <2>4 DEF Joined, Item
  <2>6. QED
    BY <2>1, <2>2, <2>5 DEF g
<1>3. QED
  BY <1>1, <1>2

\* Phase10Pipeline._deduplicate, given the candidates best source first: every
\* group is like one of the candidates, and every candidate is represented by a
\* group with its key that scores no less.
THEOREM DeduplicateFacts ==
  ASSUME NEW good, InTurn(good)
  PROVE  IsGrouping(Deduplicate([i \in DOMAIN good |-> BestEffortItem(good[i])]), good, Len(good))
<1> DEFINE items == [i \in DOMAIN good |-> BestEffortItem(good[i])]
           N == Len(good)
           S == Seq(Item)
           Is(f) == f = [n \in 0..N |-> IF n = 0 THEN <<>> ELSE Absorb(f[n-1], items[n])]
           groups == CHOOSE f : Is(f)
<1>1. N \in Nat /\ DOMAIN good = 1..N /\ \A n \in 1..N : good[n] \in Offered
  BY DEF InTurn
<1>2. Len(items) = N /\ \A n \in 1..N : items[n] = BestEffortItem(good[n]) /\ items[n] \in Item
  <2>1. \A n \in 1..N : items[n] = BestEffortItem(good[n]) /\ items[n] \in Item
    BY <1>1, BestEffortItemFacts
  <2>2. DOMAIN items = 1..N
    BY <1>1
  <2> HIDE DEF items
  <2>3. items \in Seq(Item)
    <3>1. items = [n \in 1..N |-> items[n]]
      BY <2>2 DEF items
    <3>2. QED
      BY <1>1, <2>1, <3>1
  <2>4. QED
    BY <1>1, <2>1, <2>2, <2>3
<1>3. Deduplicate(items) = groups[N]
  BY <1>2 DEF Deduplicate
<1> HIDE DEF items, N
<1>4. Is(groups)
  <2> DEFINE step == [p \in (1..N) \X S |-> Absorb(p[2], items[p[1]])]
  <2>1. step \in [(1..N) \X S -> S] /\ <<>> \in S
    BY <1>2, AbsorbTyped
  <2>2. \A n \in 1..N : \A x \in S : step[<<n, x>>] = Absorb(x, items[n])
    OBVIOUS
  <2> HIDE DEF S, step
  <2>3. PICK f : IsRecursion(f, N, S, <<>>, step)
    BY <1>1, <2>1, Recursion
  <2>4. \A n \in 0..N : n # 0 => step[<<n, f[n-1]>>] = Absorb(f[n-1], items[n])
    <3>1. \A n \in 0..N : n # 0 => n \in 1..N /\ f[n-1] \in S
      BY <1>1, <2>3 DEF IsRecursion
    <3>2. QED
      BY <2>2, <3>1
  <2>5. Is(f)
    BY <2>3, <2>4 DEF IsRecursion
  <2> HIDE DEF Is
  <2>6. QED
    BY <2>5
<1>5. groups[0] = <<>> /\ \A n \in 1..N : groups[n] = Absorb(groups[n-1], items[n])
  <2> HIDE DEF groups
  <2>1. \A n \in 1..N : n \in 0..N /\ n # 0
    BY <1>1
  <2>2. QED
    BY <1>1, <1>4, <2>1
<1> HIDE DEF groups
<1> DEFINE T == {n \in Nat : n <= N => IsGrouping(groups[n], good, n)}
<1>6. 0 \in T
  <2>1. <<>> \in S /\ DOMAIN <<>> = {} /\ 1..0 = {}
    OBVIOUS
  <2>2. IsGrouping(<<>>, good, 0)
    BY <2>1 DEF IsGrouping
  <2>3. QED
    BY <1>5, <2>2
<1>7. ASSUME NEW n \in Nat, n \in T PROVE n + 1 \in T
  <2>1. SUFFICES ASSUME n + 1 <= N PROVE IsGrouping(groups[n+1], good, n + 1)
    OBVIOUS
  <2>2. n + 1 \in DOMAIN good /\ (n + 1) - 1 = n /\ n + 1 \in 1..N
    BY <1>1, <2>1
  <2>3. IsGrouping(groups[n], good, (n + 1) - 1)
    BY <1>1, <1>7, <2>1, <2>2
  <2>4. IsGrouping(Absorb(groups[n], BestEffortItem(good[n+1])), good, n + 1)
    BY <2>2, <2>3, AbsorbFacts
  <2>5. QED
    BY <1>2, <1>5, <2>2, <2>4
<1>8. Nat \subseteq T
  <2> HIDE DEF T
  <2>1. QED
    BY <1>6, <1>7, NatSetInduction
<1>9. IsGrouping(groups[N], good, N)
  BY <1>1, <1>8
<1>10. QED
  BY <1>3, <1>9 DEF items, N

LEMMA ScoreTyped ==
  ASSUME NEW item \in Item
  PROVE  /\ Score(item) \in ScoreRange /\ Score(item) \in Nat /\ Cardinality(item.providers) \in Nat /\ IsFiniteSet(item.providers)
<1>1. IsFiniteSet(Provider)
  <2>1. IsFiniteSet({}) /\ IsFiniteSet({} \cup {"mcp_registry"})
    BY FS_EmptySet, FS_AddElement
  <2>2. IsFiniteSet(({} \cup {"mcp_registry"}) \cup {"service"})
    BY <2>1, FS_AddElement
  <2>3. IsFiniteSet((({} \cup {"mcp_registry"}) \cup {"service"}) \cup {"github"})
    BY <2>2, FS_AddElement
  <2>4. IsFiniteSet(((({} \cup {"mcp_registry"}) \cup {"service"}) \cup {"github"}) \cup {"official_connectors"})
    BY <2>3, FS_AddElement
  <2>5. Provider = ((({} \cup {"mcp_registry"}) \cup {"service"}) \cup {"github"}) \cup {"official_connectors"}
    BY DEF Provider, Source
  <2>6. QED
    BY <2>4, <2>5
<1>2. item.providers \in SUBSET Provider
  BY DEF Item
<1>3. IsFiniteSet(item.providers) /\ Cardinality(item.providers) \in Nat
  BY <1>1, <1>2, FS_Subset, FS_CardinalityType
<1>4. SourceQuality(item.source) \in 0..100
  <2>1. item.source \in Provider
    BY DEF Item
  <2>2. QED
    BY <2>1, QualityTyped
<1>5. AtMost(Cardinality(item.providers), 3) \in 0..3
  BY <1>3 DEF AtMost
<1> DEFINE live == IF item.proofs > 0 THEN 1800 ELSE 0
           sources == AtMost(Cardinality(item.providers), 3)
           quality == SourceQuality(item.source)
<1>6. Score(item) = live + 900 + 200 * sources + 9 * quality + 600 + 1200
  BY DEF Score
<1>7. live \in {0, 1800} /\ sources \in 0..3 /\ quality \in 0..100
  BY <1>4, <1>5
<1> HIDE DEF live, sources, quality
<1> DEFINE n == Score(item)
<1>8. n = live + 900 + 200 * sources + 9 * quality + 600 + 1200
  BY <1>6
<1> HIDE DEF n
<1>9. n \in Nat /\ n <= 6000
  BY <1>7, <1>8, SMT
<1>10. n \in ScoreRange /\ n \in Nat
  BY <1>9 DEF ScoreRange
<1>11. QED
  BY <1>3, <1>10 DEF n

LEMMA AtLeastApproved ==
  ASSUME NEW c \in Offered, NEW g \in Item, AtLeast(g, c), Approved(BestEffortItem(c))
  PROVE  Approved(g)
<1> DEFINE item == BestEffortItem(c)
<1>1. /\ item \in Item /\ item.source = c.source /\ item.providers = {c.source}
      /\ item.proofs = c.proofs
  BY BestEffortItemFacts DEF Like
<1>2. Score(item) >= 4500
  BY DEF Approved, Threshold
<1> HIDE DEF item
<1>3. /\ IsFiniteSet(g.providers) /\ Cardinality(g.providers) \in Nat /\ Score(g) \in Nat
      /\ Cardinality(item.providers) \in Nat /\ Score(item) \in Nat
  BY <1>1, ScoreTyped
<1>4. Cardinality(item.providers) <= Cardinality(g.providers)
  <2>1. item.providers \subseteq g.providers
    BY <1>1 DEF AtLeast
  <2>2. QED
    BY <2>1, <1>3, FS_Subset
<1>5. 200 * AtMost(Cardinality(item.providers), 3) <= 200 * AtMost(Cardinality(g.providers), 3)
  BY <1>3, <1>4 DEF AtMost
<1>6. item.proofs > 0 => g.proofs > 0
  <2>1. item.proofs \in Nat /\ g.proofs \in Nat /\ g.proofs >= c.proofs
    BY <1>1 DEF Item, AtLeast
  <2>2. QED
    BY <1>1, <2>1
<1>7. 9 * SourceQuality(item.source) <= 9 * SourceQuality(g.source)
  <2>1. g.source \in Provider /\ item.source \in Provider
    BY <1>1 DEF Item
  <2>2. SourceQuality(g.source) \in Int /\ SourceQuality(item.source) \in Int
    BY <2>1, QualityTyped
  <2>3. SourceQuality(g.source) >= SourceQuality(item.source)
    BY <1>1 DEF AtLeast
  <2>4. QED
    BY <2>2, <2>3
<1>8. Score(item) <= Score(g)
  <2> DEFINE a == 200 * AtMost(Cardinality(item.providers), 3)
             b == 200 * AtMost(Cardinality(g.providers), 3)
             x == 9 * SourceQuality(item.source)
             y == 9 * SourceQuality(g.source)
             v == IF item.proofs > 0 THEN 1800 ELSE 0
             z == IF g.proofs > 0 THEN 1800 ELSE 0
  <2>1. a \in Int /\ b \in Int
    BY <1>3 DEF AtMost
  <2>2. x \in Int /\ y \in Int
    <3>1. g.source \in Provider /\ item.source \in Provider
      BY <1>1 DEF Item
    <3>2. SourceQuality(g.source) \in Int /\ SourceQuality(item.source) \in Int
      BY <3>1, QualityTyped
    <3>3. QED
      BY <3>2
  <2>3. Score(item) = v + 900 + a + x + 600 + 1200 /\ Score(g) = z + 900 + b + y + 600 + 1200
    BY DEF Score
  <2>4. v <= z /\ v \in Int /\ z \in Int
    BY <1>6
  <2>5. a <= b /\ x <= y
    BY <1>5, <1>7
  <2> HIDE DEF a, b, x, y, v, z
  <2>6. QED
    BY <2>1, <2>2, <2>3, <2>4, <2>5
<1>9. QED
  BY <1>2, <1>3, <1>8 DEF Approved, Threshold
-----------------------------------------------------------------------------
(* The merge.                                                               *)

\* One identity, one kind and one repository.
Consistent(all) ==
  /\ all \in Seq(Item)
  /\ \A i, j \in DOMAIN all : all[i].key = all[j].key =>
       all[i].type = all[j].type /\ RepoIdentities(all[i]) = RepoIdentities(all[j])

Merged == [rows : Seq(Item), owned : SUBSET STRING]

\* A row stands for an item under the same identity or with a repository of its own.
StandsFor(row, item) == row.key = item.key \/ RepoIdentities(row) \cap RepoIdentities(item) # {}

Represented(item, rows) == \E i \in DOMAIN rows : StandsFor(rows[i], item)

\* The list after n items: rows among them, each item represented, the first under the
\* identity of the first.
IsMerge(m, all, n) ==
  /\ m \in Merged
  /\ \A i \in DOMAIN m.rows : /\ \E k \in 1..n : m.rows[i] = all[k]
                              /\ RepoIdentities(m.rows[i]) \subseteq m.owned
  /\ Disjoint(m.rows)
  /\ \A x \in m.owned : \E i \in DOMAIN m.rows : x \in RepoIdentities(m.rows[i])
  /\ \A k \in 1..n : Represented(all[k], m.rows)
  /\ IF n = 0 THEN m = [rows |-> <<>>, owned |-> {}]
     ELSE m.rows # <<>> /\ m.rows[1].key = all[1].key

LEMMA ClaimTyped ==
  ASSUME NEW m \in Merged, NEW item \in Item, NEW preferNew \in BOOLEAN
  PROVE  Claim(m, item, preferNew) \in Merged
<1> DEFINE same == {i \in DOMAIN m.rows : m.rows[i].key = item.key}
           one == CHOOSE i \in same : TRUE
<1>1. m.rows \in Seq(Item) /\ m.owned \in SUBSET STRING
  BY DEF Merged
<1>2. RepoIdentities(item) \in SUBSET STRING
  <2>1. item.urls \in SUBSET Url
    BY DEF Item
  <2>2. \A u \in item.urls : u.repo \in STRING
    BY <2>1 DEF Url
  <2>3. QED
    BY <2>2 DEF RepoIdentities
<1>3. [rows |-> Append(m.rows, item), owned |-> m.owned \cup RepoIdentities(item)] \in Merged
  BY <1>1, <1>2 DEF Merged
<1>4. same # {} => [m EXCEPT !.rows[one] = item] \in Merged
  <2> DEFINE rows == [m.rows EXCEPT ![one] = item]
  <2> HAVE same # {}
  <2>1. rows \in Seq(Item)
    <3>1. one \in DOMAIN m.rows
      OBVIOUS
    <3> HIDE DEF one
    <3>2. QED
      BY <1>1, <3>1
  <2>2. [m EXCEPT !.rows[one] = item] = [m EXCEPT !.rows = rows]
    OBVIOUS
  <2> HIDE DEF rows
  <2>3. [m EXCEPT !.rows = rows] \in Merged
    BY <2>1 DEF Merged
  <2>4. QED
    BY <2>2, <2>3
<1>5. QED
  BY <1>3, <1>4 DEF Claim

LEMMA ClaimFacts ==
  ASSUME NEW all, Consistent(all), NEW n \in DOMAIN all, NEW m, IsMerge(m, all, n - 1),
         NEW preferNew \in BOOLEAN
  PROVE  IsMerge(Claim(m, all[n], preferNew), all, n)
<1> DEFINE item == all[n]
           same == {i \in DOMAIN m.rows : m.rows[i].key = item.key}
           one == CHOOSE i \in same : TRUE
<1>1. /\ item \in Item /\ n \in Nat \ {0} /\ 1..(n-1) \subseteq 1..n /\ n \in 1..n
      /\ \A k \in 1..n : k \in DOMAIN all
      /\ m \in Merged /\ m.rows \in Seq(Item) /\ m.owned \in SUBSET STRING
  BY DEF Consistent, IsMerge, Merged
<1>2. Claim(m, item, preferNew) \in Merged
  BY <1>1, ClaimTyped
<1>3. \A i \in DOMAIN m.rows : /\ \E k \in 1..n : m.rows[i] = all[k]
                               /\ RepoIdentities(m.rows[i]) \subseteq m.owned
  BY <1>1 DEF IsMerge
<1>4. /\ n = 1 => m.rows = <<>> /\ m.owned = {}
      /\ n # 1 => m.rows # <<>> /\ m.rows[1].key = all[1].key
  <2>1. n - 1 = 0 <=> n = 1
    BY <1>1
  <2>2. QED
    BY <2>1 DEF IsMerge
<1>5. /\ Disjoint(m.rows)
      /\ \A x \in m.owned : \E i \in DOMAIN m.rows : x \in RepoIdentities(m.rows[i])
      /\ \A k \in 1..n : k = n \/ Represented(all[k], m.rows)
  <2>1. \A k \in 1..n : k = n \/ k \in 1..(n-1)
    BY <1>1
  <2>2. QED
    BY <2>1, Zenon DEF IsMerge
<1>6. Claim(m, item, preferNew) =
        IF RepoIdentities(item) \cap m.owned # {} THEN m
        ELSE IF same = {} THEN [rows |-> Append(m.rows, item), owned |-> m.owned \cup RepoIdentities(item)]
        ELSE IF preferNew THEN [m EXCEPT !.rows[one] = item] ELSE m
  BY DEF Claim
<1> HIDE DEF item, one
<1>7. CASE RepoIdentities(item) \cap m.owned # {} \/ (same # {} /\ ~preferNew)
  <2>1. Claim(m, item, preferNew) = m
    BY <1>6, <1>7
  <2>2. n # 1
    <3>1. ASSUME n = 1 PROVE FALSE
      <4>1. m.rows = <<>> /\ m.owned = {}
        BY <1>4, <3>1
      <4>2. same = {} /\ RepoIdentities(item) \cap m.owned = {}
        BY <4>1
      <4>3. QED
        BY <1>7, <4>2
    <3>2. QED
      BY <3>1
  <2>3. Represented(item, m.rows)
    <3>1. CASE same # {}
      BY <3>1, Zenon DEF Represented, StandsFor
    <3>2. CASE RepoIdentities(item) \cap m.owned # {}
      <4>1. PICK x \in RepoIdentities(item) : x \in m.owned
        BY <3>2
      <4>2. PICK i \in DOMAIN m.rows : x \in RepoIdentities(m.rows[i])
        BY <4>1, <1>5
      <4>3. QED
        BY <4>1, <4>2 DEF Represented, StandsFor
    <3>3. QED
      BY <3>1, <3>2, <1>7
  <2>4. \A k \in 1..n : Represented(all[k], m.rows)
    BY <2>3, <1>5, Zenon DEF item
  <2>5. QED
    BY <2>1, <2>2, <2>4, <1>1, <1>3, <1>4, <1>5 DEF IsMerge, item
<1>8. CASE RepoIdentities(item) \cap m.owned = {} /\ same = {}
  <2> DEFINE rows == Append(m.rows, item)
             owned == m.owned \cup RepoIdentities(item)
             new == Claim(m, item, preferNew)
  <2>1. new.rows = rows /\ new.owned = owned
    BY <1>6, <1>8
  <2>2. /\ rows # <<>> /\ DOMAIN rows = DOMAIN m.rows \cup {Len(m.rows) + 1}
        /\ rows[Len(m.rows) + 1] = item /\ \A i \in DOMAIN m.rows : rows[i] = m.rows[i]
    BY <1>1
  <2> HIDE DEF rows, new
  <2>3. ASSUME NEW i \in DOMAIN rows
        PROVE  (\E k \in 1..n : rows[i] = all[k]) /\ RepoIdentities(rows[i]) \subseteq owned
    <3>1. CASE i \in DOMAIN m.rows
      BY <3>1, <2>2, <1>3
    <3>2. CASE i = Len(m.rows) + 1
      BY <3>2, <2>2, <1>1 DEF item
    <3>3. QED
      BY <3>1, <3>2, <2>2
  <2>4. Disjoint(rows)
    <3>1. \A i \in DOMAIN m.rows : RepoIdentities(rows[i]) \cap RepoIdentities(item) = {}
      BY <1>3, <1>8, <2>2
    <3>2. QED
      BY <3>1, <2>2, <1>5 DEF Disjoint
  <2>5. rows[1].key = all[1].key
    <3>1. CASE n = 1
      <4>1. m.rows = <<>> /\ Len(<<>>) + 1 = 1
        BY <1>4, <3>1
      <4>2. rows[1] = item
        BY <4>1, <2>2
      <4>3. QED
        BY <4>2, <3>1 DEF item
    <3>2. CASE n # 1
      <4>1. 1 \in DOMAIN m.rows
        BY <1>1, <1>4, <3>2
      <4>2. QED
        BY <4>1, <1>4, <2>2, <3>2
    <3>3. QED
      BY <3>1, <3>2
  <2>6. \A x \in owned : \E i \in DOMAIN rows : x \in RepoIdentities(rows[i])
    BY <2>2, <1>5
  <2>7. ASSUME NEW k \in 1..n PROVE Represented(all[k], rows)
    <3>1. CASE k = n
      BY <3>1, <2>2 DEF Represented, StandsFor, item
    <3>2. CASE k # n
      <4>1. PICK i \in DOMAIN m.rows : StandsFor(m.rows[i], all[k])
        BY <3>2, <1>5 DEF Represented
      <4>2. QED
        BY <4>1, <2>2 DEF Represented
    <3>3. QED
      BY <3>1, <3>2
  <2> HIDE DEF owned
  <2>8. QED
    BY <2>1, <2>2, <2>3, <2>4, <2>5, <2>6, <2>7, <1>1, <1>2 DEF IsMerge, item, new
<1>9. CASE RepoIdentities(item) \cap m.owned = {} /\ same # {} /\ preferNew
  <2> DEFINE rows == [m.rows EXCEPT ![one] = item]
             new == Claim(m, item, preferNew)
  <2>1. one \in DOMAIN m.rows /\ m.rows[one].key = item.key
    BY <1>9 DEF one
  <2>2. new.rows = rows /\ new.owned = m.owned
    BY <1>1, <1>6, <1>9 DEF Merged
  <2>3. /\ DOMAIN rows = DOMAIN m.rows /\ rows[one] = item
        /\ \A i \in DOMAIN m.rows : i # one => rows[i] = m.rows[i]
    BY <1>1, <2>1
  <2> HIDE DEF rows, new
  <2>4. RepoIdentities(item) = RepoIdentities(m.rows[one]) /\ n # 1
    <3>1. PICK k \in 1..n : m.rows[one] = all[k]
      BY <2>1, <1>3
    <3>2. RepoIdentities(all[n]) = RepoIdentities(all[k])
      BY <3>1, <2>1, <1>1 DEF Consistent, item
    <3>3. m.rows # <<>>
      <4>1. DOMAIN <<>> = {}
        OBVIOUS
      <4>2. QED
        BY <4>1, <2>1
    <3>4. QED
      BY <3>1, <3>2, <3>3, <1>4 DEF item
  <2>5. RepoIdentities(item) = {}
    BY <2>1, <2>4, <1>3, <1>9
  <2>6. Disjoint(rows)
    BY <2>3, <2>5, <1>5 DEF Disjoint
  <2>7. \A i \in DOMAIN rows : (\E k \in 1..n : rows[i] = all[k]) /\ RepoIdentities(rows[i]) \subseteq m.owned
    BY <2>3, <2>5, <1>1, <1>3 DEF item
  <2>8. rows # <<>> /\ rows[1].key = all[1].key
    <3>1. 1 \in DOMAIN m.rows /\ m.rows[1].key = all[1].key
      BY <1>1, <1>4, <2>4
    <3>2. DOMAIN <<>> = {}
      OBVIOUS
    <3>3. QED
      BY <3>1, <3>2, <2>1, <2>3
  <2>9. RepoIdentities(m.rows[one]) = {} /\ rows[one].key = m.rows[one].key
    BY <2>1, <2>3, <2>4, <2>5
  <2>10. \A x \in m.owned : \E i \in DOMAIN rows : x \in RepoIdentities(rows[i])
    <3>1. ASSUME NEW x \in m.owned PROVE \E i \in DOMAIN rows : x \in RepoIdentities(rows[i])
      <4>1. PICK i \in DOMAIN m.rows : x \in RepoIdentities(m.rows[i])
        BY <1>5
      <4>2. i # one
        BY <4>1, <2>9
      <4>3. QED
        BY <4>1, <4>2, <2>3
    <3>2. QED
      BY <3>1
  <2>11. ASSUME NEW k \in 1..n PROVE Represented(all[k], rows)
    <3>1. CASE k = n
      BY <3>1, <2>1, <2>3 DEF Represented, StandsFor, item
    <3>2. CASE k # n
      <4>1. PICK i \in DOMAIN m.rows : StandsFor(m.rows[i], all[k])
        BY <3>2, <1>5 DEF Represented
      <4>2. CASE i = one
        <5>1. rows[one].key = all[k].key
          BY <4>1, <4>2, <2>9 DEF StandsFor
        <5>2. QED
          BY <5>1, <2>1, <2>3 DEF Represented, StandsFor
      <4>3. CASE i # one
        BY <4>1, <4>3, <2>3 DEF Represented
      <4>4. QED
        BY <4>2, <4>3
    <3>3. QED
      BY <3>1, <3>2
  <2>12. QED
    BY <2>2, <2>4, <2>6, <2>7, <2>8, <2>10, <2>11, <1>1, <1>2 DEF IsMerge, item, new
<1>10. QED
  BY <1>7, <1>8, <1>9

\* _merge_items, given rows and items of which one identity has one repository:
\* it returns rows among both lists, no repository twice, and for every cached
\* row and every live item one with its identity or one of its repositories.  A
\* cached row at the head keeps its place.
THEOREM MergeFacts ==
  ASSUME NEW cached \in Seq(Item), NEW live \in Seq(Item), Consistent(cached \o live)
  PROVE  LET rows == MergeItems(cached, live)
         IN  /\ rows \in Seq(Item) /\ Disjoint(rows)
             /\ ToSet(rows) \subseteq ToSet(cached) \cup ToSet(live)
             /\ cached # <<>> => rows # <<>> /\ rows[1].key = cached[1].key /\ rows[1].type = cached[1].type
             /\ \A item \in ToSet(cached) \cup ToSet(live) : Represented(item, rows)
<1> DEFINE all == cached \o live
           N == Len(all)
           new(n) == n > Len(cached)
           base == [rows |-> <<>>, owned |-> {}]
           Is(f) == f = [n \in 0..N |-> IF n = 0 THEN base ELSE Claim(f[n-1], all[n], new(n))]
           merged == CHOOSE f : Is(f)
<1>1. /\ all \in Seq(Item) /\ N \in Nat /\ DOMAIN all = 1..N
      /\ \A n \in 1..N : all[n] \in Item /\ all[n] \in ToSet(cached) \cup ToSet(live)
      /\ cached # <<>> => N # 0 /\ all[1] = cached[1]
      /\ \A item \in ToSet(cached) \cup ToSet(live) : \E n \in 1..N : all[n] = item
  <2>1. all \in Seq(Item) /\ N = Len(cached) + Len(live) /\ DOMAIN all = 1..N
    OBVIOUS
  <2>2. ASSUME NEW n \in 1..N PROVE all[n] \in ToSet(cached) \cup ToSet(live)
    <3>1. CASE n <= Len(cached)
      <4>1. all[n] = cached[n] /\ n \in DOMAIN cached
        BY <3>1, <2>1
      <4>2. QED
        BY <4>1 DEF ToSet
    <3>2. CASE n > Len(cached)
      <4>1. all[n] = live[n - Len(cached)] /\ n - Len(cached) \in DOMAIN live
        BY <3>2, <2>1
      <4>2. QED
        BY <4>1 DEF ToSet
    <3>3. QED
      BY <3>1, <3>2, <2>1
  <2>3. cached # <<>> => N # 0 /\ all[1] = cached[1]
    BY <2>1
  <2>4. ASSUME NEW item \in ToSet(cached) \cup ToSet(live) PROVE \E n \in 1..N : all[n] = item
    <3>1. CASE item \in ToSet(cached)
      <4>1. PICK i \in DOMAIN cached : item = cached[i]
        BY <3>1 DEF ToSet
      <4>2. i \in 1..N /\ all[i] = item
        BY <4>1, <2>1
      <4>3. QED
        BY <4>2
    <3>2. CASE item \in ToSet(live)
      <4>1. PICK i \in DOMAIN live : item = live[i]
        BY <3>2 DEF ToSet
      <4>2. Len(cached) + i \in 1..N /\ all[Len(cached) + i] = item
        BY <4>1, <2>1
      <4>3. QED
        BY <4>2
    <3>3. QED
      BY <3>1, <3>2
  <2> HIDE DEF all
  <2>5. QED
    BY <2>1, <2>2, <2>3, <2>4
<1>2. MergeItems(cached, live) = merged[N].rows
  BY DEF MergeItems
<1>3. Consistent(all)
  OBVIOUS
<1>4. \A n \in 1..N : new(n) \in BOOLEAN
  OBVIOUS
<1> HIDE DEF all, N
<1>5. Is(merged)
  <2> DEFINE step == [p \in (1..N) \X Merged |-> Claim(p[2], all[p[1]], new(p[1]))]
  <2>1. base \in Merged
    BY DEF Merged
  <2>2. \A n \in 1..N : \A x \in Merged : step[<<n, x>>] = Claim(x, all[n], new(n))
    OBVIOUS
  <2>3. step \in [(1..N) \X Merged -> Merged]
    <3> HIDE DEF new
    <3>1. \A p \in (1..N) \X Merged : Claim(p[2], all[p[1]], new(p[1])) \in Merged
      BY <1>1, <1>4, ClaimTyped
    <3>2. QED
      BY <3>1
  <2> HIDE DEF base, step, new
  <2>4. PICK f : IsRecursion(f, N, Merged, base, step)
    BY <1>1, <2>1, <2>3, Recursion
  <2>5. \A n \in 0..N : n # 0 => step[<<n, f[n-1]>>] = Claim(f[n-1], all[n], new(n))
    <3>1. \A n \in 0..N : n # 0 => n \in 1..N /\ f[n-1] \in Merged
      BY <1>1, <2>4 DEF IsRecursion
    <3>2. QED
      BY <2>2, <3>1
  <2>6. Is(f)
    BY <2>4, <2>5 DEF IsRecursion
  <2> HIDE DEF Is
  <2>7. QED
    BY <2>6
<1> HIDE DEF base, new
<1>6. merged[0] = base /\ \A n \in 1..N : merged[n] = Claim(merged[n-1], all[n], new(n))
  <2> HIDE DEF merged
  <2>1. \A n \in 1..N : n \in 0..N /\ n # 0
    BY <1>1
  <2>2. QED
    BY <1>1, <1>5, <2>1
<1> HIDE DEF merged
<1> DEFINE T == {n \in Nat : n <= N => IsMerge(merged[n], all, n)}
<1>7. 0 \in T
  <2>1. base \in Merged /\ base.rows = <<>> /\ DOMAIN <<>> = {} /\ base = [rows |-> <<>>, owned |-> {}]
    BY DEF Merged, base
  <2>2. \A k \in 1..0 : Represented(all[k], base.rows)
    OBVIOUS
  <2>3. IsMerge(base, all, 0)
    BY <2>1, <2>2 DEF IsMerge, Disjoint
  <2>4. QED
    BY <1>6, <2>3
<1>8. ASSUME NEW n \in Nat, n \in T PROVE n + 1 \in T
  <2>1. SUFFICES ASSUME n + 1 <= N PROVE IsMerge(merged[n+1], all, n + 1)
    OBVIOUS
  <2>2. n + 1 \in DOMAIN all /\ (n + 1) - 1 = n /\ n + 1 \in 1..N
    BY <1>1, <2>1
  <2>3. IsMerge(merged[n], all, (n + 1) - 1)
    BY <1>1, <1>8, <2>1, <2>2
  <2>4. IsMerge(Claim(merged[n], all[n+1], new(n+1)), all, n + 1)
    BY <1>3, <1>4, <2>2, <2>3, ClaimFacts
  <2>5. QED
    BY <1>6, <2>2, <2>4
<1>9. Nat \subseteq T
  <2> HIDE DEF T
  <2>1. QED
    BY <1>7, <1>8, NatSetInduction
<1>10. IsMerge(merged[N], all, N)
  BY <1>1, <1>9
<1> DEFINE rows == merged[N].rows
<1>11. /\ rows \in Seq(Item) /\ Disjoint(rows)
       /\ \A i \in DOMAIN rows : \E k \in 1..N : rows[i] = all[k]
       /\ N # 0 => rows # <<>> /\ rows[1].key = all[1].key
       /\ \A k \in 1..N : Represented(all[k], rows)
  BY <1>10 DEF IsMerge, Merged
<1> HIDE DEF rows
<1>12. ToSet(rows) \subseteq ToSet(cached) \cup ToSet(live)
  <2>1. \A n \in 1..N : all[n] \in ToSet(cached) \cup ToSet(live)
    BY <1>1
  <2>2. \A i \in DOMAIN rows : rows[i] \in ToSet(cached) \cup ToSet(live)
    BY <2>1, <1>11
  <2>3. \A x \in ToSet(rows) : \E i \in DOMAIN rows : x = rows[i]
    BY DEF ToSet
  <2>4. QED
    BY <2>2, <2>3
<1>13. cached # <<>> => rows # <<>> /\ rows[1].key = cached[1].key /\ rows[1].type = cached[1].type
  <2>1. SUFFICES ASSUME cached # <<>> PROVE rows # <<>> /\ rows[1].key = cached[1].key /\ rows[1].type = cached[1].type
    OBVIOUS
  <2>2. N # 0 /\ all[1] = cached[1] /\ rows # <<>> /\ rows[1].key = all[1].key
    BY <2>1, <1>1, <1>11
  <2>3. 1 \in DOMAIN rows /\ 1 \in DOMAIN all
    BY <2>2, <1>1, <1>11
  <2>4. PICK k \in 1..N : rows[1] = all[k]
    BY <2>3, <1>11
  <2>5. all[k].type = all[1].type
    BY <2>2, <2>3, <2>4, <1>1, <1>3 DEF Consistent
  <2>6. QED
    BY <2>2, <2>4, <2>5
<1>14. \A item \in ToSet(cached) \cup ToSet(live) : Represented(item, rows)
  BY <1>1, <1>11
<1>15. QED
  BY <1>2, <1>11, <1>12, <1>13, <1>14 DEF rows
-----------------------------------------------------------------------------
(* Lists of a search.                                                       *)

LEMMA LimitsTyped ==
  ASSUME NEW r \in Search
  PROVE  /\ Cap(r) \in Nat \ {0} /\ LimitOr(r.query, PerSource) \in Nat \ {0}
         /\ LimitOr(r.query, Len(r.cached)) \in Nat
         /\ r.query \in Query /\ r.query.want \in {"all", "tool", "agent"}
<1>1. /\ r.query \in Query /\ r.query.limit \in Nat /\ r.query.want \in {"all", "tool", "agent"}
      /\ Len(r.cached) \in Nat
  BY SearchAssumption DEF Search
<1>2. ColdMissCap \in Nat \ {0} /\ PerSource \in Nat \ {0}
  BY SearchAssumption
<1>3. QED
  BY <1>1, <1>2 DEF Cap, LimitOr, AtMost

LEMMA VerifiedFacts ==
  ASSUME NEW r \in Search
  PROVE  /\ Verified(r) \in Seq(Item)
         /\ ToSet(Verified(r)) = {r.cached[i] : i \in {j \in DOMAIN r.cached : r.cached[j].key \in r.servable}}
         /\ Verified(r) # <<>> => r.cached # <<>>
<1> DEFINE I == {j \in DOMAIN r.cached : r.cached[j].key \in r.servable}
<1>1. r.cached \in Seq(Item) /\ I \in SUBSET DOMAIN r.cached /\ Verified(r) = Keep(r.cached, I)
  BY DEF Search, Verified
<1>2. /\ Verified(r) \in Seq(Item) /\ ToSet(Verified(r)) = {r.cached[i] : i \in I}
      /\ Thinned(Verified(r), r.cached)
  <2> HIDE DEF I
  <2>1. QED
    BY <1>1, KeepFacts
<1>3. Verified(r) # <<>> => r.cached # <<>>
  <2>1. SUFFICES ASSUME Verified(r) # <<>>, r.cached = <<>> PROVE FALSE
    OBVIOUS
  <2>2. 1 \in DOMAIN Verified(r)
    BY <1>2, <2>1
  <2>3. Verified(r)[1] \in ToSet(Verified(r))
    BY <2>2 DEF ToSet
  <2>4. DOMAIN r.cached = {}
    BY <2>1
  <2>5. QED
    BY <1>2, <2>3, <2>4
<1>4. QED
  BY <1>2, <1>3

LEMMA ShownVerified ==
  ASSUME NEW filed, NEW ever, NEW r \in Search, CachedSound(r, filed, ever), NEW item \in ToSet(Verified(r))
  PROVE  Shown(r, item, filed, ever) /\ Genuine(item) /\ r.query.want \in {"all", item.type}
<1>1. PICK i \in DOMAIN r.cached : item = r.cached[i] /\ r.cached[i].key \in r.servable
  BY VerifiedFacts
<1>2. QED
  BY <1>1 DEF CachedSound, Shown

LEMMA FirstEntry ==
  ASSUME NEW S, NEW s \in Seq(S), s # <<>>
  PROVE  1 \in DOMAIN s /\ s[1] \in ToSet(s) /\ s[1] \in S
BY DEF ToSet

LEMMA Entries ==
  ASSUME NEW S, NEW s \in Seq(S), NEW x \in ToSet(s)
  PROVE  x \in S /\ \E i \in DOMAIN s : s[i] = x
BY DEF ToSet

\* A search that has nothing to lose by a step that only moves it on.
LEMMA SoundGrows ==
  ASSUME NEW filed, NEW more, filed \subseteq more, NEW ever, NEW also, ever \subseteq also,
         NEW md, NEW r, Sound(r, filed, ever, md)
  PROVE  Sound(r, more, also, md)
<1>1. \A item : Seen(item, ever) => Seen(item, also)
  BY DEF Seen
<1>2. CachedSound(r, more, also)
  BY <1>1 DEF Sound, CachedSound
<1>3. LiveSound(r, more)
  BY DEF Sound, LiveSound
<1>4. AnswerSound(r, more, also, md)
  BY <1>1 DEF Sound, AnswerSound, Shown
<1>5. QED
  BY <1>2, <1>3, <1>4 DEF Sound

-----------------------------------------------------------------------------
(* Steps of one search.                                                     *)

LEMMA IdleTyped ==
  Idle \in Search
<1>1. (CHOOSE q \in Query : TRUE) \in Query
  BY SearchAssumption
<1>2. [src \in Source |-> <<>>] \in [Source -> Seq(Candidate)]
  OBVIOUS
<1>3. <<>> \in Seq(Item)
  OBVIOUS
<1>4. QED
  BY <1>1, <1>2, <1>3 DEF Idle, Search, Stage

LEMMA IdleSound ==
  ASSUME NEW filed, NEW ever, NEW md
  PROVE  /\ Sound(Idle, filed, ever, md)
         /\ \A q \in Query : Sound([Idle EXCEPT !.at = "lookup", !.query = q], filed, ever, md)
<1>1. ASSUME NEW r \in Search, r.at \in {"idle", "lookup"}, r.cached = <<>>, r.servable = {},
             r.pending = {}, r.got = [src \in Source |-> <<>>], r.queue = <<>>, r.stored = <<>>,
             r.live = "none", r.answer = <<>>
      PROVE  Sound(r, filed, ever, md)
  <2>1. DOMAIN <<>> = {} /\ ToSet(<<>>) = {} /\ Len(<<>>) = 0
    BY DEF ToSet
  <2>2. Staged(r, md)
    BY <1>1 DEF Staged
  <2>3. Bounded(r, md)
    BY <1>1, <2>1, LimitsTyped DEF Bounded
  <2>4. CachedSound(r, filed, ever)
    BY <1>1, <2>1 DEF CachedSound
  <2>5. GotSound(r)
    BY <1>1, <2>1 DEF GotSound
  <2>6. LiveSound(r, filed)
    BY <1>1, <2>1 DEF LiveSound
  <2>7. AnswerSound(r, filed, ever, md)
    BY <1>1 DEF AnswerSound
  <2>8. QED
    BY <2>2, <2>3, <2>4, <2>5, <2>6, <2>7 DEF Sound
<1>2. Sound(Idle, filed, ever, md)
  BY <1>1, IdleTyped DEF Idle
<1>3. ASSUME NEW q \in Query
      PROVE  Sound([Idle EXCEPT !.at = "lookup", !.query = q], filed, ever, md)
  <2> DEFINE r == [Idle EXCEPT !.at = "lookup", !.query = q]
  <2>1. r \in Search
    BY IdleTyped DEF Search, Stage
  <2>2. /\ r.at = "lookup" /\ r.cached = <<>> /\ r.servable = {} /\ r.pending = {}
        /\ r.got = [src \in Source |-> <<>>] /\ r.queue = <<>> /\ r.stored = <<>>
        /\ r.live = "none" /\ r.answer = <<>>
    BY DEF Idle
  <2> HIDE DEF r
  <2>3. QED
    BY <1>1, <2>1, <2>2 DEF r
<1>4. QED
  BY <1>2, <1>3
LEMMA Onward ==
  ASSUME NEW filed, NEW ever, NEW md, NEW r, Sound(r, filed, ever, md), NEW new \in Search,
         new.query = r.query, new.cached = r.cached, new.servable = r.servable, new.open = r.open,
         new.answer = r.answer, new.pending \subseteq Enabled, new.at \notin {"present", "done"},
         Staged(new, md), GotSound(new), LiveSound(new, filed)
  PROVE  Sound(new, filed, ever, md)
<1>1. Bounded(new, md)
  BY DEF Sound, Bounded, Cap
<1>2. CachedSound(new, filed, ever)
  BY DEF Sound, CachedSound
<1>3. AnswerSound(new, filed, ever, md)
  BY DEF AnswerSound
<1>4. QED
  BY <1>1, <1>2, <1>3 DEF Sound

LEMMA SetToSeqFacts ==
  ASSUME NEW S, IsFiniteSet(S)
  PROVE  /\ SetToSeq(S) \in Seq(S)
         /\ \A i, j \in DOMAIN SetToSeq(S) : SetToSeq(S)[i] = SetToSeq(S)[j] => i = j
<1> DEFINE n == Cardinality(S)
           s == SetToSeq(S)
<1>1. n \in Nat /\ ExistsBijection(1..n, S)
  BY FS_CardinalityType
<1>2. PICK f \in [1..n -> S] : IsInjective(f)
  BY <1>1 DEF ExistsBijection, Bijection, Injection
<1>3. s = CHOOSE g \in [1..n -> S] : IsInjective(g)
  BY DEF SetToSeq
<1> HIDE DEF n, s
<1>4. s \in [1..n -> S] /\ IsInjective(s)
  BY <1>2, <1>3
<1>5. QED
  BY <1>1, <1>4 DEF IsInjective, s

LEMMA LookupSound ==
  ASSUME NEW filed, NEW ever, NEW md, NEW r, Sound(r, filed, ever, md), r.at = "lookup",
         NEW rows \in SUBSET Item, IsFiniteSet(rows),
         \A item \in rows : item.key \in filed /\ Genuine(item) /\ r.query.want \in {"all", item.type},
         \A x, y \in rows : x.key = y.key => x = y,
         NEW limit \in Nat, md = "cached" => limit <= LimitOr(r.query, PerSource)
  PROVE  Sound([r EXCEPT !.at = "gate", !.cached = RankCatalogItems(SetToSeq(rows), "all", limit)],
               filed, ever, md)
<1> DEFINE s == SetToSeq(rows)
           cached == RankCatalogItems(s, "all", limit)
           new == [r EXCEPT !.at = "gate", !.cached = cached]
<1>1. s \in Seq(rows) /\ \A i, j \in DOMAIN s : s[i] = s[j] => i = j
  BY SetToSeqFacts
<1> HIDE DEF s
<1>2. s \in Seq(Item) /\ \A i \in DOMAIN s : s[i] \in rows
  BY <1>1
<1>3. cached \in Seq(Item) /\ Len(cached) <= limit /\ Thinned(cached, s)
  BY <1>2, RankCatalogFacts
<1> HIDE DEF cached
<1>4. \A p \in DOMAIN cached : cached[p] \in rows
  <2>1. \A p \in DOMAIN cached : cached[p] \in ToSet(cached)
    BY DEF ToSet
  <2>2. \A x \in ToSet(s) : x \in rows
    BY <1>2 DEF ToSet
  <2>3. QED
    BY <1>3, <2>1, <2>2 DEF Thinned
<1>5. \A p, q \in DOMAIN cached : cached[p].key = cached[q].key => p = q
  <2>1. SUFFICES ASSUME NEW p \in DOMAIN cached, NEW q \in DOMAIN cached, p # q,
                        cached[p].key = cached[q].key
                 PROVE  FALSE
    OBVIOUS
  <2>2. PICK i, j \in DOMAIN s : i # j /\ cached[p] = s[i] /\ cached[q] = s[j]
    BY <1>3, <2>1 DEF Thinned
  <2>3. s[i] = s[j]
    BY <1>2, <2>1, <2>2
  <2>4. QED
    BY <1>1, <2>2, <2>3
<1>6. new \in Search
  BY <1>3 DEF Sound, Search, Stage
<1>7. /\ new.at = "gate" /\ new.cached = cached /\ new.query = r.query /\ new.servable = r.servable
      /\ new.open = r.open /\ new.pending = r.pending /\ new.got = r.got /\ new.queue = r.queue
      /\ new.rejected = r.rejected /\ new.exists = r.exists /\ new.stored = r.stored
      /\ new.live = r.live /\ new.answer = r.answer
  BY DEF Sound, Search
<1> HIDE DEF new
<1>8. Staged(new, md)
  BY <1>7 DEF Sound, Staged
<1>9. Bounded(new, md)
  <2>1. Len(cached) \in Int /\ limit \in Int /\ LimitOr(r.query, PerSource) \in Int
    BY <1>3, LimitsTyped DEF Sound
  <2>2. md = "cached" => Len(cached) <= LimitOr(r.query, PerSource)
    BY <2>1, <1>3
  <2>3. Cap(new) = Cap(r)
    BY <1>7 DEF Cap
  <2>4. QED
    BY <1>7, <2>2, <2>3 DEF Sound, Bounded
<1>10. CachedSound(new, filed, ever)
  <2>1. r.servable = {}
    BY DEF Sound, LiveSound
  <2>2. QED
    BY <1>4, <1>5, <1>7, <2>1 DEF CachedSound
<1>11. GotSound(new)
  BY <1>7 DEF Sound, GotSound
<1>12. LiveSound(new, filed)
  BY <1>7 DEF Sound, LiveSound
<1>13. AnswerSound(new, filed, ever, md)
  BY <1>7 DEF AnswerSound
<1>14. QED
  BY <1>6, <1>8, <1>9, <1>10, <1>11, <1>12, <1>13 DEF Sound, s, cached, new

LEMMA ErrorSound ==
  ASSUME NEW filed, NEW ever, NEW md, NEW r, Sound(r, filed, ever, md), r.at = "lookup"
  PROVE  Sound([r EXCEPT !.at = "error"], filed, ever, md)
<1> DEFINE new == [r EXCEPT !.at = "error"]
<1>1. new \in Search
  BY DEF Sound, Search, Stage
<1>2. /\ new.at = "error" /\ new.cached = r.cached /\ new.query = r.query /\ new.servable = r.servable
      /\ new.open = r.open /\ new.pending = r.pending /\ new.got = r.got /\ new.queue = r.queue
      /\ new.rejected = r.rejected /\ new.exists = r.exists /\ new.stored = r.stored
      /\ new.live = r.live /\ new.answer = r.answer
  BY DEF Sound, Search
<1> HIDE DEF new
<1>3. Staged(new, md) /\ new.pending \subseteq Enabled
  BY <1>2 DEF Sound, Staged, Bounded
<1>4. GotSound(new) /\ LiveSound(new, filed)
  BY <1>2 DEF Sound, GotSound, LiveSound
<1>5. QED
  BY <1>1, <1>2, <1>3, <1>4, Onward DEF new
-----------------------------------------------------------------------------
(* The gate.                                                                *)

\* Gated depends on the mode of the installation, which is a variable of the model.
GatedIn(r, md) ==
  CASE md = "cached" ->
         [r EXCEPT !.at = "present",
                   !.answer = Truncate(Verified(r), LimitOr(r.query, Len(r.cached)))]
    [] md # "cached" /\ Len(Verified(r)) >= VerifiedCap ->
         [r EXCEPT !.at = "present", !.early = TRUE,
                   !.answer = RankCatalogItems(Verified(r), r.query.want, Cap(r))]
    [] OTHER ->
         [r EXCEPT !.pending = IF r.query.kind = "agent" THEN {} ELSE Officials,
                   !.at = IF Enabled = {} THEN "answer"
                          ELSE IF r.query.kind = "agent" THEN "normalize" ELSE "sources"]

LEMMA Presented ==
  ASSUME NEW filed, NEW ever, NEW md, NEW r, Sound(r, filed, ever, md), r.at = "gate",
         NEW answer \in Seq(Item), NEW early \in BOOLEAN,
         ToSet(answer) \subseteq ToSet(Verified(r)),
         Verified(r) # <<>> => answer # <<>>,
         Len(answer) <= (IF md = "cached" THEN LimitOr(r.query, PerSource) ELSE Cap(r)),
         md = "mixed" => early
  PROVE  Sound([r EXCEPT !.at = "present", !.early = early, !.answer = answer], filed, ever, md)
<1> DEFINE new == [r EXCEPT !.at = "present", !.early = early, !.answer = answer]
<1>1. new \in Search
  BY DEF Sound, Search, Stage
<1>2. /\ new.at = "present" /\ new.cached = r.cached /\ new.query = r.query /\ new.servable = r.servable
      /\ new.open = r.open /\ new.pending = r.pending /\ new.got = r.got /\ new.queue = r.queue
      /\ new.rejected = r.rejected /\ new.exists = r.exists /\ new.stored = r.stored
      /\ new.live = r.live /\ new.answer = answer /\ new.early = early
  BY DEF Sound, Search
<1>3. r.live = "none"
  BY DEF Sound, LiveSound
<1> HIDE DEF new
<1>4. Staged(new, md) /\ Bounded(new, md) /\ CachedSound(new, filed, ever) /\ GotSound(new)
  <2>1. Staged(new, md)
    BY <1>2 DEF Sound, Staged
  <2>2. Cap(new) = Cap(r)
    BY <1>2 DEF Cap
  <2>3. Bounded(new, md)
    BY <1>2, <2>2 DEF Sound, Bounded
  <2>4. CachedSound(new, filed, ever) /\ GotSound(new)
    BY <1>2 DEF Sound, CachedSound, GotSound
  <2>5. QED
    BY <2>1, <2>3, <2>4
<1>5. LiveSound(new, filed)
  BY <1>2, <1>3 DEF Sound, LiveSound
<1>6. Verified(new) = Verified(r)
  BY <1>2 DEF Verified
<1>7. \A item \in ToSet(answer) : Shown(new, item, filed, ever)
  <2>1. SUFFICES ASSUME NEW item \in ToSet(Verified(new)) PROVE Shown(new, item, filed, ever)
    BY <1>6
  <2>2. QED
    BY <1>1, <1>4, ShownVerified
<1>8. AnswerSound(new, filed, ever, md)
  BY <1>2, <1>6, <1>7 DEF AnswerSound
<1>9. QED
  BY <1>1, <1>4, <1>5, <1>8 DEF Sound, new

LEMMA GatedSound ==
  ASSUME NEW filed, NEW ever, NEW md \in {"cached", "mixed"}, NEW r, Sound(r, filed, ever, md), r.at = "gate"
  PROVE  Sound(GatedIn(r, md), filed, ever, md)
<1> DEFINE V == Verified(r)
<1>1. /\ r \in Search /\ V \in Seq(Item) /\ (V # <<>> => r.cached # <<>>)
      /\ Cap(r) \in Nat \ {0} /\ LimitOr(r.query, PerSource) \in Nat \ {0}
      /\ LimitOr(r.query, Len(r.cached)) \in Nat
  BY VerifiedFacts, LimitsTyped DEF Sound
<1>2. r.cached \in Seq(Item) /\ r.query.limit \in Nat /\ Len(r.cached) \in Nat
  BY <1>1, SearchAssumption DEF Search
<1>3. CASE md = "cached"
  <2> DEFINE limit == LimitOr(r.query, Len(r.cached))
             answer == Truncate(V, limit)
  <2> HIDE DEF V
  <2>1. answer \in Seq(Item) /\ Len(answer) <= limit /\ Thinned(answer, V) /\ (limit # 0 /\ V # <<>> => answer # <<>>)
    BY <1>1, TruncateFacts
  <2>2. limit <= LimitOr(r.query, PerSource)
    <3>1. Len(r.cached) <= LimitOr(r.query, PerSource)
      BY <1>3 DEF Sound, Bounded
    <3>2. QED
      BY <3>1, <1>1, <1>2 DEF LimitOr
  <2>3. V # <<>> => limit # 0
    <3>1. r.cached # <<>> => Len(r.cached) # 0
      BY <1>2
    <3>2. QED
      BY <3>1, <1>1, <1>2 DEF LimitOr
  <2>4. GatedIn(r, md) = [r EXCEPT !.at = "present", !.answer = answer]
    BY <1>3 DEF GatedIn, V
  <2>5. r.early \in BOOLEAN /\ [r EXCEPT !.at = "present", !.answer = answer] = [r EXCEPT !.at = "present", !.early = r.early, !.answer = answer]
    BY <1>1 DEF Search
  <2> HIDE DEF answer, limit
  <2>6. Len(answer) <= LimitOr(r.query, PerSource)
    <3>1. Len(answer) \in Int
      BY <2>1
    <3>2. QED
      BY <1>1, <2>1, <2>2, <3>1 DEF limit
  <2>7. QED
    <3>1. ToSet(answer) \subseteq ToSet(Verified(r)) /\ (Verified(r) # <<>> => answer # <<>>)
      BY <2>1, <2>3 DEF Thinned, V
    <3>2. /\ Len(answer) <= (IF md = "cached" THEN LimitOr(r.query, PerSource) ELSE Cap(r))
          /\ md = "mixed" => r.early
      BY <1>3, <2>6
    <3>3. Sound([r EXCEPT !.at = "present", !.early = r.early, !.answer = answer], filed, ever, md)
      BY <2>1, <2>5, <3>1, <3>2, Presented
    <3>4. QED
      BY <2>4, <2>5, <3>3
<1>4. CASE md # "cached" /\ Len(V) >= VerifiedCap
  <2> DEFINE answer == RankCatalogItems(V, r.query.want, Cap(r))
  <2>1. GatedIn(r, md) = [r EXCEPT !.at = "present", !.early = TRUE, !.answer = answer]
    BY <1>4 DEF GatedIn
  <2>2. V # <<>> => r.query.want \in {"all", V[1].type} /\ 1 \in DOMAIN V
    <3>1. V # <<>> => V[1] \in ToSet(V) /\ 1 \in DOMAIN V
      BY <1>1, FirstEntry
    <3>2. QED
      BY <3>1, <1>1, ShownVerified DEF Sound
  <2> HIDE DEF V
  <2>3. /\ answer \in Seq(Item) /\ Len(answer) <= Cap(r) /\ Thinned(answer, V)
        /\ (\E i \in DOMAIN V : r.query.want \in {"all", V[i].type}) => answer # <<>>
    BY <1>1, RankCatalogFacts
  <2> HIDE DEF answer
  <2>4. V # <<>> => answer # <<>>
    BY <2>2, <2>3
  <2>5. ToSet(answer) \subseteq ToSet(V)
    BY <2>3 DEF Thinned
  <2>6. QED
    <3>1. ToSet(answer) \subseteq ToSet(Verified(r)) /\ (Verified(r) # <<>> => answer # <<>>)
      BY <2>4, <2>5 DEF V
    <3>2. /\ Len(answer) <= (IF md = "cached" THEN LimitOr(r.query, PerSource) ELSE Cap(r))
          /\ TRUE \in BOOLEAN /\ (md = "mixed" => TRUE)
      BY <1>4, <2>3
    <3>3. Sound([r EXCEPT !.at = "present", !.early = TRUE, !.answer = answer], filed, ever, md)
      BY <2>3, <3>1, <3>2, Presented
    <3>4. QED
      BY <2>1, <3>3
<1>5. CASE md # "cached" /\ ~(Len(V) >= VerifiedCap)
  <2> DEFINE at == IF Enabled = {} THEN "answer"
                   ELSE IF r.query.kind = "agent" THEN "normalize" ELSE "sources"
             pending == IF r.query.kind = "agent" THEN {} ELSE Officials
             new == [r EXCEPT !.pending = pending, !.at = at]
  <2>1. GatedIn(r, md) = new
    BY <1>5 DEF GatedIn
  <2>2. /\ pending \subseteq Officials /\ pending \subseteq Enabled /\ pending \in SUBSET Source
        /\ at \in {"answer", "normalize", "sources"} /\ (at # "sources" => pending = {})
    BY SearchAssumption DEF Officials
  <2> HIDE DEF at, pending
  <2>3. new \in Search
    BY <1>1, <2>2 DEF Search, Stage
  <2>4. /\ new.at = at /\ new.cached = r.cached /\ new.query = r.query /\ new.servable = r.servable
        /\ new.open = r.open /\ new.pending = pending /\ new.got = r.got /\ new.queue = r.queue
        /\ new.rejected = r.rejected /\ new.exists = r.exists /\ new.stored = r.stored
        /\ new.live = r.live /\ new.answer = r.answer
    BY <1>1 DEF Search
  <2> HIDE DEF new
  <2>5. Staged(new, md)
    BY <1>5, <2>2, <2>4 DEF Staged
  <2>6. GotSound(new) /\ LiveSound(new, filed)
    BY <2>2, <2>4 DEF Sound, GotSound, LiveSound
  <2>7. QED
    BY <2>1, <2>2, <2>3, <2>4, <2>5, <2>6, Onward
<1>6. QED
  BY <1>3, <1>4, <1>5

Allowed(r, badges) ==
  {item.key : item \in {i \in ToSet(r.cached) : Official(i) \/ RepoIdentities(i) \cap badges # {}}}

\* The badges are read, or cannot be.
LEMMA GateSound ==
  ASSUME NEW filed, NEW ever, NEW md \in {"cached", "mixed"}, NEW r, Sound(r, filed, ever, md), r.at = "gate",
         NEW badges, badges \subseteq ever
  PROVE  /\ Sound(GatedIn([r EXCEPT !.servable = Allowed(r, badges)], md), filed, ever, md)
         /\ Sound(GatedIn([r EXCEPT !.servable = Keys(r.cached), !.open = TRUE], md), filed, ever, md)
<1> DEFINE May(item) == Official(item) \/ RepoIdentities(item) \cap badges # {}
           some == Allowed(r, badges)
<1>1. ASSUME NEW servable \in SUBSET Key, NEW open \in BOOLEAN,
             \A i \in DOMAIN r.cached : ~open /\ r.cached[i].key \in servable => Seen(r.cached[i], ever)
      PROVE  Sound([r EXCEPT !.servable = servable, !.open = open], filed, ever, md)
  <2> DEFINE new == [r EXCEPT !.servable = servable, !.open = open]
  <2>1. new \in Search
    BY DEF Sound, Search
  <2>2. /\ new.at = "gate" /\ new.cached = r.cached /\ new.query = r.query /\ new.servable = servable
        /\ new.open = open /\ new.pending = r.pending /\ new.got = r.got /\ new.queue = r.queue
        /\ new.rejected = r.rejected /\ new.exists = r.exists /\ new.stored = r.stored
        /\ new.live = r.live /\ new.answer = r.answer
    BY DEF Sound, Search
  <2> HIDE DEF new
  <2>3. Staged(new, md) /\ Bounded(new, md)
    <3>1. Cap(new) = Cap(r)
      BY <2>2 DEF Cap
    <3>2. QED
      BY <2>2, <3>1 DEF Sound, Staged, Bounded
  <2>4. CachedSound(new, filed, ever)
    BY <1>1, <2>2 DEF Sound, CachedSound
  <2>5. GotSound(new) /\ LiveSound(new, filed) /\ AnswerSound(new, filed, ever, md)
    BY <2>2 DEF Sound, GotSound, LiveSound, AnswerSound
  <2>6. QED
    BY <2>1, <2>3, <2>4, <2>5 DEF Sound, new
<1>2. /\ r.cached \in Seq(Item) /\ \A i \in DOMAIN r.cached : r.cached[i] \in Item /\ r.cached[i].key \in Key
      /\ r.open \in BOOLEAN /\ r \in Search
  <2>1. r \in Search /\ r.cached \in Seq(Item) /\ r.open \in BOOLEAN
    BY DEF Sound, Search
  <2>2. \A i \in DOMAIN r.cached : r.cached[i] \in Item
    BY <2>1
  <2>3. \A item \in Item : item.key \in Key
    BY DEF Item
  <2>4. QED
    BY <2>1, <2>2, <2>3
<1>3. Sound([r EXCEPT !.servable = some], filed, ever, md)
  <2>1. some \in SUBSET Key
    BY <1>2 DEF ToSet, Allowed
  <2>2. ASSUME NEW i \in DOMAIN r.cached, r.cached[i].key \in some
        PROVE  Seen(r.cached[i], ever)
    <3>1. PICK item \in ToSet(r.cached) : May(item) /\ item.key = r.cached[i].key
      BY <2>2 DEF Allowed
    <3>2. PICK j \in DOMAIN r.cached : r.cached[j] = item
      BY <3>1 DEF ToSet
    <3>3. j = i
      BY <3>1, <3>2 DEF Sound, CachedSound
    <3>4. QED
      BY <3>1, <3>2, <3>3 DEF Seen
  <2> HIDE DEF some
  <2>3. Sound([r EXCEPT !.servable = some, !.open = r.open], filed, ever, md)
    BY <1>1, <1>2, <2>1, <2>2
  <2>4. [r EXCEPT !.servable = some, !.open = r.open] = [r EXCEPT !.servable = some]
    BY <1>2 DEF Search
  <2>5. QED
    BY <2>3, <2>4
<1>4. Sound([r EXCEPT !.servable = Keys(r.cached), !.open = TRUE], filed, ever, md)
  <2>1. Keys(r.cached) \in SUBSET Key
    BY <1>2 DEF Keys
  <2>2. QED
    BY <1>1, <2>1
<1>5. ([r EXCEPT !.servable = some]).at = "gate" /\ ([r EXCEPT !.servable = Keys(r.cached), !.open = TRUE]).at = "gate"
  BY <1>2 DEF Search
<1>6. QED
  BY <1>3, <1>4, <1>5, GatedSound
-----------------------------------------------------------------------------
(* The sources.                                                             *)

LEMMA PendingStage ==
  ASSUME NEW filed, NEW ever, NEW md, NEW r, Sound(r, filed, ever, md), NEW src \in r.pending
  PROVE  /\ r.at \in {"sources", "github"} /\ src \in Enabled /\ src \in Source
         /\ src = "github" <=> r.at = "github"
BY SearchAssumption DEF Sound, Staged, Bounded, Officials

LEMMA SettledSound ==
  ASSUME NEW filed, NEW ever, NEW md, NEW r, Sound(r, filed, ever, md), NEW src \in r.pending
  PROVE  Sound([r EXCEPT !.pending = @ \ {src}, !.at = IF src = "github" THEN "normalize" ELSE @],
               filed, ever, md)
<1> DEFINE at == IF src = "github" THEN "normalize" ELSE r.at
           new == [r EXCEPT !.pending = r.pending \ {src}, !.at = at]
<1>1. r.at \in {"sources", "github"} /\ src \in Source /\ (src = "github" <=> r.at = "github")
  BY PendingStage
<1>2. at \in {"sources", "normalize"} /\ (at = "sources" <=> r.at = "sources")
  BY <1>1
<1> HIDE DEF at
<1>3. new \in Search
  BY <1>2 DEF Sound, Search, Stage
<1>4. /\ new.at = at /\ new.cached = r.cached /\ new.query = r.query /\ new.servable = r.servable
      /\ new.open = r.open /\ new.pending = r.pending \ {src} /\ new.got = r.got /\ new.queue = r.queue
      /\ new.rejected = r.rejected /\ new.exists = r.exists /\ new.stored = r.stored
      /\ new.live = r.live /\ new.answer = r.answer
  BY DEF Sound, Search
<1>5. [r EXCEPT !.pending = @ \ {src}, !.at = IF src = "github" THEN "normalize" ELSE @] = new
  BY DEF at
<1> HIDE DEF new
<1>6. r.at = "github" => r.pending = {src}
  BY <1>1 DEF Sound, Staged
<1>7. Staged(new, md) /\ new.pending \subseteq Enabled
  BY <1>1, <1>2, <1>4, <1>6 DEF Sound, Staged, Bounded
<1>8. GotSound(new) /\ LiveSound(new, filed)
  BY <1>1, <1>2, <1>4 DEF Sound, GotSound, LiveSound
<1>9. QED
  BY <1>2, <1>3, <1>4, <1>5, <1>7, <1>8, Onward

\* What a source answers with: some of what it offers.
LEMMA AnsweredSound ==
  ASSUME NEW filed, NEW ever, NEW md, NEW r, Sound(r, filed, ever, md), NEW src \in r.pending,
         NEW page \in Nat
  PROVE  LET first == Truncate(Offers[src], page)
             hits == Keep(first, {i \in DOMAIN first : ~Excluded(first[i])})
             new == [r EXCEPT !.got[src] = hits]
         IN  Sound(new, filed, ever, md) /\ src \in new.pending
<1> DEFINE first == Truncate(Offers[src], page)
           I == {i \in DOMAIN first : ~Excluded(first[i])}
           hits == Keep(first, I)
           new == [r EXCEPT !.got[src] = hits]
<1>1. r.at \in {"sources", "github"} /\ src \in Source
  BY PendingStage
<1>2. /\ Offers[src] \in Seq(Candidate)
      /\ \A i \in DOMAIN Offers[src] : Offers[src][i] \in Offered /\ Offers[src][i].source = src
  BY <1>1, OffersAssumption DEF Offered
<1>3. /\ first \in Seq(Candidate)
      /\ \A i \in DOMAIN first : i \in DOMAIN Offers[src] /\ first[i] = Offers[src][i]
  BY <1>2, TruncateFacts
<1>4. I \in SUBSET DOMAIN first
  OBVIOUS
<1> HIDE DEF first, I
<1>5. hits \in Seq(Candidate) /\ ToSet(hits) = {first[i] : i \in I}
  BY <1>3, <1>4, KeepFacts
<1>6. \A i \in DOMAIN hits : hits[i] \in Offered /\ hits[i].source = src
  <2>1. \A x \in ToSet(hits) : x \in Offered /\ x.source = src
    BY <1>2, <1>3, <1>4, <1>5
  <2>2. \A i \in DOMAIN hits : hits[i] \in ToSet(hits)
    BY DEF ToSet
  <2>3. QED
    BY <2>1, <2>2
<1> HIDE DEF hits
<1>7. r.got \in [Source -> Seq(Candidate)] /\ r \in Search
  BY DEF Sound, Search
<1>8. new \in Search
  <2>1. [r.got EXCEPT ![src] = hits] \in [Source -> Seq(Candidate)]
    BY <1>1, <1>5, <1>7
  <2>2. QED
    BY <1>7, <2>1 DEF Search
<1>9. /\ new.at = r.at /\ new.cached = r.cached /\ new.query = r.query /\ new.servable = r.servable
      /\ new.open = r.open /\ new.pending = r.pending /\ new.queue = r.queue
      /\ new.rejected = r.rejected /\ new.exists = r.exists /\ new.stored = r.stored
      /\ new.live = r.live /\ new.answer = r.answer
      /\ new.got = [r.got EXCEPT ![src] = hits]
  BY <1>7 DEF Search
<1> HIDE DEF new
<1>10. GotSound(new)
  <2>1. SUFFICES ASSUME NEW other \in Source, NEW i \in DOMAIN new.got[other]
                 PROVE  new.got[other][i] \in Offered /\ new.got[other][i].source = other
    BY DEF GotSound
  <2>2. CASE other = src
    BY <2>2, <1>1, <1>6, <1>7, <1>9
  <2>3. CASE other # src
    <3>1. new.got[other] = r.got[other]
      BY <2>3, <1>7, <1>9
    <3>2. QED
      BY <3>1 DEF Sound, GotSound
  <2>4. QED
    BY <2>2, <2>3
<1>11. Staged(new, md) /\ new.pending \subseteq Enabled /\ LiveSound(new, filed)
  BY <1>1, <1>9 DEF Sound, Staged, Bounded, LiveSound
<1>12. Sound(new, filed, ever, md) /\ src \in new.pending
  BY <1>1, <1>8, <1>9, <1>10, <1>11, Onward
<1>13. QED
  BY <1>12 DEF first, hits, new, I

LEMMA FailedSound ==
  ASSUME NEW filed, NEW ever, NEW md, NEW r, Sound(r, filed, ever, md), NEW src \in r.pending
  PROVE  LET new == [r EXCEPT !.failed = @ \cup {src}]
         IN  Sound(new, filed, ever, md) /\ src \in new.pending
<1> DEFINE new == [r EXCEPT !.failed = r.failed \cup {src}]
<1>1. r.at \in {"sources", "github"} /\ src \in Source
  BY PendingStage
<1>2. new \in Search
  BY <1>1 DEF Sound, Search
<1>3. /\ new.at = r.at /\ new.cached = r.cached /\ new.query = r.query /\ new.servable = r.servable
      /\ new.open = r.open /\ new.pending = r.pending /\ new.queue = r.queue /\ new.got = r.got
      /\ new.rejected = r.rejected /\ new.exists = r.exists /\ new.stored = r.stored
      /\ new.live = r.live /\ new.answer = r.answer
  BY DEF Sound, Search
<1> HIDE DEF new
<1>4. Staged(new, md) /\ new.pending \subseteq Enabled /\ LiveSound(new, filed) /\ GotSound(new)
  BY <1>1, <1>3 DEF Sound, Staged, Bounded, LiveSound, GotSound
<1>5. QED
  BY <1>1, <1>2, <1>3, <1>4, Onward DEF new

LEMMA CascadeSound ==
  ASSUME NEW filed, NEW ever, NEW md, NEW r, Sound(r, filed, ever, md), r.at = "sources", r.pending = {}
  PROVE  /\ Sound([r EXCEPT !.at = "normalize"], filed, ever, md)
         /\ "github" \in Enabled => Sound([r EXCEPT !.at = "github", !.pending = {"github"}], filed, ever, md)
<1>1. ASSUME NEW at \in {"normalize", "github"}, NEW pending \in SUBSET Enabled,
             pending = IF at = "github" THEN {"github"} ELSE {}
      PROVE  Sound([r EXCEPT !.at = at, !.pending = pending], filed, ever, md)
  <2> DEFINE new == [r EXCEPT !.at = at, !.pending = pending]
  <2>1. new \in Search
    <3>1. pending \in SUBSET Source
      BY SearchAssumption
    <3>2. QED
      BY <3>1 DEF Sound, Search, Stage
  <2>2. /\ new.at = at /\ new.cached = r.cached /\ new.query = r.query /\ new.servable = r.servable
        /\ new.open = r.open /\ new.pending = pending /\ new.queue = r.queue /\ new.got = r.got
        /\ new.rejected = r.rejected /\ new.exists = r.exists /\ new.stored = r.stored
        /\ new.live = r.live /\ new.answer = r.answer
    BY DEF Sound, Search
  <2> HIDE DEF new
  <2>3. Staged(new, md)
    BY <1>1, <2>2 DEF Sound, Staged
  <2>4. GotSound(new) /\ LiveSound(new, filed)
    BY <2>2 DEF Sound, GotSound, LiveSound
  <2>5. QED
    BY <2>1, <2>2, <2>3, <2>4, Onward DEF new
<1>2. Sound([r EXCEPT !.at = "normalize", !.pending = {}], filed, ever, md)
  BY <1>1
<1>3. [r EXCEPT !.at = "normalize", !.pending = {}] = [r EXCEPT !.at = "normalize"]
  BY DEF Sound, Search
<1>4. "github" \in Enabled => Sound([r EXCEPT !.at = "github", !.pending = {"github"}], filed, ever, md)
  BY <1>1
<1>5. QED
  BY <1>2, <1>3, <1>4

LEMMA HowManyTyped ==
  ASSUME NEW r \in Search
  PROVE  HowMany(r) \in Nat
<1> DEFINE a == Len(r.got["mcp_registry"])
           b == Len(r.got["service"])
<1>1. "mcp_registry" \in Source /\ "service" \in Source /\ r.got \in [Source -> Seq(Candidate)]
  BY DEF Source, Search
<1>2. r.got["mcp_registry"] \in Seq(Candidate) /\ r.got["service"] \in Seq(Candidate)
  BY <1>1
<1>3. a \in Nat /\ b \in Nat
  BY <1>2
<1>4. HowMany(r) = a + b
  BY DEF HowMany
<1> HIDE DEF a, b
<1>5. QED
  BY <1>3, <1>4
-----------------------------------------------------------------------------
(* The pipeline.                                                            *)

Marked(item) == [Evaluated(item) EXCEPT !.embedded = TRUE]

LEMMA MarkedFacts ==
  ASSUME NEW c \in Offered, c.item = "tool", NEW item \in Item, Like(item, c), Approved(item)
  PROVE  /\ Marked(item) \in Item /\ Discovered(Marked(item))
         /\ DeduplicationKey(Marked(item)) = DeduplicationKey(item)
<1> DEFINE new == Marked(item)
<1>1. Score(item) \in ScoreRange
  BY ScoreTyped
<1>2. new \in Item
  BY <1>1 DEF Item, Marked, Evaluated
<1>3. /\ new.key = item.key /\ new.type = item.type /\ new.name = item.name /\ new.page = item.page
      /\ new.source = item.source /\ new.urls = item.urls /\ new.score = Score(item)
  BY DEF Item, Marked, Evaluated
<1> HIDE DEF new
<1>4. RepoIdentities(new) = RepoIdentities(item)
  BY <1>3 DEF RepoIdentities
<1>5. Like(new, c)
  BY <1>3, <1>4 DEF Like
<1>6. Genuine(new)
  BY <1>5, LikeGenuine
<1>7. Discovered(new)
  BY <1>3, <1>5, <1>6 DEF Discovered, Like, Approved
<1>8. DeduplicationKey(new) = DeduplicationKey(item)
  BY <1>3 DEF DeduplicationKey
<1>9. QED
  BY <1>2, <1>7, <1>8 DEF new

LEMMA CandidatesFacts ==
  ASSUME NEW r \in Search, GotSound(r)
  PROVE  /\ InTurn(Candidates(r))
         /\ Candidates(r) \in Seq(Candidate)
         /\ \A src \in Source : ToSet(r.got[src]) \subseteq ToSet(Candidates(r))
<1> DEFINE R == r.got["mcp_registry"]
           S == r.got["service"]
           G == r.got["github"]
           found == Candidates(r)
<1>1. /\ R \in Seq(Candidate) /\ S \in Seq(Candidate) /\ G \in Seq(Candidate)
      /\ \A i \in DOMAIN R : R[i] \in Offered /\ R[i].source = "mcp_registry"
      /\ \A i \in DOMAIN S : S[i] \in Offered /\ S[i].source = "service"
      /\ \A i \in DOMAIN G : G[i] \in Offered /\ G[i].source = "github"
  <2>1. "mcp_registry" \in Source /\ "service" \in Source /\ "github" \in Source
    BY DEF Source
  <2>2. r.got \in [Source -> Seq(Candidate)]
    BY DEF Search
  <2>3. QED
    BY <2>1, <2>2 DEF GotSound
<1>2. found = (R \o S) \o G
  BY DEF Candidates
<1> HIDE DEF R, S, G, found
<1> DEFINE n == Len(R) + Len(S)
           N == Len(R) + Len(S) + Len(G)
<1>3. /\ found \in Seq(Candidate) /\ DOMAIN found = 1..N /\ Len(found) = N
      /\ Len(R) \in Nat /\ Len(S) \in Nat /\ Len(G) \in Nat
      /\ DOMAIN R = 1..Len(R) /\ DOMAIN S = 1..Len(S) /\ DOMAIN G = 1..Len(G)
  BY <1>1, <1>2
<1>4. /\ \A i \in 1..Len(R) : found[i] = R[i]
      /\ \A i \in 1..Len(S) : found[Len(R) + i] = S[i]
      /\ \A i \in 1..Len(G) : found[Len(R) + Len(S) + i] = G[i]
  <2> DEFINE Q == R \o S
  <2>1. /\ Q \in Seq(Candidate) /\ Len(Q) = Len(R) + Len(S)
        /\ \A i \in 1..Len(R) : Q[i] = R[i]
        /\ \A i \in 1..Len(S) : Q[Len(R) + i] = S[i]
    BY <1>1
  <2>2. found = Q \o G
    BY <1>2
  <2> HIDE DEF Q
  <2>3. /\ \A i \in 1..Len(Q) : found[i] = Q[i]
        /\ \A i \in 1..Len(G) : found[Len(Q) + i] = G[i]
    BY <1>1, <2>1, <2>2
  <2>4. \A i \in 1..Len(R) : i \in 1..Len(Q)
    BY <1>3, <2>1
  <2>5. \A i \in 1..Len(S) : Len(R) + i \in 1..Len(Q)
    BY <1>3, <2>1
  <2>6. QED
    BY <1>3, <2>1, <2>3, <2>4, <2>5
<1>5. ASSUME NEW i \in 1..N
      PROVE  /\ found[i] \in Offered
             /\ SourceQuality(found[i].source) = IF i <= n THEN 100 ELSE 65
  <2>1. CASE i <= Len(R)
    <3>1. i \in 1..Len(R) /\ i <= n
      BY <1>3, <2>1
    <3>2. QED
      BY <3>1, <1>1, <1>3, <1>4 DEF SourceQuality
  <2>2. CASE i > Len(R) /\ i <= n
    <3>1. PICK j \in 1..Len(S) : i = Len(R) + j
      <4>1. i - Len(R) \in 1..Len(S) /\ i = Len(R) + (i - Len(R))
        BY <1>3, <2>2
      <4>2. QED
        BY <4>1
    <3>2. found[i] = S[j]
      BY <3>1, <1>4
    <3>3. QED
      BY <3>1, <3>2, <1>1, <1>3, <2>2 DEF SourceQuality
  <2>3. CASE i > n
    <3>1. PICK j \in 1..Len(G) : i = Len(R) + Len(S) + j
      <4>1. i - n \in 1..Len(G) /\ i = Len(R) + Len(S) + (i - n)
        BY <1>3, <2>3
      <4>2. QED
        BY <4>1
    <3>2. found[i] = G[j] /\ ~(i <= n)
      BY <3>1, <1>3, <1>4, <2>3
    <3>3. QED
      BY <3>1, <3>2, <1>1, <1>3 DEF SourceQuality
  <2>4. QED
    BY <1>3, <2>1, <2>2, <2>3
<1>6. InTurn(found)
  <2>1. found \in Seq(Offered)
    <3>1. found = [i \in 1..N |-> found[i]]
      BY <1>3
    <3>2. N \in Nat /\ \A i \in 1..N : found[i] \in Offered
      BY <1>3, <1>5
    <3> HIDE DEF N
    <3>3. QED
      BY <3>1, <3>2
  <2>2. ASSUME NEW j \in 1..N, NEW k \in 1..N, j < k
        PROVE  SourceQuality(found[j].source) >= SourceQuality(found[k].source)
    <3>1. SourceQuality(found[j].source) = IF j <= n THEN 100 ELSE 65
      BY <1>5
    <3>2. SourceQuality(found[k].source) = IF k <= n THEN 100 ELSE 65
      BY <1>5
    <3>3. k <= n => j <= n
      BY <1>3, <2>2
    <3>4. QED
      BY <3>1, <3>2, <3>3
  <2>3. QED
    BY <1>3, <2>1, <2>2 DEF InTurn
<1>7. ToSet(R) \subseteq ToSet(found) /\ ToSet(S) \subseteq ToSet(found) /\ ToSet(G) \subseteq ToSet(found)
  <2>1. ASSUME NEW i \in 1..N PROVE found[i] \in ToSet(found)
    BY <1>3 DEF ToSet
  <2>2. /\ \A i \in 1..Len(R) : i \in 1..N
        /\ \A i \in 1..Len(S) : Len(R) + i \in 1..N
        /\ \A i \in 1..Len(G) : Len(R) + Len(S) + i \in 1..N
    BY <1>3
  <2> HIDE DEF N
  <2>3. /\ \A i \in DOMAIN R : R[i] \in ToSet(found)
        /\ \A i \in DOMAIN S : S[i] \in ToSet(found)
        /\ \A i \in DOMAIN G : G[i] \in ToSet(found)
    BY <1>3, <1>4, <2>1, <2>2
  <2>4. \A s, T : (\A i \in DOMAIN s : s[i] \in T) => ToSet(s) \subseteq T
    BY DEF ToSet
  <2>5. QED
    BY <2>3, <2>4
<1>8. QED
  <2>1. \A src \in Source : src \in {"mcp_registry", "service", "github"}
    BY DEF Source
  <2>2. QED
    BY <1>3, <1>6, <1>7, <2>1 DEF R, S, G, found

Normalized(r, sizes) ==
  LET found == Candidates(r)
      good == Keep(found, {i \in DOMAIN found : Accepted(found[i], sizes)})
      items == Deduplicate([i \in DOMAIN good |-> BestEffortItem(good[i])])
      ok == Keep(items, {i \in DOMAIN items : Approved(items[i])})
  IN  [r EXCEPT !.at = "get", !.rejected = ToSet(found) \ ToSet(good),
                !.queue = [i \in DOMAIN ok |-> [Evaluated(ok[i]) EXCEPT !.embedded = TRUE]]]

LEMMA NormalizeSound ==
  ASSUME NEW filed, NEW ever, NEW md, NEW r, Sound(r, filed, ever, md), r.at = "normalize", NEW sizes
  PROVE  Sound(Normalized(r, sizes), filed, ever, md)
<1> DEFINE found == Candidates(r)
           I == {i \in DOMAIN found : Accepted(found[i], sizes)}
           good == Keep(found, I)
           items == Deduplicate([i \in DOMAIN good |-> BestEffortItem(good[i])])
           J == {i \in DOMAIN items : Approved(items[i])}
           ok == Keep(items, J)
           queue == [i \in DOMAIN ok |-> Marked(ok[i])]
           rejected == ToSet(found) \ ToSet(good)
           new == [r EXCEPT !.at = "get", !.rejected = rejected, !.queue = queue]
<1>1. /\ r \in Search /\ GotSound(r) /\ r.stored = <<>> /\ r.live = "none"
  BY DEF Sound, LiveSound
<1>2. /\ InTurn(found) /\ found \in Seq(Offered) /\ found \in Seq(Candidate)
      /\ \A src \in Source : ToSet(r.got[src]) \subseteq ToSet(found)
  BY <1>1, CandidatesFacts DEF InTurn
<1>3. I \in SUBSET DOMAIN found /\ \A i \in I : Accepted(found[i], sizes)
  OBVIOUS
<1> HIDE DEF found, I
<1>4. /\ good \in Seq(Offered) /\ ToSet(good) = {found[i] : i \in I}
      /\ \A p, q \in DOMAIN good : p < q => \E i, j \in I : i < j /\ good[p] = found[i] /\ good[q] = found[j]
  BY <1>2, <1>3, KeepFacts
<1> HIDE DEF good
<1>5. InTurn(good)
  BY <1>2, <1>3, <1>4 DEF InTurn
<1>6. ASSUME NEW k \in 1..Len(good) PROVE good[k] \in Offered /\ good[k].item = "tool" /\ good[k] \in ToSet(good)
  <2>1. good[k] \in Offered /\ good[k] \in ToSet(good)
    BY <1>4 DEF ToSet
  <2>2. PICK i \in I : good[k] = found[i]
    BY <2>1, <1>4
  <2>3. Protocol(good[k]) = "mcp"
    BY <2>2, <1>3 DEF Accepted
  <2>4. QED
    BY <2>1, <2>3 DEF Protocol
<1>7. IsGrouping(items, good, Len(good))
  BY <1>5, DeduplicateFacts
<1> HIDE DEF items
<1>8. /\ items \in Seq(Item) /\ J \in SUBSET DOMAIN items
      /\ \A i \in DOMAIN items : \E k \in 1..Len(good) : Like(items[i], good[k])
      /\ \A k \in 1..Len(good) : \E i \in DOMAIN items : AtLeast(items[i], good[k])
  BY <1>7 DEF IsGrouping
<1>9. \A i \in DOMAIN items : i \in J <=> Approved(items[i])
  OBVIOUS
<1> HIDE DEF J
<1>10. ok \in Seq(Item) /\ ToSet(ok) = {items[i] : i \in J}
  BY <1>8, KeepFacts
<1> HIDE DEF ok
<1>11. ASSUME NEW i \in DOMAIN ok
       PROVE  /\ ok[i] \in ToSet(ok) /\ Marked(ok[i]) \in Item /\ Discovered(Marked(ok[i]))
              /\ DeduplicationKey(Marked(ok[i])) = DeduplicationKey(ok[i])
  <2>1. ok[i] \in ToSet(ok) /\ ok[i] \in Item
    BY <1>10 DEF ToSet
  <2>2. PICK j \in J : ok[i] = items[j]
    BY <2>1, <1>10
  <2>3. PICK k \in 1..Len(good) : Like(items[j], good[k])
    BY <1>8
  <2>4. Approved(items[j])
    BY <1>8, <1>9
  <2>5. QED
    BY <2>1, <2>2, <2>3, <2>4, <1>6, MarkedFacts
<1>12. queue \in Seq(Item) /\ ToSet(queue) = {Marked(ok[i]) : i \in DOMAIN ok}
  <2>1. Len(ok) \in Nat /\ DOMAIN ok = 1..Len(ok)
    BY <1>10
  <2>2. queue \in Seq(Item)
    BY <2>1, <1>11
  <2>3. DOMAIN queue = DOMAIN ok
    OBVIOUS
  <2>4. QED
    BY <2>2, <2>3 DEF ToSet
<1> HIDE DEF queue, rejected
<1>13. rejected \in SUBSET Candidate
  BY <1>2 DEF rejected, ToSet
<1>14. new \in Search
  BY <1>1, <1>12, <1>13 DEF Search, Stage
<1>15. /\ new.at = "get" /\ new.cached = r.cached /\ new.query = r.query /\ new.servable = r.servable
       /\ new.open = r.open /\ new.pending = r.pending /\ new.queue = queue /\ new.got = r.got
       /\ new.rejected = rejected /\ new.exists = r.exists /\ new.stored = <<>>
       /\ new.live = "none" /\ new.answer = r.answer
  BY <1>1 DEF Search
<1> HIDE DEF new
<1>16. Staged(new, md) /\ new.pending \subseteq Enabled /\ GotSound(new)
  BY <1>15 DEF Sound, Staged, Bounded, GotSound
<1>17. Covered(new, ToSet(<<>>) \cup ToSet(queue))
  <2>1. SUFFICES ASSUME NEW src \in Source, NEW c \in ToSet(r.got[src]) \ rejected, Approved(BestEffortItem(c))
                 PROVE  \E i \in ToSet(queue) : DeduplicationKey(BestEffortItem(c)) = DeduplicationKey(i)
    BY <1>15 DEF Covered
  <2>2. c \in ToSet(good)
    BY <1>2 DEF rejected
  <2>3. PICK k \in 1..Len(good) : good[k] = c
    <3>1. \E k \in DOMAIN good : good[k] = c
      BY <2>2, <1>4, Entries
    <3>2. QED
      BY <3>1, <1>4
  <2>4. PICK j \in DOMAIN items : AtLeast(items[j], c)
    BY <2>3, <1>8
  <2>5. Approved(items[j])
    <3>1. c \in Offered
      BY <2>3, <1>6
    <3>2. items[j] \in Item
      BY <2>4, <1>8
    <3>3. QED
      BY <2>1, <2>4, <3>1, <3>2, AtLeastApproved
  <2>6. PICK i \in DOMAIN ok : ok[i] = items[j]
    <3>1. items[j] \in ToSet(ok)
      BY <2>5, <1>9, <1>10
    <3>2. QED
      BY <3>1 DEF ToSet
  <2>7. Marked(ok[i]) \in ToSet(queue) /\ DeduplicationKey(Marked(ok[i])) = DeduplicationKey(items[j])
    BY <2>6, <1>11, <1>12
  <2>8. QED
    BY <2>4, <2>7 DEF AtLeast
<1>18. LiveSound(new, filed)
  <2>1. ToSet(<<>>) = {}
    BY DEF ToSet
  <2>2. \A item \in ToSet(queue) : Discovered(item)
    BY <1>11, <1>12
  <2>3. QED
    BY <2>1, <2>2, <1>15, <1>17 DEF LiveSound
<1>19. Sound(new, filed, ever, md)
  BY <1>14, <1>15, <1>16, <1>18, Onward
<1>20. QED
  BY <1>19 DEF found, I, good, items, J, ok, queue, rejected, new, Marked, Normalized
-----------------------------------------------------------------------------
(* The writes, the answer and its order.                                    *)

LEMMA GetSound ==
  ASSUME NEW filed, NEW ever, NEW md, NEW r, Sound(r, filed, ever, md), r.at = "get", r.queue # <<>>,
         NEW exists \in BOOLEAN, exists => r.queue[1].key \in filed
  PROVE  Sound([r EXCEPT !.at = "put", !.exists = exists], filed, ever, md)
<1> DEFINE new == [r EXCEPT !.at = "put", !.exists = exists]
<1>1. new \in Search
  BY DEF Sound, Search, Stage
<1>2. /\ new.at = "put" /\ new.cached = r.cached /\ new.query = r.query /\ new.servable = r.servable
      /\ new.open = r.open /\ new.pending = r.pending /\ new.got = r.got /\ new.queue = r.queue
      /\ new.rejected = r.rejected /\ new.exists = exists /\ new.stored = r.stored
      /\ new.live = r.live /\ new.answer = r.answer
  BY DEF Sound, Search
<1> HIDE DEF new
<1>3. Staged(new, md) /\ new.pending \subseteq Enabled /\ GotSound(new)
  BY <1>2 DEF Sound, Staged, Bounded, GotSound
<1>4. Covered(new, ToSet(new.stored) \cup ToSet(new.queue))
  BY <1>2 DEF Sound, LiveSound, Covered
<1>5. LiveSound(new, filed)
  BY <1>2, <1>4 DEF Sound, LiveSound
<1>6. QED
  BY <1>1, <1>2, <1>3, <1>5, Onward DEF new

LEMMA OutageSound ==
  ASSUME NEW filed, NEW ever, NEW md, NEW r, Sound(r, filed, ever, md), r.at \in {"get", "put"}
  PROVE  Sound([r EXCEPT !.at = "answer", !.live = "failed"], filed, ever, md)
<1> DEFINE new == [r EXCEPT !.at = "answer", !.live = "failed"]
<1>1. new \in Search
  BY DEF Sound, Search, Stage
<1>2. /\ new.at = "answer" /\ new.cached = r.cached /\ new.query = r.query /\ new.servable = r.servable
      /\ new.open = r.open /\ new.pending = r.pending /\ new.got = r.got /\ new.queue = r.queue
      /\ new.rejected = r.rejected /\ new.exists = r.exists /\ new.stored = r.stored
      /\ new.live = "failed" /\ new.answer = r.answer
  BY DEF Sound, Search
<1> HIDE DEF new
<1>3. Staged(new, md) /\ new.pending \subseteq Enabled /\ GotSound(new) /\ LiveSound(new, filed)
  BY <1>2 DEF Sound, Staged, Bounded, GotSound, LiveSound
<1>4. QED
  BY <1>1, <1>2, <1>3, Onward DEF new

LEMMA PutSound ==
  ASSUME NEW filed, NEW ever, NEW md, NEW r, Sound(r, filed, ever, md), r.at = "put",
         r.queue[1].key \in filed
  PROVE  Sound([r EXCEPT !.at = "get", !.queue = Tail(@), !.stored = Append(@, r.queue[1])],
               filed, ever, md)
<1> DEFINE item == r.queue[1]
           queue == Tail(r.queue)
           stored == Append(r.stored, item)
           new == [r EXCEPT !.at = "get", !.queue = queue, !.stored = stored]
<1>1. /\ r \in Search /\ r.queue \in Seq(Item) /\ r.stored \in Seq(Item) /\ r.queue # <<>>
  BY DEF Sound, Search, LiveSound
<1>2. /\ item \in Item /\ queue \in Seq(Item) /\ stored \in Seq(Item)
      /\ ToSet(r.queue) = {item} \cup ToSet(queue) /\ ToSet(stored) = ToSet(r.stored) \cup {item}
  <2>1. item \in Item /\ queue \in Seq(Item) /\ stored \in Seq(Item)
    BY <1>1
  <2>2. ToSet(stored) = ToSet(r.stored) \cup {item}
    <3>1. /\ DOMAIN stored = DOMAIN r.stored \cup {Len(r.stored) + 1} /\ stored[Len(r.stored) + 1] = item
          /\ \A i \in DOMAIN r.stored : stored[i] = r.stored[i]
      BY <1>1, <2>1
    <3> HIDE DEF stored, item
    <3>2. QED
      BY <3>1 DEF ToSet
  <2>3. ToSet(r.queue) = {item} \cup ToSet(queue)
    <3>1. /\ 1 \in DOMAIN r.queue /\ \A i \in DOMAIN queue : i + 1 \in DOMAIN r.queue /\ queue[i] = r.queue[i+1]
          /\ \A i \in DOMAIN r.queue : i # 1 => i - 1 \in DOMAIN queue /\ queue[i - 1] = r.queue[i]
      BY <1>1
    <3> HIDE DEF queue
    <3>2. QED
      BY <3>1 DEF ToSet
  <2>4. QED
    BY <2>1, <2>2, <2>3
<1>3. [r EXCEPT !.at = "get", !.queue = Tail(@), !.stored = Append(@, r.queue[1])] = new
  OBVIOUS
<1> HIDE DEF item, queue, stored
<1>4. new \in Search
  BY <1>1, <1>2 DEF Search, Stage
<1>5. /\ new.at = "get" /\ new.cached = r.cached /\ new.query = r.query /\ new.servable = r.servable
      /\ new.open = r.open /\ new.pending = r.pending /\ new.got = r.got /\ new.queue = queue
      /\ new.rejected = r.rejected /\ new.exists = r.exists /\ new.stored = stored
      /\ new.live = r.live /\ new.answer = r.answer
  BY <1>1 DEF Search
<1> HIDE DEF new
<1>6. Staged(new, md) /\ new.pending \subseteq Enabled /\ GotSound(new)
  BY <1>5 DEF Sound, Staged, Bounded, GotSound
<1>7. Covered(new, ToSet(stored) \cup ToSet(queue))
  <2>1. ToSet(stored) \cup ToSet(queue) = ToSet(r.stored) \cup ToSet(r.queue)
    BY <1>2
  <2>2. Covered(r, ToSet(r.stored) \cup ToSet(r.queue))
    BY DEF Sound, LiveSound
  <2>3. QED
    BY <1>5, <2>1, <2>2 DEF Covered
<1>8. LiveSound(new, filed)
  <2>1. \A x \in ToSet(queue) \cup ToSet(stored) : Discovered(x)
    BY <1>2 DEF Sound, LiveSound
  <2>2. \A x \in ToSet(stored) : x.key \in filed
    BY <1>2 DEF Sound, LiveSound, item
  <2>3. r.live = "none"
    BY DEF Sound, LiveSound
  <2>4. QED
    BY <1>5, <1>7, <2>1, <2>2, <2>3 DEF LiveSound
<1>9. QED
  BY <1>3, <1>4, <1>5, <1>6, <1>8, Onward

LEMMA LiveFacts ==
  ASSUME NEW filed, NEW ever, NEW md, NEW r, Sound(r, filed, ever, md), NEW item \in ToSet(Live(r))
  PROVE  /\ item \in Item /\ Discovered(item) /\ item.key \in filed /\ item.key \in Keys(Live(r))
         /\ item \in ToSet(r.stored)
<1>1. r.stored \in Seq(Item) /\ Live(r) \in {<<>>, r.stored}
  BY DEF Sound, Search, Live
<1>2. Live(r) = r.stored
  <2>1. ToSet(<<>>) = {}
    BY DEF ToSet
  <2>2. QED
    BY <1>1, <2>1
<1>3. item \in Item /\ item.key \in Keys(Live(r))
  BY <1>1, <1>2 DEF ToSet, Keys
<1>4. QED
  BY <1>2, <1>3 DEF Sound, LiveSound

\* Rows of the catalog and discovered items agree about what an identity stands for.
LEMMA AnswerConsistent ==
  ASSUME NEW filed, NEW ever, NEW md, NEW r, Sound(r, filed, ever, md)
  PROVE  Consistent(Verified(r) \o Live(r))
<1> DEFINE V == Verified(r)
           L == Live(r)
           all == V \o L
<1>1. V \in Seq(Item) /\ L \in Seq(Item) /\ all \in Seq(Item)
  <2>1. r \in Search
    BY DEF Sound
  <2>2. V \in Seq(Item)
    BY <2>1, VerifiedFacts
  <2>3. L \in Seq(Item)
    BY <2>1 DEF Search, Live
  <2> HIDE DEF V, L
  <2>4. QED
    BY <2>2, <2>3
<1>2. ASSUME NEW x \in Item, NEW y \in Item, Genuine(x), Discovered(y), x.key = y.key
      PROVE  x.type = y.type /\ RepoIdentities(x) = RepoIdentities(y)
  BY <1>2 DEF Genuine, Discovered
<1>3. ASSUME NEW i \in DOMAIN all
      PROVE  \/ all[i] \in ToSet(V) /\ Genuine(all[i])
             \/ all[i] \in ToSet(L) /\ Discovered(all[i]) /\ Genuine(all[i])
  <2>1. all[i] \in ToSet(V) \/ all[i] \in ToSet(L)
    <3>1. CASE i <= Len(V)
      <4>1. i \in DOMAIN V /\ all[i] = V[i]
        BY <3>1, <1>1
      <4>2. QED
        BY <4>1 DEF ToSet
    <3>2. CASE i > Len(V)
      <4>1. i - Len(V) \in DOMAIN L /\ all[i] = L[i - Len(V)]
        BY <3>2, <1>1
      <4>2. QED
        BY <4>1 DEF ToSet
    <3>3. QED
      BY <3>1, <3>2, <1>1
  <2>2. all[i] \in ToSet(V) => Genuine(all[i])
    BY ShownVerified DEF Sound
  <2>3. all[i] \in ToSet(L) => Discovered(all[i]) /\ Genuine(all[i])
    BY LiveFacts DEF Discovered
  <2>4. QED
    BY <2>1, <2>2, <2>3
<1>4. ASSUME NEW x \in ToSet(V), NEW y \in ToSet(V), x.key = y.key
      PROVE  x = y
  <2>1. PICK i \in DOMAIN r.cached : x = r.cached[i]
    BY VerifiedFacts DEF Sound
  <2>2. PICK j \in DOMAIN r.cached : y = r.cached[j]
    BY VerifiedFacts DEF Sound
  <2>3. QED
    BY <1>4, <2>1, <2>2 DEF Sound, CachedSound
<1> HIDE DEF V, L, all
<1>5. \A i \in DOMAIN all : all[i] \in Item
  BY <1>1
<1>6. ASSUME NEW i \in DOMAIN all, NEW j \in DOMAIN all, all[i].key = all[j].key
      PROVE  all[i].type = all[j].type /\ RepoIdentities(all[i]) = RepoIdentities(all[j])
  <2>1. CASE Discovered(all[i]) \/ Discovered(all[j])
    BY <2>1, <1>2, <1>3, <1>5, <1>6
  <2>2. CASE all[i] \in ToSet(V) /\ all[j] \in ToSet(V)
    BY <2>2, <1>4, <1>6
  <2>3. QED
    BY <2>1, <2>2, <1>3
<1>7. QED
  BY <1>1, <1>6 DEF Consistent, V, L, all

LEMMA AnswerStepSound ==
  ASSUME NEW filed, NEW ever, NEW md \in {"cached", "mixed"}, NEW r, Sound(r, filed, ever, md),
         r.at = "answer" \/ (r.at = "get" /\ r.queue = <<>>)
  PROVE  Sound([r EXCEPT !.at = "present", !.live = IF Live(r) = <<>> THEN "failed" ELSE "ok",
                         !.answer = RankCatalogItems(MergeItems(Verified(r), Live(r)), r.query.want, Cap(r))],
               filed, ever, md)
<1> DEFINE V == Verified(r)
           L == Live(r)
           rows == MergeItems(V, L)
           answer == RankCatalogItems(rows, r.query.want, Cap(r))
           live == IF L = <<>> THEN "failed" ELSE "ok"
           new == [r EXCEPT !.at = "present", !.live = live, !.answer = answer]
<1>1. /\ r \in Search /\ V \in Seq(Item) /\ L \in Seq(Item) /\ md = "mixed" /\ r.query.want \in {"all", "tool", "agent"}
      /\ Cap(r) \in Nat \ {0}
  <2>1. r \in Search
    BY DEF Sound
  <2>2. V \in Seq(Item) /\ Cap(r) \in Nat \ {0} /\ r.query.want \in {"all", "tool", "agent"}
    BY <2>1, VerifiedFacts, LimitsTyped
  <2>3. L \in Seq(Item)
    BY <2>1 DEF Search, Live
  <2>4. md = "mixed"
    BY DEF Sound, Staged
  <2>5. QED
    BY <2>1, <2>2, <2>3, <2>4
<1>2. Consistent(V \o L)
  BY AnswerConsistent
<1> HIDE DEF V, L
<1>3. /\ rows \in Seq(Item) /\ Disjoint(rows) /\ ToSet(rows) \subseteq ToSet(V) \cup ToSet(L)
      /\ V # <<>> => rows # <<>> /\ rows[1].key = V[1].key /\ rows[1].type = V[1].type
  BY <1>1, <1>2, MergeFacts
<1> HIDE DEF rows
<1>4. /\ answer \in Seq(Item) /\ Len(answer) <= Cap(r) /\ Thinned(answer, rows)
      /\ (\E i \in DOMAIN rows : r.query.want \in {"all", rows[i].type}) => answer # <<>>
  BY <1>1, <1>3, RankCatalogFacts
<1>5. V # <<>> => answer # <<>>
  <2>1. SUFFICES ASSUME V # <<>> PROVE \E i \in DOMAIN rows : r.query.want \in {"all", rows[i].type}
    BY <1>4
  <2>2. V[1] \in ToSet(V)
    BY <1>1, <2>1, FirstEntry
  <2>3. r.query.want \in {"all", V[1].type}
    BY <2>2, <1>1, ShownVerified DEF Sound, V
  <2>4. 1 \in DOMAIN rows
    BY <1>3, <2>1, FirstEntry
  <2>5. QED
    BY <1>3, <2>1, <2>3, <2>4
<1> HIDE DEF answer, live
<1>6. ToSet(answer) \subseteq ToSet(V) \cup ToSet(L)
  BY <1>3, <1>4 DEF Thinned
<1>7. Disjoint(answer)
  BY <1>3, <1>4 DEF Thinned, Disjoint
<1>8. live \in {"failed", "ok"} /\ (live = "failed" <=> L = <<>>)
  BY DEF live
<1>9. new \in Search
  BY <1>1, <1>4, <1>8 DEF Search, Stage
<1>10. /\ new.at = "present" /\ new.cached = r.cached /\ new.query = r.query /\ new.servable = r.servable
       /\ new.open = r.open /\ new.pending = r.pending /\ new.got = r.got /\ new.queue = r.queue
       /\ new.rejected = r.rejected /\ new.exists = r.exists /\ new.stored = r.stored
       /\ new.live = live /\ new.answer = answer /\ new.early = r.early
  BY <1>1 DEF Search
<1> HIDE DEF new
<1>11. Verified(new) = V /\ Live(new) = L /\ Cap(new) = Cap(r)
  <2>1. Live(new) = L
    BY <1>8, <1>10 DEF Live, L
  <2>2. QED
    BY <1>10, <2>1 DEF Verified, V, Cap
<1>12. Staged(new, md) /\ Bounded(new, md) /\ CachedSound(new, filed, ever) /\ GotSound(new)
  <2>1. Staged(new, md)
    BY <1>1, <1>10 DEF Sound, Staged
  <2>2. Bounded(new, md)
    BY <1>1, <1>4, <1>10, <1>11 DEF Sound, Bounded
  <2>3. QED
    BY <1>10, <2>1, <2>2 DEF Sound, CachedSound, GotSound
<1>13. LiveSound(new, filed)
  <2>1. live = "ok" => Covered(new, ToSet(r.stored))
    <3>1. SUFFICES ASSUME live = "ok" PROVE Covered(new, ToSet(r.stored))
      OBVIOUS
    <3>2. r.at = "get" /\ r.queue = <<>>
      BY <3>1, <1>8 DEF Sound, LiveSound, Live, L
    <3>3. ToSet(r.stored) \cup ToSet(r.queue) = ToSet(r.stored)
      BY <3>2 DEF ToSet
    <3>4. Covered(r, ToSet(r.stored))
      BY <3>2, <3>3 DEF Sound, LiveSound
    <3>5. QED
      BY <1>10, <3>4 DEF Covered
  <2>2. QED
    BY <1>10, <2>1 DEF Sound, LiveSound
<1>14. AnswerSound(new, filed, ever, md)
  <2>1. ASSUME NEW item \in ToSet(answer) PROVE Shown(new, item, filed, ever)
    <3>1. CASE item \in ToSet(V)
      BY <3>1, <1>9, <1>11, <1>12, ShownVerified
    <3>2. CASE item \in ToSet(L)
      <4>1. item.key \in filed /\ item.key \in Keys(L)
        BY <3>2, LiveFacts DEF L
      <4>2. QED
        BY <4>1, <1>11 DEF Shown
    <3>3. QED
      BY <3>1, <3>2, <1>6
  <2>2. L = <<>> => ToSet(answer) \subseteq ToSet(V)
    BY <1>6 DEF ToSet
  <2>3. QED
    BY <1>5, <1>7, <1>10, <1>11, <2>1, <2>2 DEF AnswerSound
<1>15. QED
  BY <1>9, <1>12, <1>13, <1>14 DEF Sound, V, L, rows, answer, live, new

LEMMA PresentSound ==
  ASSUME NEW filed, NEW ever, NEW md, NEW r, Sound(r, filed, ever, md), r.at = "present", NEW of
  PROVE  Sound([r EXCEPT !.at = "done", !.answer = OrderByTier(@, of)], filed, ever, md)
<1> DEFINE answer == OrderByTier(r.answer, of)
           new == [r EXCEPT !.at = "done", !.answer = answer]
<1>1. r \in Search /\ r.answer \in Seq(Item)
  BY DEF Sound, Search
<1>2. /\ answer \in Seq(Item) /\ Thinned(answer, r.answer) /\ Len(answer) = Len(r.answer)
      /\ r.answer # <<>> => answer # <<>>
  BY <1>1, OrderFacts
<1>3. [r EXCEPT !.at = "done", !.answer = OrderByTier(@, of)] = new
  OBVIOUS
<1> HIDE DEF answer
<1>4. new \in Search
  BY <1>1, <1>2 DEF Search, Stage
<1>5. /\ new.at = "done" /\ new.cached = r.cached /\ new.query = r.query /\ new.servable = r.servable
      /\ new.open = r.open /\ new.pending = r.pending /\ new.got = r.got /\ new.queue = r.queue
      /\ new.rejected = r.rejected /\ new.exists = r.exists /\ new.stored = r.stored
      /\ new.live = r.live /\ new.answer = answer /\ new.early = r.early
  BY <1>1 DEF Search
<1> HIDE DEF new
<1>6. Verified(new) = Verified(r) /\ Live(new) = Live(r) /\ Cap(new) = Cap(r)
  BY <1>5 DEF Verified, Live, Cap
<1>7. Staged(new, md) /\ Bounded(new, md) /\ CachedSound(new, filed, ever) /\ GotSound(new)
  <2>1. Staged(new, md)
    BY <1>5 DEF Sound, Staged
  <2>2. Bounded(new, md)
    BY <1>2, <1>5, <1>6 DEF Sound, Bounded
  <2>3. QED
    BY <1>5, <2>1, <2>2 DEF Sound, CachedSound, GotSound
<1>8. LiveSound(new, filed)
  <2>1. r.live = "ok" => Covered(new, ToSet(r.stored))
    BY <1>5 DEF Sound, LiveSound, Covered
  <2>2. QED
    BY <1>5, <2>1 DEF Sound, LiveSound
<1>9. AnswerSound(new, filed, ever, md)
  <2>1. \A item \in ToSet(answer) : Shown(new, item, filed, ever)
    BY <1>2, <1>5, <1>6 DEF Sound, AnswerSound, Shown, Thinned
  <2>2. Disjoint(r.answer) => Disjoint(answer)
    <3>1. SUFFICES ASSUME Disjoint(r.answer), NEW p \in DOMAIN answer, NEW q \in DOMAIN answer, p # q
                   PROVE  RepoIdentities(answer[p]) \cap RepoIdentities(answer[q]) = {}
      BY DEF Disjoint
    <3>2. PICK i, j \in DOMAIN r.answer : i # j /\ answer[p] = r.answer[i] /\ answer[q] = r.answer[j]
      BY <1>2, <3>1 DEF Thinned
    <3>3. RepoIdentities(r.answer[i]) \cap RepoIdentities(r.answer[j]) = {}
      BY <3>1, <3>2 DEF Disjoint
    <3>4. QED
      BY <3>2, <3>3
  <2>3. ToSet(answer) \subseteq ToSet(r.answer)
    BY <1>2 DEF Thinned
  <2>4. QED
    BY <1>2, <1>5, <1>6, <2>1, <2>2, <2>3 DEF Sound, AnswerSound
<1>10. QED
  BY <1>3, <1>4, <1>7, <1>8, <1>9 DEF Sound
-----------------------------------------------------------------------------
(* From steps of one search to steps of the system.                         *)

LEMMA InitSound ==
  Init => IInv
<1> SUFFICES ASSUME Init PROVE IInv
  OBVIOUS
<1>1. /\ catalog \in Catalogs /\ mode \in {"cached", "mixed"} /\ badged \in SUBSET Repo
      /\ everBadged = badged /\ pruned = {} /\ search = [s \in Searcher |-> Idle]
  BY DEF Init
<1>2. StoreSound
  <2>1. \A key \in DOMAIN catalog : Genuine(catalog[key])
    BY <1>1, CatalogsAssumption DEF Genuine
  <2>2. /\ IsFiniteSet(DOMAIN catalog)
        /\ \A key \in DOMAIN catalog : key \in Key /\ catalog[key] \in Item /\ catalog[key].key = key
    BY <1>1, CatalogsAssumption
  <2>3. QED
    BY <1>1, <2>1, <2>2 DEF StoreSound
<1>3. \A s \in Searcher : Sound(search[s], Filed, everBadged, mode)
  BY <1>1, IdleSound
<1>4. search = [s \in Searcher |-> search[s]]
  BY <1>1
<1>5. QED
  BY <1>2, <1>3, <1>4 DEF IInv

\* A step changes one search; for the others, what was filed and what had a badge
\* only becomes more.
LEMMA OneMoves ==
  ASSUME IInv, StoreSound', mode' = mode, Filed \subseteq Filed', everBadged \subseteq everBadged',
         NEW s \in Searcher, search' = [search EXCEPT ![s] = search'[s]],
         Sound(search'[s], Filed', everBadged', mode')
  PROVE  IInv'
<1>1. ASSUME NEW t \in Searcher PROVE Sound(search'[t], Filed', everBadged', mode')
  <2>1. CASE t = s
    BY <2>1
  <2>2. CASE t # s
    <3>1. search'[t] = search[t]
      BY <2>2 DEF IInv
    <3>2. Sound(search[t], Filed, everBadged, mode)
      BY DEF IInv
    <3>3. Sound(search[t], Filed', everBadged', mode)
      BY <3>2, SoundGrows
    <3>4. QED
      BY <3>1, <3>3
  <2>3. QED
    BY <2>1, <2>2
<1>2. search' = [t \in Searcher |-> search'[t]]
  BY DEF IInv
<1>3. QED
  BY <1>1, <1>2 DEF IInv

LEMMA NoneMoves ==
  ASSUME IInv, StoreSound', mode' = mode, Filed \subseteq Filed', everBadged \subseteq everBadged',
         search' = search
  PROVE  IInv'
<1>1. ASSUME NEW t \in Searcher PROVE Sound(search'[t], Filed', everBadged', mode')
  <2>1. Sound(search[t], Filed, everBadged, mode)
    BY DEF IInv
  <2>2. Sound(search[t], Filed', everBadged', mode)
    BY <2>1, SoundGrows
  <2>3. QED
    BY <2>2
<1>2. QED
  BY <1>1 DEF IInv

\* Most steps of a search leave everything else alone.
LEMMA StaysSound ==
  ASSUME IInv, UNCHANGED <<mode, catalog, env>>, NEW s \in Searcher,
         search' = [search EXCEPT ![s] = search'[s]],
         Sound(search'[s], Filed, everBadged, mode)
  PROVE  IInv'
<1>1. StoreSound' /\ mode' = mode /\ Filed' = Filed /\ everBadged' = everBadged
  BY DEF IInv, StoreSound, env, Filed
<1>2. QED
  BY <1>1, OneMoves

LEMMA AskKeeps ==
  ASSUME IInv, NEW s \in Searcher, NEW q \in Query, Ask(s, q)
  PROVE  IInv'
<1> DEFINE new == [Idle EXCEPT !.at = "lookup", !.query = q]
<1>1. search' = [search EXCEPT ![s] = new] /\ UNCHANGED <<mode, catalog, env>>
  BY DEF Ask, Becomes
<1>2. Sound(new, Filed, everBadged, mode)
  BY IdleSound
<1> HIDE DEF new
<1>3. search'[s] = new
  BY <1>1 DEF IInv
<1>4. QED
  BY <1>1, <1>2, <1>3, StaysSound

LEMMA LeaveKeeps ==
  ASSUME IInv, NEW s \in Searcher, Leave(s)
  PROVE  IInv'
<1>1. search' = [search EXCEPT ![s] = Idle] /\ UNCHANGED <<mode, catalog, env>>
  BY DEF Leave, Becomes
<1>2. search'[s] = Idle
  BY <1>1 DEF IInv
<1>3. Sound(Idle, Filed, everBadged, mode)
  BY IdleSound
<1>4. QED
  BY <1>1, <1>2, <1>3, StaysSound

LEMMA MatchingFacts ==
  ASSUME IInv, NEW q, NEW rows \in SUBSET Matching(q)
  PROVE  /\ rows \in SUBSET Item /\ IsFiniteSet(rows)
         /\ \A item \in rows : item.key \in Filed /\ Genuine(item) /\ q.want \in {"all", item.type}
         /\ \A x, y \in rows : x.key = y.key => x = y
<1>1. \A item \in rows : \E key \in DOMAIN catalog : item = catalog[key] /\ q.want \in {"all", catalog[key].type}
  BY DEF Matching
<1>2. \A key \in DOMAIN catalog : catalog[key] \in Item /\ catalog[key].key = key /\ Genuine(catalog[key])
  BY DEF IInv, StoreSound
<1>3. IsFiniteSet(rows)
  <2> DEFINE image == {catalog[key] : key \in DOMAIN catalog}
  <2>1. IsFiniteSet(DOMAIN catalog)
    BY DEF IInv, StoreSound
  <2>2. IsFiniteSet(image)
    <3> DEFINE f == [key \in DOMAIN catalog |-> catalog[key]]
    <3>1. f \in Surjection(DOMAIN catalog, image)
      BY DEF Surjection
    <3> HIDE DEF f, image
    <3>2. QED
      BY <2>1, <3>1, FS_Surjection
  <2>3. rows \in SUBSET image
    BY <1>1
  <2> HIDE DEF image
  <2>4. QED
    BY <2>2, <2>3, FS_Subset
<1>4. QED
  BY <1>1, <1>2, <1>3 DEF Filed

LEMMA LookupKeeps ==
  ASSUME IInv, NEW s \in Searcher, Lookup(s)
  PROVE  IInv'
<1> DEFINE r == search[s]
           limit == IF mode = "cached" THEN LimitOr(r.query, PerSource) ELSE CandidateLimit
<1>1. PICK rows \in SUBSET Matching(r.query) :
        /\ search' = [search EXCEPT ![s] = [r EXCEPT !.at = "gate",
                        !.cached = RankCatalogItems(SetToSeq(rows), "all", limit)]]
        /\ catalog' = [k \in DOMAIN catalog |->
             IF catalog[k] \in rows THEN [catalog[k] EXCEPT !.embedded = TRUE] ELSE catalog[k]]
  BY DEF Lookup, Becomes
<1>2. r.at = "lookup" /\ UNCHANGED <<mode, env>>
  BY DEF Lookup
<1> DEFINE new == [r EXCEPT !.at = "gate", !.cached = RankCatalogItems(SetToSeq(rows), "all", limit)]
<1>3. Sound(r, Filed, everBadged, mode)
  BY DEF IInv
<1>4. limit \in Nat /\ (mode = "cached" => limit <= LimitOr(r.query, PerSource))
  <2>1. LimitOr(r.query, PerSource) \in Nat /\ CandidateLimit \in Nat
    BY <1>3, LimitsTyped, SearchAssumption DEF Sound
  <2>2. QED
    BY <2>1
<1>5. /\ rows \in SUBSET Item /\ IsFiniteSet(rows)
      /\ \A item \in rows : item.key \in Filed /\ Genuine(item) /\ r.query.want \in {"all", item.type}
      /\ \A x, y \in rows : x.key = y.key => x = y
  BY MatchingFacts
<1>6. search' = [search EXCEPT ![s] = new]
  BY <1>1
<1> HIDE DEF r, limit
<1>7. Sound(new, Filed, everBadged, mode)
  BY <1>2, <1>3, <1>4, <1>5, LookupSound
<1> HIDE DEF new
<1>8. search'[s] = new
  BY <1>6 DEF IInv
<1>9. DOMAIN catalog' = DOMAIN catalog /\ Filed' = Filed
  BY <1>1, <1>2 DEF Filed, env
<1>10. ASSUME NEW key \in DOMAIN catalog
       PROVE  catalog'[key] \in Item /\ catalog'[key].key = key /\ Genuine(catalog'[key])
  <2> DEFINE old == catalog[key]
             marked == [old EXCEPT !.embedded = TRUE]
  <2>1. old \in Item /\ old.key = key /\ Genuine(old)
    BY DEF IInv, StoreSound
  <2>2. marked \in Item /\ marked.key = key /\ marked.type = old.type /\ marked.urls = old.urls
    BY <2>1 DEF Item
  <2>3. catalog'[key] \in {old, marked}
    BY <1>1
  <2> HIDE DEF old, marked
  <2>4. Genuine(marked)
    BY <2>1, <2>2 DEF Genuine, RepoIdentities
  <2>5. QED
    BY <2>1, <2>2, <2>3, <2>4
<1>11. StoreSound'
  BY <1>2, <1>9, <1>10 DEF IInv, StoreSound, env
<1>12. QED
  BY <1>2, <1>6, <1>7, <1>8, <1>9, <1>11, OneMoves DEF env

LEMMA LookupFailsKeeps ==
  ASSUME IInv, NEW s \in Searcher, LookupFails(s)
  PROVE  IInv'
<1> DEFINE new == [search[s] EXCEPT !.at = "error"]
<1>1. search[s].at = "lookup" /\ search' = [search EXCEPT ![s] = new] /\ UNCHANGED <<mode, catalog, env>>
  BY DEF LookupFails, Becomes
<1>2. Sound(new, Filed, everBadged, mode)
  BY <1>1, ErrorSound DEF IInv
<1> HIDE DEF new
<1>3. search'[s] = new
  BY <1>1 DEF IInv
<1>4. QED
  BY <1>1, <1>2, <1>3, StaysSound

LEMMA GateKeeps ==
  ASSUME IInv, NEW s \in Searcher, Gate(s) \/ GateFails(s)
  PROVE  IInv'
<1> DEFINE r == search[s]
           some == Allowed(r, badged)
           read == [r EXCEPT !.servable = some]
           open == [r EXCEPT !.servable = Keys(r.cached), !.open = TRUE]
<1>1. /\ r.at = "gate" /\ UNCHANGED <<mode, catalog, env>>
      /\ \/ search' = [search EXCEPT ![s] = Gated(read)]
         \/ search' = [search EXCEPT ![s] = Gated(open)]
  BY DEF Gate, GateFails, Becomes, Allowed
<1>2. Sound(r, Filed, everBadged, mode) /\ badged \subseteq everBadged /\ mode \in {"cached", "mixed"}
  BY DEF IInv, StoreSound
<1>3. Sound(GatedIn(read, mode), Filed, everBadged, mode) /\ Sound(GatedIn(open, mode), Filed, everBadged, mode)
  BY <1>1, <1>2, GateSound
<1> HIDE DEF r, some, read, open
<1>4. Gated(read) = GatedIn(read, mode) /\ Gated(open) = GatedIn(open, mode)
  BY DEF Gated, GatedIn
<1>5. /\ search' = [search EXCEPT ![s] = search'[s]]
      /\ search'[s] \in {Gated(read), Gated(open)}
  BY <1>1 DEF IInv
<1>6. Sound(search'[s], Filed, everBadged, mode)
  BY <1>3, <1>4, <1>5
<1>7. QED
  BY <1>1, <1>5, <1>6, StaysSound

LEMMA SourceKeeps ==
  ASSUME IInv, NEW s \in Searcher, NEW src \in Source, SourceAnswers(s, src) \/ SourceFails(s, src)
  PROVE  IInv'
<1> DEFINE r == search[s]
           After(q) == [q EXCEPT !.pending = @ \ {src}, !.at = IF src = "github" THEN "normalize" ELSE @]
           page == IF src = "github"
                   THEN LET gap == Shortfall(r) - HowMany(r) IN IF gap < 1 THEN 1 ELSE gap
                   ELSE LimitOr(r.query, PerSource)
           first == Truncate(Offers[src], page)
           hits == Keep(first, {i \in DOMAIN first : ~Excluded(first[i])})
           answered == [r EXCEPT !.got[src] = hits]
           failed == [r EXCEPT !.failed = @ \cup {src}]
<1>1. /\ src \in r.pending /\ UNCHANGED <<mode, catalog, env>>
      /\ search' = [search EXCEPT ![s] = After(answered)] \/ search' = [search EXCEPT ![s] = After(failed)]
  BY DEF SourceAnswers, SourceFails, Settles, Becomes
<1>2. Sound(r, Filed, everBadged, mode) /\ r \in Search
  BY DEF IInv, Sound
<1>3. page \in Nat
  <2>1. LimitOr(r.query, PerSource) \in Nat /\ Cap(r) \in Nat
    BY <1>2, LimitsTyped
  <2>2. Len(Verified(r)) \in Nat
    BY <1>2, VerifiedFacts
  <2>3. HowMany(r) \in Nat
    BY <1>2, HowManyTyped
  <2>4. Shortfall(r) \in Int
    BY <2>1, <2>2 DEF Shortfall
  <2>5. QED
    BY <2>1, <2>3, <2>4
<1> HIDE DEF r, page
<1>4. Sound(answered, Filed, everBadged, mode) /\ src \in answered.pending
  BY <1>1, <1>2, <1>3, AnsweredSound
<1>5. Sound(failed, Filed, everBadged, mode) /\ src \in failed.pending
  BY <1>1, <1>2, FailedSound
<1> HIDE DEF answered, failed
<1>6. Sound(After(answered), Filed, everBadged, mode) /\ Sound(After(failed), Filed, everBadged, mode)
  BY <1>4, <1>5, SettledSound
<1> HIDE DEF After
<1>7. /\ search' = [search EXCEPT ![s] = search'[s]]
      /\ search'[s] \in {After(answered), After(failed)}
  BY <1>1 DEF IInv
<1>8. Sound(search'[s], Filed, everBadged, mode)
  BY <1>6, <1>7
<1>9. QED
  BY <1>1, <1>7, <1>8, StaysSound

LEMMA CascadeKeeps ==
  ASSUME IInv, NEW s \in Searcher, Cascade(s)
  PROVE  IInv'
<1> DEFINE r == search[s]
           on == [r EXCEPT !.at = "normalize"]
           github == [r EXCEPT !.at = "github", !.pending = {"github"}]
<1>1. /\ r.at = "sources" /\ r.pending = {} /\ UNCHANGED <<mode, catalog, env>>
      /\ \/ search' = [search EXCEPT ![s] = on]
         \/ "github" \in Enabled /\ search' = [search EXCEPT ![s] = github]
  BY DEF Cascade, Becomes
<1>2. /\ Sound(on, Filed, everBadged, mode)
      /\ "github" \in Enabled => Sound(github, Filed, everBadged, mode)
  BY <1>1, CascadeSound DEF IInv
<1> HIDE DEF r, on, github
<1>3. /\ search' = [search EXCEPT ![s] = search'[s]]
      /\ search'[s] = on \/ ("github" \in Enabled /\ search'[s] = github)
  BY <1>1 DEF IInv
<1>4. Sound(search'[s], Filed, everBadged, mode)
  BY <1>2, <1>3
<1>5. QED
  BY <1>1, <1>3, <1>4, StaysSound

LEMMA NormalizeKeeps ==
  ASSUME IInv, NEW s \in Searcher, NEW blind \in BOOLEAN, Normalize(s, blind)
  PROVE  IInv'
<1> DEFINE r == search[s]
           sizes == IF blind THEN [p \in DOMAIN Footprint |-> "unknown"] ELSE Footprint
           new == Normalized(r, sizes)
<1>1. r.at = "normalize" /\ search' = [search EXCEPT ![s] = new] /\ UNCHANGED <<mode, catalog, env>>
  BY DEF Normalize, Becomes, Normalized
<1>2. Sound(r, Filed, everBadged, mode)
  BY DEF IInv
<1> HIDE DEF r, sizes
<1>3. Sound(new, Filed, everBadged, mode)
  BY <1>1, <1>2, NormalizeSound
<1> HIDE DEF new
<1>4. search'[s] = new
  BY <1>1 DEF IInv
<1>5. QED
  BY <1>1, <1>3, <1>4, StaysSound

LEMMA UpsertGetKeeps ==
  ASSUME IInv, NEW s \in Searcher, UpsertGet(s)
  PROVE  IInv'
<1> DEFINE r == search[s]
           exists == r.queue[1].key \in DOMAIN catalog
           new == [r EXCEPT !.at = "put", !.exists = exists]
<1>1. /\ r.at = "get" /\ r.queue # <<>> /\ UNCHANGED <<mode, catalog, env>>
      /\ search' = [search EXCEPT ![s] = new]
  BY DEF UpsertGet, Becomes
<1>2. Sound(r, Filed, everBadged, mode)
  BY DEF IInv
<1>3. exists \in BOOLEAN /\ (exists => r.queue[1].key \in Filed)
  BY DEF Filed
<1> HIDE DEF r, exists
<1>4. Sound(new, Filed, everBadged, mode)
  BY <1>1, <1>2, <1>3, GetSound
<1> HIDE DEF new
<1>5. search'[s] = new
  BY <1>1 DEF IInv
<1>6. QED
  BY <1>1, <1>4, <1>5, StaysSound

LEMMA OutageKeeps ==
  ASSUME IInv, NEW s \in Searcher, search[s].at \in {"get", "put"}, Outage(s),
         UNCHANGED <<mode, catalog, env>>
  PROVE  IInv'
<1> DEFINE new == [search[s] EXCEPT !.at = "answer", !.live = "failed"]
<1>1. search' = [search EXCEPT ![s] = new]
  BY DEF Outage, Becomes
<1>2. Sound(new, Filed, everBadged, mode)
  BY OutageSound DEF IInv
<1> HIDE DEF new
<1>3. search'[s] = new
  BY <1>1 DEF IInv
<1>4. QED
  BY <1>1, <1>2, <1>3, StaysSound

LEMMA UpsertPutKeeps ==
  ASSUME IInv, NEW s \in Searcher, UpsertPut(s)
  PROVE  IInv'
<1> DEFINE r == search[s]
           item == r.queue[1]
           there == item.key \in DOMAIN catalog
           new == [r EXCEPT !.at = "get", !.queue = Tail(@), !.stored = Append(@, item)]
<1>1. r.at = "put" /\ UNCHANGED <<mode, env>>
  BY DEF UpsertPut
<1>2. Sound(r, Filed, everBadged, mode) /\ r \in Search /\ StoreSound
  BY DEF IInv, Sound
<1>3. CASE ~r.exists /\ there
  BY <1>1, <1>3, OutageKeeps DEF UpsertPut
<1>4. CASE ~(~r.exists /\ there)
  <2>1. /\ search' = [search EXCEPT ![s] = new]
        /\ catalog' = IF r.exists = there
                      THEN [k \in DOMAIN catalog \cup {item.key} |-> IF k = item.key THEN item ELSE catalog[k]]
                      ELSE catalog
    BY <1>4 DEF UpsertPut, Becomes
  <2>2. item \in Item /\ Genuine(item) /\ item.key \in Key
    <3>1. r.queue \in Seq(Item) /\ r.queue # <<>> /\ \A x \in ToSet(r.queue) : Discovered(x)
      BY <1>1, <1>2 DEF Sound, LiveSound, Search
    <3>2. item \in Item /\ item \in ToSet(r.queue)
      BY <3>1, FirstEntry
    <3>3. QED
      BY <3>1, <3>2 DEF Discovered, Item
  <2>3. r.exists => item.key \in Filed
    BY <1>1, <1>2 DEF Sound, LiveSound
  <2>4. r.exists \in BOOLEAN
    BY <1>2 DEF Search
  <2> HIDE DEF r, item
  <2>5. StoreSound' /\ Filed \subseteq Filed' /\ item.key \in Filed'
    <3>1. CASE r.exists = there
      <4>1. catalog' = [k \in DOMAIN catalog \cup {item.key} |-> IF k = item.key THEN item ELSE catalog[k]]
        BY <2>1, <3>1
      <4>2. DOMAIN catalog' = DOMAIN catalog \cup {item.key}
        BY <4>1
      <4>3. IsFiniteSet(DOMAIN catalog')
        <5>1. IsFiniteSet(DOMAIN catalog)
          BY <1>2 DEF StoreSound
        <5>2. QED
          BY <4>2, <5>1, FS_AddElement
      <4>4. \A key \in DOMAIN catalog' : catalog'[key] \in Item /\ catalog'[key].key = key /\ Genuine(catalog'[key])
        BY <1>2, <2>2, <4>1 DEF StoreSound
      <4>5. Filed \subseteq Filed' /\ item.key \in Filed'
        BY <1>1, <4>2 DEF Filed, env
      <4>6. QED
        BY <1>1, <1>2, <2>2, <4>2, <4>3, <4>4, <4>5 DEF StoreSound, env
    <3>2. CASE r.exists # there
      <4>1. catalog' = catalog /\ r.exists
        BY <1>4, <2>1, <2>4, <3>2
      <4>2. StoreSound' /\ Filed' = Filed
        BY <1>1, <1>2, <4>1 DEF StoreSound, Filed, env
      <4>3. QED
        BY <2>3, <4>1, <4>2
    <3>3. QED
      BY <3>1, <3>2
  <2>6. Sound(r, Filed', everBadged, mode)
    BY <1>2, <2>5, SoundGrows
  <2>7. Sound(new, Filed', everBadged, mode)
    BY <1>1, <2>5, <2>6, PutSound DEF item
  <2> HIDE DEF new
  <2>8. search'[s] = new
    BY <2>1 DEF IInv
  <2>9. QED
    BY <1>1, <2>1, <2>5, <2>7, <2>8, OneMoves DEF env
<1>5. QED
  BY <1>3, <1>4

LEMMA UpsertFailsKeeps ==
  ASSUME IInv, NEW s \in Searcher, UpsertFails(s)
  PROVE  IInv'
BY OutageKeeps DEF UpsertFails

LEMMA AnswerKeeps ==
  ASSUME IInv, NEW s \in Searcher, Answer(s)
  PROVE  IInv'
<1> DEFINE r == search[s]
           new == [r EXCEPT !.at = "present", !.live = IF Live(r) = <<>> THEN "failed" ELSE "ok",
                     !.answer = RankCatalogItems(MergeItems(Verified(r), Live(r)), r.query.want, Cap(r))]
<1>1. /\ r.at = "answer" \/ (r.at = "get" /\ r.queue = <<>>)
      /\ UNCHANGED <<mode, catalog, env>> /\ search' = [search EXCEPT ![s] = new]
  BY DEF Answer, Becomes
<1>2. Sound(r, Filed, everBadged, mode) /\ mode \in {"cached", "mixed"}
  BY DEF IInv, StoreSound
<1> HIDE DEF r
<1>3. Sound(new, Filed, everBadged, mode)
  BY <1>1, <1>2, AnswerStepSound
<1> HIDE DEF new
<1>4. search'[s] = new
  BY <1>1 DEF IInv
<1>5. QED
  BY <1>1, <1>3, <1>4, StaysSound

LEMMA PresentKeeps ==
  ASSUME IInv, NEW s \in Searcher, Present(s)
  PROVE  IInv'
<1> DEFINE r == search[s]
           new == [r EXCEPT !.at = "done", !.answer = OrderByTier(@, badged)]
<1>1. r.at = "present" /\ UNCHANGED <<mode, catalog, env>> /\ search' = [search EXCEPT ![s] = new]
  BY DEF Present, Becomes
<1>2. Sound(r, Filed, everBadged, mode)
  BY DEF IInv
<1> HIDE DEF r
<1>3. Sound(new, Filed, everBadged, mode)
  BY <1>1, <1>2, PresentSound
<1> HIDE DEF new
<1>4. search'[s] = new
  BY <1>1 DEF IInv
<1>5. QED
  BY <1>1, <1>3, <1>4, StaysSound

LEMMA SurroundingsKeep ==
  ASSUME IInv, Surroundings
  PROVE  IInv'
<1>1. ASSUME NEW repo \in Repo, BadgeGiven(repo) \/ BadgeTaken(repo)
      PROVE  IInv'
  <2>1. /\ UNCHANGED <<mode, catalog, search, pruned>> /\ everBadged \subseteq everBadged'
        /\ badged' \subseteq everBadged' /\ everBadged' \subseteq Repo
    BY <1>1 DEF BadgeGiven, BadgeTaken, IInv, StoreSound
  <2>2. StoreSound' /\ Filed' = Filed
    BY <2>1 DEF IInv, StoreSound, Filed
  <2>3. QED
    BY <2>1, <2>2, NoneMoves
<1>2. ASSUME NEW key \in DOMAIN catalog, Prune(key)
      PROVE  IInv'
  <2>1. /\ UNCHANGED <<mode, search, badged, everBadged>> /\ pruned' = pruned \cup {key}
        /\ catalog' = [k \in DOMAIN catalog \ {key} |-> catalog[k]]
    BY <1>2 DEF Prune
  <2>2. Filed' = Filed /\ DOMAIN catalog' = DOMAIN catalog \ {key}
    BY <2>1 DEF Filed
  <2>3. IsFiniteSet(DOMAIN catalog')
    BY <2>2, FS_RemoveElement DEF IInv, StoreSound
  <2>4. StoreSound'
    BY <2>1, <2>2, <2>3 DEF IInv, StoreSound
  <2>5. QED
    BY <2>1, <2>2, <2>4, NoneMoves
<1>3. QED
  BY <1>1, <1>2 DEF Surroundings

LEMMA NextKeeps ==
  ASSUME IInv, [Next]_vars
  PROVE  IInv'
<1>1. ASSUME NEW s \in Searcher, Step(s) PROVE IInv'
  <2>1. CASE \E src \in Source : SourceAnswers(s, src)
    BY <2>1, SourceKeeps
  <2>2. CASE Lookup(s) \/ Gate(s) \/ Cascade(s) \/ Normalize(s, FALSE)
    BY <2>2, LookupKeeps, GateKeeps, CascadeKeeps, NormalizeKeeps
  <2>3. CASE UpsertGet(s) \/ UpsertPut(s) \/ Answer(s) \/ Present(s)
    BY <2>3, UpsertGetKeeps, UpsertPutKeeps, AnswerKeeps, PresentKeeps
  <2>4. QED
    BY <1>1, <2>1, <2>2, <2>3 DEF Step
<1>2. ASSUME NEW s \in Searcher, Fails(s) PROVE IInv'
  <2>1. CASE \E src \in Source : SourceFails(s, src)
    BY <2>1, SourceKeeps
  <2>2. CASE LookupFails(s) \/ GateFails(s) \/ Normalize(s, TRUE) \/ UpsertFails(s)
    BY <2>2, LookupFailsKeeps, GateKeeps, NormalizeKeeps, UpsertFailsKeeps
  <2>3. QED
    BY <1>2, <2>1, <2>2 DEF Fails
<1>3. CASE UNCHANGED vars
  <2>1. UNCHANGED <<mode, catalog, search, env>>
    BY <1>3 DEF vars, env
  <2>2. StoreSound' /\ Filed' = Filed
    BY <2>1 DEF IInv, StoreSound, Filed, env
  <2>3. QED
    BY <2>1, <2>2, NoneMoves DEF env
<1>4. CASE Next
  BY <1>1, <1>2, <1>4, LeaveKeeps, AskKeeps, SurroundingsKeep DEF Next
<1>5. QED
  BY <1>3, <1>4

LEMMA Invariance ==
  Spec => []IInv
<1>1. IInv /\ [Next]_vars => IInv'
  BY NextKeeps
<1>2. QED
  BY <1>1, InitSound, PTL DEF Spec

-----------------------------------------------------------------------------
(* The order of the page.  What ranking leaves behind falls by the fit of   *)
(* the names, because a better fit outweighs everything else that counts;   *)
(* filtering and cutting keep that, and ordering by tiers keeps it within a *)
(* tier.                                                                    *)

Falling(items) == \A i, j \in DOMAIN items : i < j => Lexical(items[i]) >= Lexical(items[j])

Plain(item, ever) == RepoIdentities(item) \cap ever = {}

Tiered(items, ever) ==
  \A i, j \in DOMAIN items : i < j =>
    /\ Official(items[j]) => Official(items[i])
    /\ Official(items[i]) = Official(items[j]) /\ (Official(items[i]) \/ (Plain(items[i], ever) /\ Plain(items[j], ever)))
         => Lexical(items[i]) >= Lexical(items[j])

InOrder(r, ever) ==
  /\ Falling(r.cached)
  /\ r.at = "present" => Falling(r.answer)
  /\ r.at = "done" => Tiered(r.answer, ever)

OrderInv == \A s \in Searcher : InOrder(search[s], everBadged)

LEMMA ReliabilityWeight ==
  ASSUME NEW n \in Nat, n <= 6000
  PROVE  (35 * n) \div 600 \in 0..350
BY SMT

LEMMA WeightBounds ==
  ASSUME NEW item \in Item
  PROVE  /\ Lexical(item) \in {1000, 900, 250, 0} /\ FinalScore(item) \in Int
         /\ Lexical(item) = 1000 => FinalScore(item) >= 10550
         /\ Lexical(item) = 900 => FinalScore(item) \in 9505..10305
         /\ Lexical(item) = 250 => FinalScore(item) \in 2712..3512
         /\ Lexical(item) = 0 => FinalScore(item) <= 900
<1>1. Lexical(item) \in {1000, 900, 250, 0} /\ FinalScore(item) \in Int
  BY ScoresTyped
<1>2. EvidenceScore(item) \in 0..100
  <2>1. item.evidence \in Nat /\ Cardinality(item.providers) \in Nat
    BY ScoreTyped DEF Item
  <2>2. AtMost(item.evidence + Cardinality(item.providers), 6) \in 0..6
    BY <2>1 DEF AtMost
  <2>3. QED
    BY <2>2 DEF EvidenceScore
<1>3. (35 * item.score) \div 600 \in 0..350
  <2> DEFINE n == item.score
  <2>1. n \in 0..6000
    <3>1. n \in ScoreRange
      BY DEF Item
    <3>2. QED
      BY <3>1 DEF ScoreRange
  <2> HIDE DEF n
  <2>2. n \in Nat /\ n <= 6000
    BY <2>1, SMT
  <2>3. (35 * n) \div 600 \in 0..350
    BY <2>2, ReliabilityWeight
  <2>4. QED
    BY <2>3 DEF n
<1>4. Bonus(item) \in {0, 150, 350}
  BY DEF Bonus
<1>5. Quality(item) \in ((45 * Lexical(item)) \div 100 + 100)..((45 * Lexical(item)) \div 100 + 550)
  <2> DEFINE k == (45 * Lexical(item)) \div 100
             m == (35 * item.score) \div 600
             e == EvidenceScore(item)
  <2>1. k \in Int /\ m \in 0..350 /\ e \in 0..100
    BY <1>1, <1>2, <1>3
  <2>2. Quality(item) = k + m + 100 + e
    BY DEF Quality
  <2> HIDE DEF k, m, e
  <2>3. Quality(item) \in (k + 100)..(k + 550)
    BY <2>1, <2>2
  <2>4. QED
    BY <2>3 DEF k
<1> DEFINE l == Lexical(item)
           q == Quality(item)
           b == Bonus(item)
<1>6. FinalScore(item) = 10 * l + q + b
  BY DEF FinalScore
<1>7. l \in {1000, 900, 250, 0} /\ b \in {0, 150, 350} /\ q \in ((45 * l) \div 100 + 100)..((45 * l) \div 100 + 550)
  BY <1>1, <1>4, <1>5
<1> HIDE DEF l, q, b
<1>8. /\ l = 1000 => FinalScore(item) >= 10550
      /\ l = 900 => FinalScore(item) \in 9505..10305
      /\ l = 250 => FinalScore(item) \in 2712..3512
      /\ l = 0 => FinalScore(item) <= 900
  BY <1>6, <1>7, SMT
<1>9. QED
  BY <1>1, <1>8 DEF l

\* A name that fits better wins, whatever else is said for the other item.
LEMMA FitDominates ==
  ASSUME NEW x \in Item, NEW y \in Item, FinalScore(x) >= FinalScore(y)
  PROVE  Lexical(x) >= Lexical(y)
<1> DEFINE k == Lexical(x)
           l == Lexical(y)
           v == FinalScore(x)
           w == FinalScore(y)
<1>1. /\ k \in {1000, 900, 250, 0} /\ v \in Int /\ (k = 900 => v \in 9505..10305)
      /\ (k = 250 => v \in 2712..3512) /\ (k = 0 => v <= 900)
  BY WeightBounds
<1>2. /\ l \in {1000, 900, 250, 0} /\ w \in Int /\ (l = 1000 => w >= 10550)
      /\ (l = 900 => w \in 9505..10305) /\ (l = 250 => w \in 2712..3512)
  BY WeightBounds
<1>3. v >= w
  OBVIOUS
<1> HIDE DEF k, l, v, w
<1>4. k >= l
  <2>1. CASE k = 1000
    BY <1>2, <2>1
  <2>2. CASE k = 900
    <3>1. l # 1000
      BY <1>1, <1>2, <1>3, <2>2
    <3>2. QED
      BY <1>2, <2>2, <3>1
  <2>3. CASE k = 250
    <3>1. l # 1000 /\ l # 900
      BY <1>1, <1>2, <1>3, <2>3
    <3>2. QED
      BY <1>2, <2>3, <3>1
  <2>4. CASE k = 0
    <3>1. l # 1000 /\ l # 900 /\ l # 250
      BY <1>1, <1>2, <1>3, <2>4
    <3>2. QED
      BY <1>2, <2>4, <3>1
  <2>5. QED
    BY <1>1, <2>1, <2>2, <2>3, <2>4
<1>5. QED
  BY <1>4 DEF k, l

LEMMA RankFalls ==
  ASSUME NEW items \in Seq(Item)
  PROVE  Falling(RankItems(items))
<1> DEFINE strong == \E i \in DOMAIN items : Lexical(items[i]) >= 900
           kept == {i \in DOMAIN items : ~(strong /\ Lexical(items[i]) \in 1..899)}
           w == [i \in kept |-> FinalScore(items[i])]
           a == Arranged(items, kept, w)
<1>1. kept \in SUBSET DOMAIN items /\ \A i \in DOMAIN items : items[i] \in Item
  OBVIOUS
<1>2. w \in [kept -> Int] /\ \A i \in kept : w[i] = FinalScore(items[i])
  <2>1. w \in [kept -> Int]
    BY <1>1, ScoresTyped
  <2> HIDE DEF kept
  <2>2. QED
    BY <2>1
<1>3. RankItems(items) = a
  BY DEF RankItems
<1> HIDE DEF kept, w
<1>4. IsArranged(a, items, kept, w)
  BY <1>1, <1>2, Arrangement
<1> DEFINE n == Cardinality(kept)
<1> HIDE DEF a
<1>5. PICK g \in [1..n -> kept] :
        /\ a = [p \in 1..n |-> items[g[p]]]
        /\ \A p, q \in 1..n : p < q => Precedes(w, g[p], g[q])
  BY <1>4 DEF IsArranged
<1>6. ASSUME NEW p \in DOMAIN a, NEW q \in DOMAIN a, p < q
      PROVE  Lexical(a[p]) >= Lexical(a[q])
  <2>1. p \in 1..n /\ q \in 1..n
    BY <1>5
  <2>2. g[p] \in kept /\ g[q] \in kept /\ a[p] = items[g[p]] /\ a[q] = items[g[q]] /\ Precedes(w, g[p], g[q])
    BY <1>5, <1>6, <2>1
  <2>3. items[g[p]] \in Item /\ items[g[q]] \in Item
    BY <1>1, <2>2
  <2>4. w[g[p]] >= w[g[q]]
    BY <1>2, <2>2 DEF Precedes
  <2>5. FinalScore(items[g[p]]) >= FinalScore(items[g[q]])
    BY <1>2, <2>2, <2>4
  <2>6. QED
    BY <2>2, <2>3, <2>5, FitDominates
<1>7. QED
  BY <1>3, <1>6 DEF Falling

LEMMA KeepFalls ==
  ASSUME NEW s \in Seq(Item), NEW I \in SUBSET DOMAIN s, Falling(s)
  PROVE  Falling(Keep(s, I))
<1>1. SUFFICES ASSUME NEW p \in DOMAIN Keep(s, I), NEW q \in DOMAIN Keep(s, I), p < q
               PROVE  Lexical(Keep(s, I)[p]) >= Lexical(Keep(s, I)[q])
  BY DEF Falling
<1>2. PICK i, j \in I : i < j /\ Keep(s, I)[p] = s[i] /\ Keep(s, I)[q] = s[j]
  BY <1>1, KeepFacts
<1>3. QED
  BY <1>2 DEF Falling

LEMMA TruncateFalls ==
  ASSUME NEW s \in Seq(Item), NEW n \in Nat, Falling(s)
  PROVE  Falling(Truncate(s, n))
<1>1. \A i \in DOMAIN Truncate(s, n) : i \in DOMAIN s /\ Truncate(s, n)[i] = s[i]
  BY TruncateFacts
<1>2. QED
  BY <1>1 DEF Falling

LEMMA RankCatalogFalls ==
  ASSUME NEW items \in Seq(Item), NEW want, NEW limit \in Nat
  PROVE  Falling(RankCatalogItems(items, want, limit))
<1> DEFINE b == OfType(items, want)
           c == RankItems(b)
<1>1. b \in Seq(Item)
  BY OfTypeFacts
<1> HIDE DEF b
<1>2. c \in Seq(Item) /\ Falling(c)
  BY <1>1, RankFacts, RankFalls
<1> HIDE DEF c
<1>3. Falling(Truncate(c, limit))
  BY <1>2, TruncateFalls
<1>4. QED
  BY <1>3 DEF RankCatalogItems, b, c

LEMMA OrderTiers ==
  ASSUME NEW items \in Seq(Item), Falling(items), NEW ever, NEW of \in SUBSET ever
  PROVE  Tiered(OrderByTier(items, of), ever)
<1> DEFINE w == [i \in DOMAIN items |-> Tier(items[i], of)]
           a == Arranged(items, DOMAIN items, w)
<1>1. \A i \in DOMAIN items : items[i] \in Item /\ w[i] = Tier(items[i], of) /\ w[i] \in Int /\ i \in Int
  BY ScoresTyped
<1>2. w \in [DOMAIN items -> Int]
  BY <1>1
<1>3. OrderByTier(items, of) = a
  BY DEF OrderByTier
<1> HIDE DEF w
<1>4. IsArranged(a, items, DOMAIN items, w)
  BY <1>2, Arrangement
<1> DEFINE n == Cardinality(DOMAIN items)
<1> HIDE DEF a
<1>5. PICK g \in [1..n -> DOMAIN items] :
        /\ a = [p \in 1..n |-> items[g[p]]]
        /\ \A p, q \in 1..n : p < q => Precedes(w, g[p], g[q])
  BY <1>4 DEF IsArranged
<1>6. SUFFICES ASSUME NEW p \in DOMAIN a, NEW q \in DOMAIN a, p < q
               PROVE  /\ Official(a[q]) => Official(a[p])
                      /\ Official(a[p]) = Official(a[q]) /\ (Official(a[p]) \/ (Plain(a[p], ever) /\ Plain(a[q], ever)))
                           => Lexical(a[p]) >= Lexical(a[q])
  BY <1>3 DEF Tiered
<1>7. p \in 1..n /\ q \in 1..n
  BY <1>5
<1> DEFINE i == g[p]
           j == g[q]
<1>8. i \in DOMAIN items /\ j \in DOMAIN items /\ a[p] = items[i] /\ a[q] = items[j] /\ Precedes(w, i, j)
  BY <1>5, <1>6, <1>7
<1> HIDE DEF i, j
<1>9. w[i] = Tier(a[p], of) /\ w[j] = Tier(a[q], of) /\ w[i] \in Int /\ w[j] \in Int /\ w[i] >= w[j]
      /\ (w[i] = w[j] => i < j)
  BY <1>1, <1>8 DEF Precedes
<1>10. /\ Official(a[p]) => Tier(a[p], of) = 2
       /\ Official(a[q]) => Tier(a[q], of) = 2
       /\ ~Official(a[p]) => Tier(a[p], of) \in {0, 1}
       /\ ~Official(a[p]) /\ Plain(a[p], ever) => Tier(a[p], of) = 0
       /\ ~Official(a[q]) /\ Plain(a[q], ever) => Tier(a[q], of) = 0
  BY DEF Tier, Plain
<1>11. i < j => Lexical(a[p]) >= Lexical(a[q])
  BY <1>8 DEF Falling
<1>12. Official(a[q]) => Official(a[p])
  BY <1>9, <1>10
<1>13. ASSUME Official(a[p]) = Official(a[q]), Official(a[p]) \/ (Plain(a[p], ever) /\ Plain(a[q], ever))
       PROVE  Tier(a[p], of) = Tier(a[q], of)
  <2>1. CASE Official(a[p])
    BY <1>10, <1>13, <2>1
  <2>2. CASE ~Official(a[p])
    BY <1>10, <1>13, <2>2
  <2>3. QED
    BY <2>1, <2>2
<1>14. QED
  BY <1>9, <1>11, <1>12, <1>13

\* A step leaves the other searches alone, and what had a badge only becomes more.
LEMMA OthersInOrder ==
  ASSUME IInv, OrderInv, NEW s \in Searcher, NEW new, search' = [search EXCEPT ![s] = new],
         everBadged' = everBadged, InOrder(new, everBadged)
  PROVE  OrderInv'
<1>1. SUFFICES ASSUME NEW t \in Searcher PROVE InOrder(search'[t], everBadged')
  BY DEF OrderInv
<1>2. search'[t] = IF t = s THEN new ELSE search[t]
  BY DEF IInv
<1>3. QED
  BY <1>2 DEF OrderInv

\* Before a search has an answer only what it read matters.
LEMMA StillInOrder ==
  ASSUME IInv, OrderInv, NEW s \in Searcher, NEW new, search' = [search EXCEPT ![s] = new],
         everBadged' = everBadged, new.cached = search[s].cached, new.at \notin {"present", "done"}
  PROVE  OrderInv'
<1>1. InOrder(new, everBadged)
  BY DEF OrderInv, InOrder
<1>2. QED
  BY <1>1, OthersInOrder

LEMMA VerifiedFalls ==
  ASSUME NEW r \in Search, Falling(r.cached)
  PROVE  Falling(Verified(r))
BY KeepFalls DEF Verified, Search

LEMMA IdleInOrder ==
  ASSUME NEW ever
  PROVE  /\ InOrder(Idle, ever)
         /\ \A q \in Query : InOrder([Idle EXCEPT !.at = "lookup", !.query = q], ever)
<1>1. Falling(<<>>)
  BY DEF Falling
<1>2. ASSUME NEW q \in Query
      PROVE  InOrder([Idle EXCEPT !.at = "lookup", !.query = q], ever)
  <2> DEFINE r == [Idle EXCEPT !.at = "lookup", !.query = q]
  <2>1. r.at = "lookup" /\ r.cached = <<>>
    BY DEF Idle
  <2> HIDE DEF r
  <2>2. QED
    BY <1>1, <2>1 DEF InOrder, r
<1>3. Idle.at = "idle" /\ Idle.cached = <<>>
  BY DEF Idle
<1>4. QED
  BY <1>1, <1>2, <1>3 DEF InOrder

LEMMA GatedInOrder ==
  ASSUME NEW r \in Search, Falling(r.cached), NEW md, NEW ever, r.at \notin {"present", "done"}
  PROVE  InOrder(GatedIn(r, md), ever)
<1> DEFINE new == GatedIn(r, md)
<1>1. Verified(r) \in Seq(Item) /\ Falling(Verified(r))
  BY VerifiedFacts, VerifiedFalls
<1>2. CASE md = "cached"
  <2> DEFINE answer == Truncate(Verified(r), LimitOr(r.query, Len(r.cached)))
  <2>1. Falling(answer)
    BY <1>1, LimitsTyped, TruncateFalls
  <2> HIDE DEF answer
  <2>2. new = [r EXCEPT !.at = "present", !.answer = answer]
    BY <1>2 DEF GatedIn, answer
  <2>3. new.at = "present" /\ new.answer = answer /\ new.cached = r.cached
    BY <2>2 DEF Search
  <2> HIDE DEF new
  <2>4. QED
    BY <2>1, <2>3 DEF InOrder, new
<1>3. CASE md # "cached" /\ Len(Verified(r)) >= VerifiedCap
  <2> DEFINE answer == RankCatalogItems(Verified(r), r.query.want, Cap(r))
  <2>1. Falling(answer)
    BY <1>1, LimitsTyped, RankCatalogFalls
  <2> HIDE DEF answer
  <2>2. new = [r EXCEPT !.at = "present", !.early = TRUE, !.answer = answer]
    BY <1>3 DEF GatedIn, answer
  <2>3. new.at = "present" /\ new.answer = answer /\ new.cached = r.cached
    BY <2>2 DEF Search
  <2> HIDE DEF new
  <2>4. QED
    BY <2>1, <2>3 DEF InOrder, new
<1>4. CASE ~(md = "cached") /\ ~(md # "cached" /\ Len(Verified(r)) >= VerifiedCap)
  <2> DEFINE at == IF Enabled = {} THEN "answer" ELSE IF r.query.kind = "agent" THEN "normalize" ELSE "sources"
             pending == IF r.query.kind = "agent" THEN {} ELSE Officials
  <2>1. at \in {"answer", "normalize", "sources"}
    OBVIOUS
  <2>2. new = [r EXCEPT !.pending = pending, !.at = at]
    BY <1>4 DEF GatedIn
  <2> HIDE DEF at, pending, new
  <2>3. new.at = at /\ new.cached = r.cached
    BY <2>2 DEF Search
  <2>4. QED
    BY <2>1, <2>3 DEF InOrder, new
<1>5. QED
  BY <1>2, <1>3, <1>4

LEMMA LookupInOrder ==
  ASSUME IInv, OrderInv, NEW s \in Searcher, Lookup(s)
  PROVE  OrderInv'
<1> DEFINE r == search[s]
           limit == IF mode = "cached" THEN LimitOr(r.query, PerSource) ELSE CandidateLimit
<1>1. PICK rows \in SUBSET Matching(r.query) :
        search' = [search EXCEPT ![s] = [r EXCEPT !.at = "gate",
                     !.cached = RankCatalogItems(SetToSeq(rows), "all", limit)]]
  BY DEF Lookup, Becomes
<1>2. r \in Search /\ everBadged' = everBadged
  BY DEF IInv, Sound, Lookup, env
<1>3. limit \in Nat
  <2>1. LimitOr(r.query, PerSource) \in Nat /\ CandidateLimit \in Nat
    BY <1>2, LimitsTyped, SearchAssumption
  <2>2. QED
    BY <2>1
<1>4. SetToSeq(rows) \in Seq(Item)
  <2>1. rows \in SUBSET Item /\ IsFiniteSet(rows)
    BY MatchingFacts
  <2>2. SetToSeq(rows) \in Seq(rows)
    BY <2>1, SetToSeqFacts
  <2>3. QED
    BY <2>1, <2>2
<1> DEFINE cached == RankCatalogItems(SetToSeq(rows), "all", limit)
           new == [r EXCEPT !.at = "gate", !.cached = cached]
<1> HIDE DEF r, limit
<1>5. Falling(cached)
  BY <1>3, <1>4, RankCatalogFalls
<1> HIDE DEF cached
<1>6. new.at = "gate" /\ new.cached = cached
  BY <1>2 DEF Search
<1>7. search' = [search EXCEPT ![s] = new]
  BY <1>1 DEF cached
<1> HIDE DEF new
<1>8. InOrder(new, everBadged)
  BY <1>5, <1>6 DEF InOrder
<1>9. QED
  BY <1>2, <1>7, <1>8, OthersInOrder

LEMMA GateInOrder ==
  ASSUME IInv, OrderInv, NEW s \in Searcher, Gate(s) \/ GateFails(s)
  PROVE  OrderInv'
<1> DEFINE r == search[s]
           Set(servable, open) == [r EXCEPT !.servable = servable, !.open = open]
<1>1. r \in Search /\ Falling(r.cached) /\ r.at = "gate" /\ everBadged' = everBadged
  BY DEF IInv, Sound, OrderInv, InOrder, Gate, GateFails, env
<1>2. \A i \in DOMAIN r.cached : r.cached[i].key \in Key
  <2> DEFINE c == r.cached
  <2>1. c \in Seq(Item)
    BY <1>1 DEF Search
  <2> HIDE DEF c
  <2>2. \A i \in DOMAIN c : c[i] \in Item
    BY <2>1
  <2>3. \A item \in Item : item.key \in Key
    BY DEF Item
  <2>4. QED
    BY <2>2, <2>3 DEF c
<1>3. ASSUME NEW new, new \in Search, new.at = "gate", new.cached = r.cached, Becomes(s, Gated(new))
      PROVE  OrderInv'
  <2>1. InOrder(GatedIn(new, mode), everBadged)
    BY <1>1, <1>3, GatedInOrder
  <2>2. search' = [search EXCEPT ![s] = GatedIn(new, mode)]
    BY <1>3 DEF Becomes, Gated, GatedIn
  <2>3. QED
    BY <1>1, <2>1, <2>2, OthersInOrder
<1>4. CASE Gate(s)
  <2> DEFINE May(item) == Official(item) \/ RepoIdentities(item) \cap badged # {}
             servable == {item.key : item \in {i \in ToSet(r.cached) : May(i)}}
             new == [r EXCEPT !.servable = servable]
  <2>1. Becomes(s, Gated(new))
    BY <1>4 DEF Gate
  <2>2. servable \in SUBSET Key
    BY <1>2 DEF ToSet
  <2> HIDE DEF servable
  <2>3. new \in Search /\ new.at = "gate" /\ new.cached = r.cached
    BY <1>1, <2>2 DEF Search
  <2> HIDE DEF new
  <2>4. QED
    BY <1>3, <2>1, <2>3
<1>5. CASE GateFails(s)
  <2> DEFINE servable == Keys(r.cached)
             new == [r EXCEPT !.servable = servable, !.open = TRUE]
  <2>1. Becomes(s, Gated(new))
    BY <1>5 DEF GateFails
  <2>2. servable \in SUBSET Key
    BY <1>2 DEF Keys
  <2> HIDE DEF servable
  <2>3. new \in Search /\ new.at = "gate" /\ new.cached = r.cached
    BY <1>1, <2>2 DEF Search
  <2> HIDE DEF new
  <2>4. QED
    BY <1>3, <2>1, <2>3
<1>6. QED
  BY <1>4, <1>5

LEMMA AnswerInOrder ==
  ASSUME IInv, OrderInv, NEW s \in Searcher, Answer(s)
  PROVE  OrderInv'
<1> DEFINE r == search[s]
           rows == MergeItems(Verified(r), Live(r))
           answer == RankCatalogItems(rows, r.query.want, Cap(r))
           live == IF Live(r) = <<>> THEN "failed" ELSE "ok"
           new == [r EXCEPT !.at = "present", !.live = live, !.answer = answer]
<1>1. /\ r \in Search /\ Falling(r.cached) /\ everBadged' = everBadged
      /\ Sound(r, Filed, everBadged, mode) /\ r.at \in {"answer", "get"}
  BY DEF IInv, Sound, OrderInv, InOrder, Answer, env
<1>2. search' = [search EXCEPT ![s] = new]
  BY DEF Answer, Becomes
<1>3. rows \in Seq(Item)
  <2>1. Verified(r) \in Seq(Item) /\ Live(r) \in Seq(Item)
    <3>1. Live(r) \in {<<>>, r.stored} /\ r.stored \in Seq(Item)
      BY <1>1 DEF Live, Search
    <3>2. <<>> \in Seq(Item)
      OBVIOUS
    <3> HIDE DEF r
    <3>3. Live(r) \in Seq(Item)
      BY <3>1, <3>2
    <3>4. Verified(r) \in Seq(Item)
      BY <1>1, VerifiedFacts
    <3>5. QED
      BY <3>3, <3>4
  <2>2. Consistent(Verified(r) \o Live(r))
    BY <1>1, AnswerConsistent
  <2>3. QED
    BY <2>1, <2>2, MergeFacts
<1> HIDE DEF r, rows
<1>4. Falling(answer)
  BY <1>1, <1>3, LimitsTyped, RankCatalogFalls
<1> HIDE DEF answer, live
<1>5. new.at = "present" /\ new.answer = answer /\ new.cached = r.cached
  BY <1>1 DEF Search
<1> HIDE DEF new
<1>6. InOrder(new, everBadged)
  BY <1>1, <1>4, <1>5 DEF InOrder
<1>7. QED
  BY <1>1, <1>2, <1>6, OthersInOrder

LEMMA PresentInOrder ==
  ASSUME IInv, OrderInv, NEW s \in Searcher, Present(s)
  PROVE  OrderInv'
<1> DEFINE r == search[s]
           answer == OrderByTier(r.answer, badged)
           new == [r EXCEPT !.at = "done", !.answer = answer]
<1>1. /\ r \in Search /\ Falling(r.cached) /\ everBadged' = everBadged /\ r.at = "present"
      /\ Falling(r.answer) /\ badged \in SUBSET everBadged
  BY DEF IInv, StoreSound, Sound, OrderInv, InOrder, Present, env
<1>2. search' = [search EXCEPT ![s] = new]
  BY DEF Present, Becomes
<1>3. r.answer \in Seq(Item)
  BY <1>1 DEF Search
<1> HIDE DEF r
<1>4. Tiered(answer, everBadged)
  BY <1>1, <1>3, OrderTiers
<1> HIDE DEF answer
<1>5. new.at = "done" /\ new.answer = answer /\ new.cached = r.cached
  BY <1>1 DEF Search
<1> HIDE DEF new
<1>6. InOrder(new, everBadged)
  BY <1>1, <1>4, <1>5 DEF InOrder
<1>7. QED
  BY <1>1, <1>2, <1>6, OthersInOrder

\* Everything between the gate and the answer, and a failed look-up.
LEMMA RestInOrder ==
  ASSUME IInv, OrderInv, NEW s \in Searcher,
         \/ LookupFails(s) \/ Cascade(s) \/ UpsertGet(s) \/ UpsertPut(s) \/ UpsertFails(s)
         \/ \E blind \in BOOLEAN : Normalize(s, blind)
         \/ \E src \in Source : SourceAnswers(s, src) \/ SourceFails(s, src)
  PROVE  OrderInv'
<1> DEFINE r == search[s]
<1>1. r \in Search /\ Sound(r, Filed, everBadged, mode)
  BY DEF IInv, Sound
<1>2. everBadged' = everBadged
  BY DEF LookupFails, Cascade, UpsertGet, UpsertPut, UpsertFails, Normalize, SourceAnswers, SourceFails, env
<1>3. ASSUME NEW new, search' = [search EXCEPT ![s] = new], new.cached = r.cached,
             new.at \notin {"present", "done"}
      PROVE  OrderInv'
  BY <1>2, <1>3, StillInOrder
<1>4. ASSUME NEW at, at \notin {"present", "done"}, search' = [search EXCEPT ![s] = [r EXCEPT !.at = at]]
      PROVE  OrderInv'
  <2> DEFINE new == [r EXCEPT !.at = at]
  <2>1. new.cached = r.cached /\ new.at = at
    BY <1>1 DEF Search
  <2>2. QED
    BY <1>3, <1>4, <2>1
<1>5. CASE LookupFails(s)
  <2>1. search' = [search EXCEPT ![s] = [r EXCEPT !.at = "error"]]
    BY <1>5 DEF LookupFails, Becomes
  <2> HIDE DEF r
  <2>2. "error" \notin {"present", "done"}
    OBVIOUS
  <2>3. QED
    BY <1>4, <2>1, <2>2
<1>6. CASE Cascade(s)
  <2> DEFINE new == [r EXCEPT !.at = "github", !.pending = {"github"}]
  <2>1. \/ search' = [search EXCEPT ![s] = [r EXCEPT !.at = "normalize"]]
        \/ search' = [search EXCEPT ![s] = new]
    BY <1>6 DEF Cascade, Becomes
  <2>2. new.cached = r.cached /\ new.at = "github"
    BY <1>1 DEF Search
  <2> HIDE DEF new, r
  <2>3. QED
    BY <1>3, <1>4, <2>1, <2>2
<1>7. CASE UpsertGet(s)
  <2> DEFINE exists == r.queue[1].key \in DOMAIN catalog
             new == [r EXCEPT !.at = "put", !.exists = exists]
  <2>1. search' = [search EXCEPT ![s] = new]
    BY <1>7 DEF UpsertGet, Becomes
  <2> HIDE DEF exists
  <2>2. new.cached = r.cached /\ new.at = "put"
    BY <1>1 DEF Search
  <2> HIDE DEF new, r
  <2>3. QED
    BY <1>3, <2>1, <2>2
<1>8. ASSUME Outage(s)
      PROVE  OrderInv'
  <2> DEFINE new == [r EXCEPT !.at = "answer", !.live = "failed"]
  <2>1. search' = [search EXCEPT ![s] = new]
    BY <1>8 DEF Outage, Becomes
  <2>2. new.cached = r.cached /\ new.at = "answer"
    BY <1>1 DEF Search
  <2> HIDE DEF new, r
  <2>3. QED
    BY <1>3, <2>1, <2>2
<1>9. CASE UpsertPut(s)
  <2> DEFINE item == r.queue[1]
             queue == Tail(r.queue)
             stored == Append(r.stored, item)
             new == [r EXCEPT !.at = "get", !.queue = queue, !.stored = stored]
  <2>1. Outage(s) \/ search' = [search EXCEPT ![s] = new]
    BY <1>9 DEF UpsertPut, Becomes
  <2> HIDE DEF queue, stored
  <2>2. new.cached = r.cached /\ new.at = "get"
    BY <1>1 DEF Search
  <2> HIDE DEF new, r
  <2>3. QED
    BY <1>3, <1>8, <2>1, <2>2
<1>10. CASE UpsertFails(s)
  BY <1>8, <1>10 DEF UpsertFails
<1>11. ASSUME NEW blind \in BOOLEAN, Normalize(s, blind)
       PROVE  OrderInv'
  <2> DEFINE sizes == IF blind THEN [p \in DOMAIN Footprint |-> "unknown"] ELSE Footprint
             new == Normalized(r, sizes)
  <2>1. search' = [search EXCEPT ![s] = new]
    BY <1>11 DEF Normalize, Becomes, Normalized
  <2> HIDE DEF sizes
  <2>2. new.cached = r.cached /\ new.at = "get"
    BY <1>1 DEF Search, Normalized
  <2> HIDE DEF new, r
  <2>3. QED
    BY <1>3, <2>1, <2>2
<1>12. ASSUME NEW src \in Source, SourceAnswers(s, src) \/ SourceFails(s, src)
       PROVE  OrderInv'
  <2>1. src \in r.pending
    BY <1>12 DEF SourceAnswers, SourceFails
  <2>2. r.at \in {"sources", "github"} /\ (src = "github" <=> r.at = "github")
    BY <1>1, <2>1, PendingStage
  <2> DEFINE After(q) == [q EXCEPT !.pending = @ \ {src}, !.at = IF src = "github" THEN "normalize" ELSE @]
  <2>3. PICK q : /\ q.cached = r.cached /\ q.at = r.at /\ search' = [search EXCEPT ![s] = After(q)]
                 /\ DOMAIN q = DOMAIN r
    <3>1. CASE SourceAnswers(s, src)
      <4> DEFINE page == IF src = "github"
                         THEN LET gap == Shortfall(r) - HowMany(r) IN IF gap < 1 THEN 1 ELSE gap
                         ELSE LimitOr(r.query, PerSource)
                 first == Truncate(Offers[src], page)
                 hits == Keep(first, {i \in DOMAIN first : ~Excluded(first[i])})
      <4>1. search' = [search EXCEPT ![s] = After([r EXCEPT !.got[src] = hits])]
        BY <3>1 DEF SourceAnswers, Settles, Becomes
      <4> DEFINE q == [r EXCEPT !.got[src] = hits]
      <4>2. q.cached = r.cached /\ q.at = r.at /\ DOMAIN q = DOMAIN r
        BY <1>1 DEF Search
      <4> HIDE DEF r, q
      <4>3. QED
        BY <4>1, <4>2 DEF q
    <3>2. CASE SourceFails(s, src)
      <4> DEFINE q == [r EXCEPT !.failed = @ \cup {src}]
      <4>1. search' = [search EXCEPT ![s] = After(q)]
        BY <3>2 DEF SourceFails, Settles, Becomes
      <4>2. q.cached = r.cached /\ q.at = r.at /\ DOMAIN q = DOMAIN r
        BY <1>1 DEF Search
      <4> HIDE DEF r, q
      <4>3. QED
        BY <4>1, <4>2
    <3>3. QED
      BY <1>12, <3>1, <3>2
  <2>4. "cached" \in DOMAIN r /\ "at" \in DOMAIN r /\ "pending" \in DOMAIN r
    BY <1>1 DEF Search
  <2> HIDE DEF r
  <2>5. After(q).cached = r.cached /\ After(q).at \in {"normalize", "sources"}
    BY <2>2, <2>3, <2>4
  <2> HIDE DEF After
  <2>6. QED
    BY <1>3, <2>3, <2>5
<1>13. QED
  BY <1>5, <1>6, <1>7, <1>9, <1>10, <1>11, <1>12

LEMMA NextInOrder ==
  ASSUME IInv, OrderInv, [Next]_vars
  PROVE  OrderInv'
<1>1. ASSUME NEW s \in Searcher, Step(s) PROVE OrderInv'
  <2>1. CASE Lookup(s) \/ Gate(s) \/ Answer(s) \/ Present(s)
    BY <2>1, LookupInOrder, GateInOrder, AnswerInOrder, PresentInOrder
  <2>2. CASE \/ Cascade(s) \/ Normalize(s, FALSE) \/ UpsertGet(s) \/ UpsertPut(s)
             \/ \E src \in Source : SourceAnswers(s, src)
    BY <2>2, RestInOrder
  <2>3. QED
    BY <1>1, <2>1, <2>2 DEF Step
<1>2. ASSUME NEW s \in Searcher, Fails(s) PROVE OrderInv'
  <2>1. CASE GateFails(s)
    BY <2>1, GateInOrder
  <2>2. CASE \/ LookupFails(s) \/ Normalize(s, TRUE) \/ UpsertFails(s)
             \/ \E src \in Source : SourceFails(s, src)
    BY <2>2, RestInOrder
  <2>3. QED
    BY <1>2, <2>1, <2>2 DEF Fails
<1>3. ASSUME NEW s \in Searcher, Leave(s) \/ \E q \in Query : Ask(s, q)
      PROVE  OrderInv'
  <2>1. PICK new : /\ search' = [search EXCEPT ![s] = new] /\ InOrder(new, everBadged)
                   /\ everBadged' = everBadged
    BY <1>3, IdleInOrder DEF Leave, Ask, Becomes, env
  <2>2. QED
    BY <2>1, OthersInOrder
<1>4. ASSUME search' = search, everBadged \subseteq everBadged' PROVE OrderInv'
  <2>1. SUFFICES ASSUME NEW s \in Searcher PROVE InOrder(search[s], everBadged')
    BY <1>4 DEF OrderInv
  <2>2. \A item : Plain(item, everBadged') => Plain(item, everBadged)
    BY <1>4 DEF Plain
  <2>3. InOrder(search[s], everBadged)
    BY DEF OrderInv
  <2>4. \A a : Tiered(a, everBadged) => Tiered(a, everBadged')
    BY <2>2 DEF Tiered
  <2>5. QED
    BY <2>3, <2>4 DEF InOrder
<1>5. CASE Surroundings
  <2>1. search' = search /\ everBadged \subseteq everBadged'
    BY <1>5 DEF Surroundings, BadgeGiven, BadgeTaken, Prune
  <2>2. QED
    BY <1>4, <2>1
<1>6. CASE UNCHANGED vars
  BY <1>4, <1>6 DEF vars, env
<1>7. QED
  BY <1>1, <1>2, <1>3, <1>5, <1>6 DEF Next

-----------------------------------------------------------------------------
(* Termination: a search that has begun gets nearer to its answer with       *)
(* every step of its own, and nothing else moves it.                         *)

Phase(r) ==
  CASE r.at = "lookup" -> 9 [] r.at = "gate" -> 8 [] r.at = "sources" -> 7 [] r.at = "github" -> 6
    [] r.at = "normalize" -> 5 [] r.at \in {"get", "put"} -> 4 [] r.at = "answer" -> 3
    [] r.at = "present" -> 2 [] OTHER -> 1

\* What is left to do in the phase: sources to hear, rows to read and to write.
Load(r) ==
  IF r.at \in {"get", "put"} THEN 2 * Len(r.queue) + IF r.at = "get" THEN 1 ELSE 0
  ELSE Cardinality(r.pending)

ToDo(r) == <<Phase(r), Load(r)>>

\* Pairs of numbers in lexicographic order.
Less == LexPairOrdering(OpToRel(<, Nat), OpToRel(<, Nat), Nat, Nat)

\* There is no endless descent.
LEMMA LessIsWellFounded == IsWellFoundedOn(Less, Nat \X Nat)
BY NatLessThanWellFounded, WFLexPairOrdering DEF Less

LEMMA LessPairs ==
  ASSUME NEW a \in Nat, NEW b \in Nat, NEW c \in Nat, NEW d \in Nat, a < c \/ (a = c /\ b < d)
  PROVE  <<<<a, b>>, <<c, d>>>> \in Less
BY DEF Less, LexPairOrdering, OpToRel

LEMMA PendingCounted ==
  ASSUME NEW S \in SUBSET Source
  PROVE  /\ IsFiniteSet(S) /\ Cardinality(S) \in Nat
         /\ \A src \in S : Cardinality(S \ {src}) < Cardinality(S)
<1>1. IsFiniteSet(Source)
  <2>1. IsFiniteSet({"mcp_registry"}) /\ IsFiniteSet({"service"}) /\ IsFiniteSet({"github"})
    BY FS_Singleton
  <2>2. Source = {"mcp_registry"} \cup ({"service"} \cup {"github"})
    BY DEF Source
  <2>3. QED
    BY <2>1, <2>2, FS_Union
<1>2. IsFiniteSet(S)
  BY <1>1, FS_Subset
<1>3. Cardinality(S) \in Nat
  BY <1>2, FS_CardinalityType
<1>4. ASSUME NEW src \in S PROVE Cardinality(S \ {src}) < Cardinality(S)
  <2>1. Cardinality(S \ {src}) = Cardinality(S) - 1
    BY <1>2, FS_RemoveElement
  <2>2. QED
    BY <1>3, <2>1
<1>5. QED
  BY <1>2, <1>3, <1>4

LEMMA ToDoTyped ==
  ASSUME NEW r \in Search
  PROVE  Phase(r) \in 1..9 /\ Load(r) \in Nat
<1>1. Phase(r) \in 1..9
  BY DEF Phase
<1>2. r.pending \subseteq Source /\ Len(r.queue) \in Nat
  BY DEF Search
<1>3. Cardinality(r.pending) \in Nat
  BY <1>2, PendingCounted
<1>4. PICK n \in Nat : n = Len(r.queue)
  BY <1>2
<1>5. 2 * n \in Nat /\ 2 * n + 1 \in Nat /\ 2 * n + 0 \in Nat
  OBVIOUS
<1>6. Load(r) \in {2 * n + 1, 2 * n + 0, Cardinality(r.pending)}
  BY <1>4, Zenon DEF Load
<1>7. QED
  BY <1>1, <1>3, <1>5, <1>6, Zenon

\* A phase further.
LEMMA PhaseFalls ==
  ASSUME NEW r \in Search, NEW new \in Search, Phase(new) < Phase(r)
  PROVE  <<ToDo(new), ToDo(r)>> \in Less
<1>1. PICK p \in 1..9, q \in 1..9, l \in Nat, m \in Nat :
        p = Phase(new) /\ q = Phase(r) /\ l = Load(new) /\ m = Load(r)
  BY ToDoTyped
<1>2. p < q
  BY <1>1
<1>3. <<<<p, l>>, <<q, m>>>> \in Less
  BY <1>2, LessPairs
<1>4. QED
  BY <1>1, <1>3, Zenon DEF ToDo

\* The same phase with less to do.
LEMMA LoadFalls ==
  ASSUME NEW r \in Search, NEW new \in Search, Phase(new) = Phase(r), Load(new) < Load(r)
  PROVE  <<ToDo(new), ToDo(r)>> \in Less
<1>1. PICK p \in 1..9, l \in Nat, m \in Nat :
        p = Phase(new) /\ p = Phase(r) /\ l = Load(new) /\ m = Load(r)
  BY ToDoTyped
<1>2. l < m
  BY <1>1
<1>3. <<<<p, l>>, <<p, m>>>> \in Less
  BY <1>2, LessPairs
<1>4. QED
  BY <1>1, <1>3, Zenon DEF ToDo

\* Whatever a step of a search does to it, and to nobody else.
Nearer(s) ==
  \E new \in Search : /\ search' = [search EXCEPT ![s] = new]
                      /\ <<ToDo(new), ToDo(search[s])>> \in Less

\* A search is still one after a step of its own.
LEMMA MovedTyped ==
  ASSUME IInv', NEW s \in Searcher, NEW new, search = [t \in Searcher |-> search[t]],
         search' = [search EXCEPT ![s] = new]
  PROVE  new \in Search
<1>1. search'[s] = new
  BY DEF IInv
<1>2. search'[s] \in Search
  BY DEF IInv, Sound
<1>3. QED
  BY <1>1, <1>2

LEMMA NewPhase ==
  ASSUME IInv, IInv', NEW s \in Searcher, NEW new, search' = [search EXCEPT ![s] = new],
         Phase(new) < Phase(search[s])
  PROVE  Nearer(s)
<1>1. search[s] \in Search /\ new \in Search
  BY MovedTyped DEF IInv, Sound
<1>2. QED
  BY <1>1, PhaseFalls DEF Nearer

LEMMA LessLoad ==
  ASSUME IInv, IInv', NEW s \in Searcher, NEW new, search' = [search EXCEPT ![s] = new],
         Phase(new) = Phase(search[s]), Load(new) < Load(search[s])
  PROVE  Nearer(s)
<1>1. search[s] \in Search /\ new \in Search
  BY MovedTyped DEF IInv, Sound
<1>2. QED
  BY <1>1, LoadFalls DEF Nearer

LEMMA GateAdvances ==
  ASSUME IInv, IInv', NEW s \in Searcher, Gate(s) \/ GateFails(s)
  PROVE  Nearer(s)
<1> DEFINE r == search[s]
<1>1. r \in Search
  BY DEF IInv, Sound
<1>2. \A i \in DOMAIN r.cached : r.cached[i].key \in Key
  <2>1. r.cached \in Seq(Item) /\ \A item \in Item : item.key \in Key
    BY <1>1 DEF Search, Item
  <2> HIDE DEF r
  <2>2. \A i \in DOMAIN r.cached : r.cached[i] \in Item
    BY <2>1
  <2>3. QED
    BY <2>1, <2>2
<1>3. PICK q \in Search : search' = [search EXCEPT ![s] = Gated(q)]
  <2>1. CASE Gate(s)
    <3> DEFINE May(item) == Official(item) \/ RepoIdentities(item) \cap badged # {}
               servable == {item.key : item \in {i \in ToSet(r.cached) : May(i)}}
    <3>1. search' = [search EXCEPT ![s] = Gated([r EXCEPT !.servable = servable])]
      BY <2>1 DEF Gate, Becomes
    <3>2. servable \subseteq Key
      BY <1>2, Zenon DEF ToSet
    <3> HIDE DEF servable
    <3>3. [r EXCEPT !.servable = servable] \in Search
      BY <1>1, <3>2 DEF Search
    <3>4. QED
      BY <3>1, <3>3
  <2>2. CASE GateFails(s)
    <3> DEFINE servable == Keys(r.cached)
    <3>1. search' = [search EXCEPT ![s] = Gated([r EXCEPT !.servable = servable, !.open = TRUE])]
      BY <2>2 DEF GateFails, Becomes
    <3>2. servable \subseteq Key
      BY <1>2, Zenon DEF Keys
    <3> HIDE DEF servable
    <3>3. [r EXCEPT !.servable = servable, !.open = TRUE] \in Search
      BY <1>1, <3>2 DEF Search
    <3>4. QED
      BY <3>1, <3>3
  <2>3. QED
    BY <2>1, <2>2
<1>4. Phase(r) = 8
  BY DEF Gate, GateFails, Phase
<1>5. Gated(q).at \in {"present", "answer", "normalize", "sources"}
  <2> DEFINE shown == Truncate(Verified(q), LimitOr(q.query, Len(q.cached)))
             few == RankCatalogItems(Verified(q), q.query.want, Cap(q))
             pending == IF q.query.kind = "agent" THEN {} ELSE Officials
             at == IF Enabled = {} THEN "answer" ELSE IF q.query.kind = "agent" THEN "normalize" ELSE "sources"
  <2>1. \/ Gated(q) = [q EXCEPT !.at = "present", !.answer = shown]
        \/ Gated(q) = [q EXCEPT !.at = "present", !.early = TRUE, !.answer = few]
        \/ Gated(q) = [q EXCEPT !.pending = pending, !.at = at]
    BY DEF Gated
  <2>2. at \in {"answer", "normalize", "sources"}
    OBVIOUS
  <2> HIDE DEF shown, few, pending, at
  <2>3. QED
    BY <2>1, <2>2 DEF Search
<1>6. Phase(Gated(q)) \in {2, 3, 5, 7}
  BY <1>5 DEF Phase
<1> HIDE DEF r
<1>7. Phase(Gated(q)) < Phase(r)
  BY <1>4, <1>6
<1>8. QED
  BY <1>3, <1>7, NewPhase DEF r

LEMMA SourceAdvances ==
  ASSUME IInv, IInv', NEW s \in Searcher, NEW src \in Source, SourceAnswers(s, src) \/ SourceFails(s, src)
  PROVE  Nearer(s)
<1> DEFINE r == search[s]
           after(q) == [q EXCEPT !.pending = @ \ {src}, !.at = IF src = "github" THEN "normalize" ELSE @]
<1>1. r \in Search /\ Sound(r, Filed, everBadged, mode)
  BY DEF IInv, Sound
<1>2. src \in r.pending
  BY DEF SourceAnswers, SourceFails
<1>3. r.at \in {"sources", "github"} /\ (src = "github" <=> r.at = "github")
  BY <1>1, <1>2, PendingStage
<1>4. PICK q : /\ q.pending = r.pending /\ q.at = r.at /\ search' = [search EXCEPT ![s] = after(q)]
               /\ DOMAIN q = DOMAIN r
  <2>1. CASE SourceAnswers(s, src)
    <3> DEFINE page == IF src = "github"
                       THEN LET gap == Shortfall(r) - HowMany(r) IN IF gap < 1 THEN 1 ELSE gap
                       ELSE LimitOr(r.query, PerSource)
               first == Truncate(Offers[src], page)
               hits == Keep(first, {i \in DOMAIN first : ~Excluded(first[i])})
               q == [r EXCEPT !.got[src] = hits]
    <3>1. search' = [search EXCEPT ![s] = after(q)]
      BY <2>1 DEF SourceAnswers, Settles, Becomes
    <3>2. q.pending = r.pending /\ q.at = r.at /\ DOMAIN q = DOMAIN r
      BY <1>1 DEF Search
    <3> HIDE DEF r, q
    <3>3. QED
      BY <3>1, <3>2 DEF q
  <2>2. CASE SourceFails(s, src)
    <3> DEFINE q == [r EXCEPT !.failed = @ \cup {src}]
    <3>1. search' = [search EXCEPT ![s] = after(q)]
      BY <2>2 DEF SourceFails, Settles, Becomes
    <3>2. q.pending = r.pending /\ q.at = r.at /\ DOMAIN q = DOMAIN r
      BY <1>1 DEF Search
    <3> HIDE DEF r, q
    <3>3. QED
      BY <3>1, <3>2
  <2>3. QED
    BY <2>1, <2>2
<1>5. "at" \in DOMAIN r /\ "pending" \in DOMAIN r /\ r.pending \subseteq Source
  BY <1>1 DEF Search
<1> HIDE DEF r
<1>6. /\ after(q).pending = r.pending \ {src}
      /\ src = "github" => after(q).at = "normalize"
      /\ src # "github" => after(q).at = r.at
  BY <1>4, <1>5
<1> HIDE DEF after
<1>7. CASE src = "github"
  <2>1. Phase(after(q)) = 5 /\ Phase(r) = 6
    BY <1>3, <1>6, <1>7 DEF Phase
  <2>2. Phase(after(q)) < Phase(r)
    BY <2>1
  <2>3. QED
    BY <1>4, <2>2, NewPhase DEF r
<1>8. CASE src # "github"
  <2>1. after(q).at = "sources" /\ r.at = "sources"
    BY <1>3, <1>6, <1>8
  <2>2. Phase(after(q)) = Phase(r)
    BY <2>1 DEF Phase
  <2>3. Load(after(q)) = Cardinality(r.pending \ {src}) /\ Load(r) = Cardinality(r.pending)
    BY <1>6, <2>1 DEF Load
  <2>4. Load(after(q)) < Load(r)
    BY <1>2, <1>5, <2>3, PendingCounted
  <2>5. QED
    BY <1>4, <2>2, <2>4, LessLoad DEF r
<1>9. QED
  BY <1>7, <1>8

\* The remaining steps of a search lead to another phase, but for the writes.
LEMMA RestAdvances ==
  ASSUME IInv, IInv', NEW s \in Searcher,
         \/ Lookup(s) \/ LookupFails(s) \/ Cascade(s) \/ Answer(s) \/ Present(s)
         \/ \E blind \in BOOLEAN : Normalize(s, blind)
  PROVE  Nearer(s)
<1> DEFINE r == search[s]
<1>1. r \in Search
  BY DEF IInv, Sound
<1>2. search = [t \in Searcher |-> search[t]]
  BY DEF IInv
<1>3. search' = [search EXCEPT ![s] = search'[s]]
  BY <1>2 DEF Lookup, LookupFails, Cascade, Answer, Present, Normalize, Becomes
<1>4. \/ r.at = "lookup" /\ search'[s].at \in {"gate", "error"}
      \/ r.at = "sources" /\ search'[s].at \in {"github", "normalize"}
      \/ r.at \in {"answer", "get"} /\ search'[s].at = "present"
      \/ r.at = "present" /\ search'[s].at = "done"
      \/ r.at = "normalize" /\ search'[s].at = "get"
  <2>1. ASSUME NEW new, search' = [search EXCEPT ![s] = new]
        PROVE  search'[s] = new
    BY <1>2, <2>1
  <2>2. CASE Lookup(s)
    <3>1. PICK cached : search' = [search EXCEPT ![s] = [r EXCEPT !.at = "gate", !.cached = cached]]
      BY <2>2 DEF Lookup, Becomes
    <3>2. r.at = "lookup"
      BY <2>2 DEF Lookup
    <3> DEFINE new == [r EXCEPT !.at = "gate", !.cached = cached]
    <3>3. new.at = "gate"
      BY <1>1 DEF Search
    <3> HIDE DEF r, new
    <3>4. QED
      BY <2>1, <3>1, <3>2, <3>3 DEF new
  <2>3. CASE LookupFails(s)
    <3> DEFINE new == [r EXCEPT !.at = "error"]
    <3>1. search' = [search EXCEPT ![s] = new] /\ r.at = "lookup"
      BY <2>3 DEF LookupFails, Becomes
    <3>2. new.at = "error"
      BY <1>1 DEF Search
    <3> HIDE DEF r, new
    <3>3. QED
      BY <2>1, <3>1, <3>2
  <2>4. CASE Cascade(s)
    <3>1. PICK new \in {[r EXCEPT !.at = "normalize"], [r EXCEPT !.at = "github", !.pending = {"github"}]} :
            search' = [search EXCEPT ![s] = new]
      BY <2>4 DEF Cascade, Becomes
    <3>2. r.at = "sources"
      BY <2>4 DEF Cascade
    <3>3. new.at \in {"normalize", "github"}
      BY <1>1, <3>1 DEF Search
    <3> HIDE DEF r
    <3>4. QED
      BY <2>1, <3>1, <3>2, <3>3
  <2>5. CASE Answer(s)
    <3>1. PICK live, answer : search' = [search EXCEPT ![s] = [r EXCEPT !.at = "present", !.live = live, !.answer = answer]]
      BY <2>5 DEF Answer, Becomes
    <3>2. r.at \in {"answer", "get"}
      BY <2>5 DEF Answer
    <3> DEFINE new == [r EXCEPT !.at = "present", !.live = live, !.answer = answer]
    <3>3. new.at = "present"
      BY <1>1 DEF Search
    <3> HIDE DEF r, new
    <3>4. QED
      BY <2>1, <3>1, <3>2, <3>3 DEF new
  <2>6. CASE Present(s)
    <3> DEFINE answer == OrderByTier(r.answer, badged)
               new == [r EXCEPT !.at = "done", !.answer = answer]
    <3>1. search' = [search EXCEPT ![s] = new] /\ r.at = "present"
      BY <2>6 DEF Present, Becomes
    <3> HIDE DEF answer
    <3>2. new.at = "done"
      BY <1>1 DEF Search
    <3> HIDE DEF r, new
    <3>3. QED
      BY <2>1, <3>1, <3>2
  <2>7. ASSUME NEW blind \in BOOLEAN, Normalize(s, blind)
        PROVE  r.at = "normalize" /\ search'[s].at = "get"
    <3> DEFINE sizes == IF blind THEN [p \in DOMAIN Footprint |-> "unknown"] ELSE Footprint
               new == Normalized(r, sizes)
    <3>1. search' = [search EXCEPT ![s] = new] /\ r.at = "normalize"
      BY <2>7 DEF Normalize, Becomes, Normalized
    <3> HIDE DEF sizes
    <3>2. new.at = "get"
      BY <1>1 DEF Search, Normalized
    <3> HIDE DEF r, new
    <3>3. QED
      BY <2>1, <3>1, <3>2
  <2> HIDE DEF r
  <2>8. QED
    BY <2>2, <2>3, <2>4, <2>5, <2>6, <2>7
<1>5. Phase(search'[s]) < Phase(r)
  <2>1. PICK new : new = search'[s]
    OBVIOUS
  <2> HIDE DEF r
  <2>2. \/ Phase(r) = 9 /\ Phase(new) \in {8, 1}
        \/ Phase(r) = 7 /\ Phase(new) \in {6, 5}
        \/ Phase(r) \in {3, 4} /\ Phase(new) = 2
        \/ Phase(r) = 2 /\ Phase(new) = 1
        \/ Phase(r) = 5 /\ Phase(new) = 4
    BY <1>4, <2>1 DEF Phase
  <2>3. Phase(new) < Phase(r)
    BY <2>2
  <2>4. QED
    BY <2>1, <2>3
<1>6. PICK new : new = search'[s]
  OBVIOUS
<1>7. QED
  BY <1>3, <1>5, <1>6, NewPhase

\* Each write takes two steps, and gives its item up.
LEMMA WriteAdvances ==
  ASSUME IInv, IInv', NEW s \in Searcher, UpsertGet(s) \/ UpsertPut(s) \/ UpsertFails(s)
  PROVE  Nearer(s)
<1> DEFINE r == search[s]
<1>1. r \in Search /\ Sound(r, Filed, everBadged, mode)
  BY DEF IInv, Sound
<1>2. r.at \in {"get", "put"} /\ r.queue \in Seq(Item)
  BY <1>1 DEF UpsertGet, UpsertPut, UpsertFails, Search
<1>3. CASE Outage(s)
  <2> DEFINE new == [r EXCEPT !.at = "answer", !.live = "failed"]
  <2>1. search' = [search EXCEPT ![s] = new]
    BY <1>3 DEF Outage, Becomes
  <2>2. new.at = "answer"
    BY <1>1 DEF Search
  <2> HIDE DEF new, r
  <2>3. Phase(new) = 3 /\ Phase(r) = 4
    BY <1>2, <2>2 DEF Phase
  <2>4. Phase(new) < Phase(r)
    BY <2>3
  <2>5. QED
    BY <2>1, <2>4, NewPhase DEF r
<1>4. CASE UpsertGet(s)
  <2> DEFINE exists == r.queue[1].key \in DOMAIN catalog
             new == [r EXCEPT !.at = "put", !.exists = exists]
  <2>1. search' = [search EXCEPT ![s] = new] /\ r.at = "get"
    BY <1>4 DEF UpsertGet, Becomes
  <2> HIDE DEF exists
  <2>2. new.at = "put" /\ new.queue = r.queue
    BY <1>1 DEF Search
  <2> HIDE DEF new, r
  <2>3. Phase(new) = Phase(r)
    BY <2>1, <2>2 DEF Phase
  <2>4. PICK n \in Nat : n = Len(r.queue)
    BY <1>2
  <2>5. Load(r) = 2 * n + 1 /\ Load(new) = 2 * n + 0
    BY <2>1, <2>2, <2>4 DEF Load
  <2>6. Load(new) < Load(r)
    BY <2>5
  <2>7. QED
    BY <2>1, <2>3, <2>6, LessLoad DEF r
<1>5. CASE UpsertPut(s) /\ ~Outage(s)
  <2> DEFINE item == r.queue[1]
             queue == Tail(r.queue)
             stored == Append(r.stored, item)
             new == [r EXCEPT !.at = "get", !.queue = queue, !.stored = stored]
  <2>1. search' = [search EXCEPT ![s] = new] /\ r.at = "put"
    BY <1>5 DEF UpsertPut, Becomes
  <2>2. r.queue # <<>>
    BY <1>1, <2>1 DEF Sound, LiveSound
  <2>3. PICK n \in Nat : n = Len(queue) /\ Len(r.queue) = n + 1
    <3>1. PICK q \in Seq(Item) : q = r.queue
      BY <1>2
    <3>2. q # <<>>
      BY <2>2, <3>1
    <3>3. Len(q) \in Nat /\ Len(q) > 0 /\ Len(Tail(q)) = Len(q) - 1
      BY <3>2
    <3>4. PICK n \in Nat : n = Len(q)
      BY <3>3
    <3>5. n - 1 \in Nat /\ n - 1 = Len(Tail(q)) /\ Len(q) = (n - 1) + 1
      BY <3>3, <3>4
    <3>6. QED
      BY <3>1, <3>5
  <2> HIDE DEF queue, stored
  <2>4. new.at = "get" /\ new.queue = queue
    BY <1>1 DEF Search
  <2> HIDE DEF new, r
  <2>5. Phase(new) = Phase(r)
    BY <2>1, <2>4 DEF Phase
  <2>6. Load(r) = 2 * (n + 1) + 0 /\ Load(new) = 2 * n + 1
    BY <2>1, <2>3, <2>4 DEF Load
  <2>7. Load(new) < Load(r)
    BY <2>6
  <2>8. QED
    BY <2>1, <2>5, <2>7, LessLoad DEF r
<1>6. QED
  BY <1>3, <1>4, <1>5 DEF UpsertFails

LEMMA StepAdvances ==
  ASSUME IInv, IInv', NEW s \in Searcher, Step(s) \/ Fails(s)
  PROVE  Nearer(s)
<1>1. CASE Step(s)
  <2>1. CASE \E src \in Source : SourceAnswers(s, src)
    BY <2>1, SourceAdvances
  <2>2. CASE Gate(s) \/ UpsertGet(s) \/ UpsertPut(s)
    BY <2>2, GateAdvances, WriteAdvances
  <2>3. CASE Lookup(s) \/ Cascade(s) \/ Normalize(s, FALSE) \/ Answer(s) \/ Present(s)
    BY <2>3, RestAdvances
  <2>4. QED
    BY <1>1, <2>1, <2>2, <2>3 DEF Step
<1>2. CASE Fails(s)
  <2>1. CASE \E src \in Source : SourceFails(s, src)
    BY <2>1, SourceAdvances
  <2>2. CASE GateFails(s) \/ UpsertFails(s)
    BY <2>2, GateAdvances, WriteAdvances
  <2>3. CASE LookupFails(s) \/ Normalize(s, TRUE)
    BY <2>3, RestAdvances
  <2>4. QED
    BY <1>2, <2>1, <2>2, <2>3 DEF Fails
<1>3. QED
  BY <1>1, <1>2

-----------------------------------------------------------------------------
(* The theorems.                                                            *)

\* Every row is filed under its identity, no answer is longer than its cap and
\* whatever a search stores was approved: of search/application.py and
\* db/repositories.py.
THEOREM SearchTypeCorrect ==
  Spec => []TypeOK
<1>1. IInv => TypeOK
  <2> SUFFICES ASSUME IInv PROVE TypeOK
    OBVIOUS
  <2>1. search \in [Searcher -> Search]
    BY DEF IInv, Sound
  <2>2. ASSUME NEW s \in Searcher
        PROVE  LET r == search[s] IN
                 /\ r.pending \subseteq Enabled
                 /\ Len(r.answer) <= (IF mode = "cached" THEN LimitOr(r.query, PerSource) ELSE Cap(r))
                 /\ \A item \in ToSet(r.stored) : item.score >= Threshold
    <3>1. Sound(search[s], Filed, everBadged, mode)
      BY DEF IInv
    <3>2. QED
      BY <3>1 DEF Sound, Bounded, LiveSound, Discovered
  <2>3. QED
    BY <2>1, <2>2 DEF IInv, StoreSound, TypeOK
<1>2. QED
  BY <1>1, Invariance, PTL

\* Whatever the gate, discovery and the merge put on the page had a badge, is a
\* vendor's own or was approved by that search, unless badges could not be read
\* (_servable_cached_results).
THEOREM SearchShownIsEntitled ==
  Spec => []ShownIsEntitled
<1>1. IInv => ShownIsEntitled
  BY DEF IInv, Sound, AnswerSound, Shown, Seen, ShownIsEntitled
<1>2. QED
  BY <1>1, Invariance, PTL

\* Whatever is shown was stored before, by whichever search, and nothing but the
\* pruning script takes it away (upsert_catalog_item, prune_oversized_items).
THEOREM SearchShownCanBeOpened ==
  Spec => []ShownCanBeOpened
<1>1. IInv => ShownCanBeOpened
  <2> SUFFICES ASSUME IInv, NEW s \in Searcher, search[s].at = "done"
               PROVE  Keys(search[s].answer) \subseteq DOMAIN catalog \cup pruned
    BY DEF ShownCanBeOpened
  <2>1. \A item \in ToSet(search[s].answer) : item.key \in Filed
    BY DEF IInv, Sound, AnswerSound, Shown
  <2>2. QED
    BY <2>1 DEF Keys, ToSet, Filed
<1>2. QED
  BY <1>1, Invariance, PTL

\* Rows that may be shown are shown, or others with them, however discovery and
\* the merge end (ApplicationSearchService.search).
THEOREM SearchNeverBlank ==
  Spec => []NeverBlank
<1>1. IInv => NeverBlank
  BY DEF IInv, Sound, AnswerSound, NeverBlank
<1>2. QED
  BY <1>1, Invariance, PTL

\* No candidate is lost between the source that answered and the rows that are
\* written (Phase10Pipeline.process, _deduplicate).
THEOREM SearchCandidatesAreAccountedFor ==
  Spec => []CandidatesAreAccountedFor
<1>1. IInv => CandidatesAreAccountedFor
  <2>1. Enabled \subseteq Source
    BY SearchAssumption
  <2>2. QED
    BY <2>1 DEF IInv, Sound, LiveSound, Covered, CandidatesAreAccountedFor
<1>2. QED
  BY <1>1, Invariance, PTL

\* A merged answer stands for every repository at most once (_merge_items).
THEOREM SearchOneRowPerRepository ==
  Spec => []OneRowPerRepository
<1>1. IInv => OneRowPerRepository
  BY DEF IInv, Sound, AnswerSound, Disjoint, OneRowPerRepository
<1>2. QED
  BY <1>1, Invariance, PTL

\* A page is ordered by tiers and, within a tier, by how well names fit: neither
\* source, score, bonus nor the merge puts a worse fit above a better one
\* (rank_items, order_results_by_tier).
THEOREM SearchShownInOrder ==
  Spec => []ShownInOrder
<1>1. Init => OrderInv
  BY IdleInOrder DEF Init, OrderInv
<1>2. IInv /\ OrderInv /\ [Next]_vars => OrderInv'
  BY NextInOrder
<1>3. OrderInv => ShownInOrder
  BY DEF OrderInv, InOrder, Tiered, Plain, ShownInOrder
<1>4. QED
  BY <1>1, <1>2, <1>3, Invariance, PTL DEF Spec

\* Whatever sources, database and the other searches do, a search that has begun
\* comes nearer to its answer with every step it takes: no source is heard twice, no
\* item is written twice, and no failure sends it back (mcp_adapter.py, pipeline.py).
\* The order of what is left to do is well-founded, so its steps are finitely many.
THEOREM SearchDescends ==
  /\ IsWellFoundedOn(Less, Nat \X Nat)
  /\ Spec => [][\A s \in Searcher :
                  search'[s] # search[s] =>
                    \/ search[s].at \in {"idle", "done", "error"}
                    \/ <<ToDo(search'[s]), ToDo(search[s])>> \in Less]_vars
<1> DEFINE Down(s) == search'[s] # search[s] =>
                        \/ search[s].at \in {"idle", "done", "error"}
                        \/ <<ToDo(search'[s]), ToDo(search[s])>> \in Less
<1>1. ASSUME IInv, IInv', [Next]_vars, NEW s \in Searcher PROVE Down(s)
  <2>1. search = [t \in Searcher |-> search[t]]
    BY <1>1 DEF IInv
  <2>2. ASSUME NEW t \in Searcher, NEW new, search' = [search EXCEPT ![t] = new]
        PROVE  search'[s] # search[s] => s = t /\ search'[s] = new
    BY <2>1, <2>2
  <2>3. ASSUME NEW t \in Searcher, Step(t) \/ Fails(t) PROVE Down(s)
    <3>1. PICK new \in Search : /\ search' = [search EXCEPT ![t] = new]
                                /\ <<ToDo(new), ToDo(search[t])>> \in Less
      BY <1>1, <2>3, StepAdvances DEF Nearer
    <3>2. search'[s] # search[s] => s = t /\ search'[s] = new
      BY <2>2, <3>1
    <3>3. QED
      BY <3>1, <3>2, Zenon
  <2>4. ASSUME NEW t \in Searcher, Leave(t) \/ \E q \in Query : Ask(t, q) PROVE Down(s)
    <3>1. PICK new : search' = [search EXCEPT ![t] = new]
      BY <2>4 DEF Leave, Ask, Becomes
    <3>2. search[t].at \in {"idle", "done", "error"}
      BY <2>4 DEF Leave, Ask
    <3>3. QED
      BY <2>2, <3>1, <3>2
  <2>5. CASE Surroundings \/ UNCHANGED vars
    <3>1. search' = search
      BY <2>5 DEF Surroundings, BadgeGiven, BadgeTaken, Prune, vars
    <3>2. QED
      BY <3>1
  <2>6. QED
    BY <1>1, <2>3, <2>4, <2>5 DEF Next
<1>2. IInv /\ IInv' /\ [Next]_vars => [\A s \in Searcher : Down(s)]_vars
  BY <1>1
<1>3. Spec => [][\A s \in Searcher : Down(s)]_vars
  BY Invariance, <1>2, PTL DEF Spec
<1>4. QED
  BY <1>3, LessIsWellFounded
=============================================================================
