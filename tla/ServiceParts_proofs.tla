------------------------- MODULE ServiceParts_proofs -------------------------
(***************************************************************************)
(* Theorems about the parts of ServiceParts, for any number of servers,    *)
(* callers, keys, versions, messages and calls: what is shared through     *)
(* Redis, the version tables of the SM9 and secret managers, the second    *)
(* factor, and what counts accesses.                                       *)
(***************************************************************************)
EXTENDS ServiceParts, FiniteSetTheorems, SequenceTheorems, TLAPS

\* A set of natural numbers that is not empty has a least element.
LEMMA LeastNatural ==
    ASSUME NEW T \in SUBSET Nat, T # {}
    PROVE  \E x \in T : \A y \in T : x <= y
<1> DEFINE R == {ss \in Nat \X Nat : ss[1] < ss[2]}
<1>1. IsWellFoundedOn(R, Nat)
  BY NatLessThanWellFounded DEF OpToRel
<1>2. \A x, y \in Nat : <<y, x>> \notin R => x <= y
  OBVIOUS
<1>3. \E x \in T : \A y \in T : <<y, x>> \notin R
  <2> HIDE DEF R
  <2> QED
    BY <1>1, WFMin
<1> HIDE DEF R
<1> QED
  BY <1>2, <1>3

\* Indices that are kept from some point on are an interval.
LEMMA UpwardIsInterval ==
    ASSUME NEW n \in Nat, NEW X \in SUBSET (1 .. n),
           \A i, j \in 1 .. n : i <= j /\ i \in X => j \in X
    PROVE  \E q \in 0 .. n : X = (q + 1) .. n
<1>1. CASE X = {}
  <2>1. X = (n + 1) .. n
    BY <1>1
  <2> QED
    BY <2>1
<1>2. CASE X # {}
  <2>1. X \in SUBSET Nat
    OBVIOUS
  <2>2. PICK x \in X : \A y \in X : x <= y
    BY <1>2, <2>1, LeastNatural
  <2>3. x \in 1 .. n
    OBVIOUS
  <2>4. X \subseteq x .. n
    BY <2>2, <2>3
  <2>5. x .. n \subseteq X
    BY <2>2, <2>3
  <2>6. x - 1 \in 0 .. n /\ (x - 1) + 1 = x
    BY <2>3
  <2> QED
    BY <2>4, <2>5, <2>6
<1> QED
  BY <1>1, <1>2

\* Retaining the indices after q is dropping the first q elements.
LEMMA RetainedSuffix ==
    ASSUME NEW S, NEW seq \in Seq(S), NEW q \in 0 .. Len(seq)
    PROVE  /\ Retained(seq, (q + 1) .. Len(seq)) \in Seq(S)
           /\ Len(Retained(seq, (q + 1) .. Len(seq))) = Len(seq) - q
           /\ \A j \in 1 .. Len(seq) - q :
                Retained(seq, (q + 1) .. Len(seq))[j] = seq[q + j]
<1>1. PICK n \in Nat : n = Len(seq) /\ q \in 0 .. n /\ n - q \in Nat
  OBVIOUS
<1> DEFINE kept == (q + 1) .. n
           r == Retained(seq, kept)
<1>2. \A a, b \in Int : Cardinality(a .. b) = IF a > b THEN 0 ELSE b - a + 1
  BY FS_Interval
<1>3. Cardinality(kept) = n - q
  <2>1. q + 1 \in Int /\ n \in Int /\ (q + 1 > n => n - q = 0) /\ n - (q + 1) + 1 = n - q
    BY <1>1
  <2> QED
    BY <1>2, <2>1
<1>4. ASSUME NEW j \in 1 .. n - q
      PROVE  (CHOOSE i \in kept : Cardinality({l \in kept : l <= i}) = j) = q + j
  <2>1. \A i \in kept : {l \in kept : l <= i} = (q + 1) .. i
    BY <1>1
  <2>2. \A i \in kept : Cardinality((q + 1) .. i) = i - q
    BY <1>1, <1>2
  <2>3. \A i \in kept : Cardinality({l \in kept : l <= i}) = i - q
    BY <2>1, <2>2
  <2>4. q + j \in kept
    BY <1>1
  <2>5. \A i \in kept : i - q = j <=> i = q + j
    BY <1>1
  <2>6. \A i \in kept : Cardinality({l \in kept : l <= i}) = j <=> i = q + j
    BY <2>3, <2>5
  <2> HIDE DEF kept
  <2> QED
    BY <2>4, <2>6
<1>5. r = [j \in 1 .. n - q |-> seq[CHOOSE i \in kept : Cardinality({l \in kept : l <= i}) = j]]
  BY <1>3 DEF Retained
<1>6. \A j \in 1 .. n - q : r[j] = seq[q + j]
  <2> HIDE DEF kept, r
  <2> QED
    BY <1>4, <1>5
<1>7. r \in Seq(S) /\ Len(r) = n - q
  <2>1. \A j \in 1 .. n - q : q + j \in 1 .. n /\ seq[q + j] \in S
    BY <1>1
  <2>2. r \in [1 .. n - q -> S]
    <3> HIDE DEF kept, r
    <3> QED
      BY <1>4, <1>5, <2>1
  <2> HIDE DEF kept, r
  <2> QED
    BY <1>1, <2>2
<1> HIDE DEF kept, r
<1>8. r = Retained(seq, (q + 1) .. Len(seq))
  BY <1>1 DEF kept, r
<1> QED
  BY <1>1, <1>6, <1>7, <1>8

\* Whatever is retained, it is a sequence of elements that were there.
LEMMA RetainedTyped ==
    ASSUME NEW S, NEW seq \in Seq(S), NEW X \in SUBSET DOMAIN seq
    PROVE  Retained(seq, X) \in Seq(S)
<1>1. PICK N \in Nat : N = Len(seq) /\ X \in SUBSET (1 .. N)
  OBVIOUS
<1>2. IsFiniteSet(1 .. N)
  BY <1>1, FS_Interval
<1>3. IsFiniteSet(X) /\ Cardinality(X) \in Nat
  BY <1>1, <1>2, FS_Subset, FS_CardinalityType
<1> DEFINE Upto(k) == {j \in X : j <= k}
<1>4. \A k : Upto(k) \subseteq X
  OBVIOUS
<1>5. \A k : IsFiniteSet(Upto(k)) /\ Cardinality(Upto(k)) \in Nat
  <2> HIDE DEF Upto
  <2> QED
    BY <1>3, <1>4, FS_Subset, FS_CardinalityType
<1>6. ASSUME NEW n \in 1 .. Cardinality(X)
      PROVE  \E i \in X : Cardinality(Upto(i)) = n
  <2>1. PICK T \in SUBSET Nat : T = {k \in Nat : Cardinality(Upto(k)) >= n}
    OBVIOUS
  <2>2. Upto(N) = X
    BY <1>1
  <2>0. n \in Nat /\ 1 <= n /\ n <= Cardinality(X)
    BY <1>3
  <2>3. N \in T
    <3> HIDE DEF Upto
    <3>1. Cardinality(Upto(N)) >= n
      BY <1>3, <2>0, <2>2
    <3> QED
      BY <2>1, <3>1
  <2>4. PICK k \in T : \A y \in T : k <= y
    BY <2>3, LeastNatural
  <2>5. k \in Nat /\ Cardinality(Upto(k)) >= n
    BY <2>1
  <2>6. Cardinality(Upto(0)) = 0
    <3>1. \A j \in X : ~(j <= 0)
      BY <1>1
    <3>2. Upto(0) = {}
      BY <3>1
    <3> HIDE DEF Upto
    <3> QED
      BY <3>2, FS_EmptySet, Zenon
  <2>7. k # 0
    <3> HIDE DEF Upto
    <3>1. ~(0 >= n)
      BY <2>0
    <3> QED
      BY <2>5, <2>6, <3>1
  <2>8. k - 1 \in Nat /\ k - 1 \notin T
    <3>1. k - 1 \in Nat /\ ~(k <= k - 1)
      BY <2>5, <2>7
    <3> QED
      BY <2>4, <3>1
  <2>9. ~(Cardinality(Upto(k - 1)) >= n)
    <3> HIDE DEF Upto
    <3> QED
      BY <2>1, <2>8
  <2>10. k \in X
    <3> SUFFICES ASSUME k \notin X PROVE FALSE
      OBVIOUS
    <3>1. \A j \in X : j <= k <=> j <= k - 1
      BY <1>1, <2>5, <2>7
    <3>2. Upto(k) = Upto(k - 1)
      BY <3>1
    <3> HIDE DEF Upto
    <3> QED
      BY <2>5, <2>9, <3>2
  <2>11. Upto(k) = Upto(k - 1) \cup {k} /\ k \notin Upto(k - 1)
    <3>1. \A j \in X : j <= k <=> (j <= k - 1 \/ j = k)
      BY <1>1, <2>5, <2>7
    <3>2. ~(k <= k - 1)
      BY <2>5
    <3> QED
      BY <2>10, <3>1, <3>2
  <2>12. Cardinality(Upto(k)) = Cardinality(Upto(k - 1)) + 1
    <3> HIDE DEF Upto
    <3> QED
      BY <1>5, <2>11, FS_AddElement
  <2>13. Cardinality(Upto(k - 1)) \in Nat
    BY <1>5
  <2>14. Cardinality(Upto(k)) = n
    <3> HIDE DEF Upto
    <3> QED
      BY <1>3, <2>5, <2>9, <2>12, <2>13
  <2> QED
    BY <2>10, <2>14
<1>7. \A n \in 1 .. Cardinality(X) : (CHOOSE i \in X : Cardinality(Upto(i)) = n) \in X
  <2> HIDE DEF Upto
  <2> QED
    BY <1>6
<1>8. \A i \in X : seq[i] \in S
  BY <1>1
<1>9. Retained(seq, X) =
        [n \in 1 .. Cardinality(X) |-> seq[CHOOSE i \in X : Cardinality(Upto(i)) = n]]
  BY DEF Retained
<1>10. Retained(seq, X) \in [1 .. Cardinality(X) -> S]
  <2> HIDE DEF Upto
  <2> QED
    BY <1>7, <1>8, <1>9
<1> QED
  BY <1>3, <1>10

\* A sequence with one more element at its end.
LEMMA EntryAppended ==
    ASSUME NEW S, NEW s \in Seq(S), NEW e \in S
    PROVE  /\ Append(s, e) \in Seq(S) /\ Len(Append(s, e)) = Len(s) + 1
           /\ \A i \in 1 .. Len(s) : Append(s, e)[i] = s[i]
           /\ Append(s, e)[Len(s) + 1] = e
  OBVIOUS

\* A sequence without its first element.
LEMMA OldestDropped ==
    ASSUME NEW S, NEW s \in Seq(S), Len(s) > 0
    PROVE  \E x \in Seq(S) :
             x = Tail(s) /\ Len(x) = Len(s) - 1 /\ \A j \in 1 .. Len(s) - 1 : x[j] = s[j + 1]
<1>1. s # <<>>
  OBVIOUS
<1>2. Tail(s) \in Seq(S) /\ Len(Tail(s)) = Len(s) - 1
  BY <1>1
<1>3. \A j \in 1 .. Len(s) - 1 : Tail(s)[j] = s[j + 1]
  BY <1>1
<1> QED
  BY <1>2, <1>3

(***************************************************************************)
(* The Redis decorator.  CacheHeals is not inductive: that an entry is no  *)
(* older than the suspicion against it rests on what the calls that are    *)
(* under way are about to do.  CachedInv says that two calls that share a  *)
(* key both know of it, that a call about to change the store has emptied  *)
(* the cache or left it under suspicion, and that a call about to fill the *)
(* cache has what the store holds, unless it was raced.                    *)
(***************************************************************************)

KeyMeta == [version : Nat, status : {"None", "Active", "Obsolete", "PendingDeletion"}]
CacheEntry == {NoCached} \cup [meta : KeyMeta, ttl : 1 .. CacheTtl]
CacheRequest ==
    [at : {"idle", "invalidate", "change", "fill", "answered"},
     op : {"none", "generate", "import", "read", "rotate", "delete", "destroy"},
     key : CachedKeys \cup {"none"}, meta : KeyMeta, ok : BOOLEAN,
     saw : SUBSET KeyMeta, raced : BOOLEAN]

CachedTypeOK ==
    /\ inPlace \in BOOLEAN
    /\ stored \in [CachedKeys -> KeyMeta]
    /\ cached \in [CachedKeys -> CacheEntry]
    /\ request \in [CacheCallers -> CacheRequest]
    /\ suspect \in [CachedKeys -> 0 .. CacheTtl]
    /\ \A c \in CacheCallers : Running(request[c]) => request[c].key \in CachedKeys

\* The entry of k is gone before the suspicion against it.
Covered(k) == cached[k] = NoCached \/ cached[k].ttl <= suspect[k]
EntriesHold == \A k \in CachedKeys : Covered(k) \/ cached[k].meta = stored[k]
SharersKnow ==
    \A c, d \in CacheCallers :
        c # d /\ Running(request[c]) /\ Running(request[d]) /\ request[c].key = request[d].key
          => request[c].raced = TRUE
ChangesCovered ==
    \A c \in CacheCallers : request[c].at = "change" => Covered(request[c].key)
FillsCurrent ==
    \A c \in CacheCallers :
        request[c].at = "fill" /\ request[c].raced = FALSE =>
          request[c].meta = stored[request[c].key]
ReadsSeen ==
    \A c \in CacheCallers :
        request[c].at \in {"fill", "answered"} /\ request[c].op = "read" /\ request[c].ok = TRUE
          => request[c].meta \in request[c].saw

CachedInv ==
    /\ CachedTypeOK /\ EntriesHold /\ SharersKnow /\ ChangesCovered /\ FillsCurrent /\ ReadsSeen

\* A call that runs is at one of three places.
LEMMA RunningAt ==
    ASSUME NEW q \in CacheRequest
    PROVE  Running(q) <=> q.at \in {"invalidate", "change", "fill"}
  BY DEF Running, CacheRequest

\* What a step of caller c, going on as r over the store s, leaves of the calls:
\* its own and those it shares the key with have seen the store and know of one
\* another, and the key is under suspicion if the call was raced.
LEMMA ProceedEffect ==
    ASSUME CachedTypeOK, CacheTtl \in Nat \ {0}, NEW c \in CacheCallers, NEW r \in CacheRequest,
           r.key \in CachedKeys, NEW s \in [CachedKeys -> KeyMeta], Proceed(c, r, s)
    PROVE  /\ stored' = s /\ inPlace' = inPlace
           /\ request' \in [CacheCallers -> CacheRequest]
           /\ suspect' \in [CachedKeys -> 0 .. CacheTtl]
           /\ \A k \in CachedKeys : suspect'[k] >= suspect[k]
           /\ /\ request'[c].at = r.at /\ request'[c].op = r.op /\ request'[c].key = r.key
              /\ request'[c].meta = r.meta /\ request'[c].ok = r.ok
              /\ request'[c].saw = r.saw \cup {s[r.key]}
              /\ r.raced = TRUE => request'[c].raced = TRUE
              /\ Overlapping(c, r.key) # {} => request'[c].raced = TRUE
              /\ request'[c].raced = TRUE => suspect'[r.key] = CacheTtl
           /\ \A d \in CacheCallers \ {c} :
              /\ request'[d].at = request[d].at /\ request'[d].op = request[d].op
              /\ request'[d].key = request[d].key /\ request'[d].meta = request[d].meta
              /\ request'[d].ok = request[d].ok
              /\ request[d].saw \subseteq request'[d].saw
              /\ request[d].raced = TRUE => request'[d].raced = TRUE
              /\ d \in Overlapping(c, r.key) => request'[d].raced = TRUE
<1> DEFINE others == Overlapping(c, r.key)
<1>1. PICK b \in BOOLEAN : b = (r.raced \/ others # {})
  BY Zenon DEF CacheRequest
<1>2. (r.raced = TRUE => b = TRUE) /\ (others # {} => b = TRUE)
  BY <1>1, Zenon
<1>3. PICK mine \in CacheRequest : mine = [r EXCEPT !.raced = b]
  <2>1. [r EXCEPT !.raced = b] \in CacheRequest
    BY DEF CacheRequest
  <2> QED
    BY <2>1
<1>4. mine = [r EXCEPT !.raced = r.raced \/ others # {}]
  BY <1>1, <1>3
<1>5. /\ mine.at = r.at /\ mine.op = r.op /\ mine.key = r.key /\ mine.meta = r.meta
      /\ mine.ok = r.ok /\ mine.saw = r.saw /\ mine.raced = b
  BY <1>3 DEF CacheRequest
<1> DEFINE Noted(q) == [q EXCEPT !.saw = q.saw \cup {s[q.key]}]
<1>6. \A q \in CacheRequest : q.key \in CachedKeys =>
         /\ Noted(q) \in CacheRequest
         /\ Noted(q).at = q.at /\ Noted(q).op = q.op
         /\ Noted(q).key = q.key /\ Noted(q).meta = q.meta
         /\ Noted(q).ok = q.ok /\ Noted(q).raced = q.raced
         /\ Noted(q).saw = q.saw \cup {s[q.key]}
  BY DEF CacheRequest
<1>7. \A q \in CacheRequest :
         /\ [q EXCEPT !.raced = TRUE] \in CacheRequest
         /\ [q EXCEPT !.raced = TRUE].at = q.at /\ [q EXCEPT !.raced = TRUE].op = q.op
         /\ [q EXCEPT !.raced = TRUE].key = q.key /\ [q EXCEPT !.raced = TRUE].meta = q.meta
         /\ [q EXCEPT !.raced = TRUE].ok = q.ok /\ [q EXCEPT !.raced = TRUE].saw = q.saw
         /\ [q EXCEPT !.raced = TRUE].raced = TRUE
  BY DEF CacheRequest
<1>8. request' = [d \in CacheCallers |->
                    IF d = c THEN Noted(mine)
                    ELSE IF d \in others THEN [Noted(request[d]) EXCEPT !.raced = TRUE]
                    ELSE request[d]]
  BY <1>4 DEF Proceed
<1>9. c \notin others /\ \A d \in others : d \in CacheCallers /\ request[d].key \in CachedKeys
  BY DEF Overlapping
<1>10. request'[c] = Noted(mine)
  BY <1>8
<1>11. \A d \in CacheCallers \ {c} :
         /\ d \in others => request'[d] = [Noted(request[d]) EXCEPT !.raced = TRUE]
         /\ d \notin others => request'[d] = request[d]
  BY <1>8
<1>12. request \in [CacheCallers -> CacheRequest]
  BY DEF CachedTypeOK
<1>13. Noted(mine) \in CacheRequest /\ \A d \in others : Noted(request[d]) \in CacheRequest
  <2> HIDE DEF others, Noted
  <2> QED
    BY <1>5, <1>6, <1>9, <1>12
<1>14. request' \in [CacheCallers -> CacheRequest]
  <2>1. \A d \in CacheCallers : request'[d] \in CacheRequest
    <3> SUFFICES ASSUME NEW d \in CacheCallers PROVE request'[d] \in CacheRequest
      OBVIOUS
    <3>1. CASE d = c
      BY <3>1, <1>10, <1>13
    <3>2. CASE d # c /\ d \in others
      <4>1. PICK w \in CacheRequest : w = Noted(request[d])
        BY <3>2, <1>13
      <4> QED
        BY <3>2, <4>1, <1>7, <1>11
    <3>3. CASE d # c /\ d \notin others
      BY <3>3, <1>11, <1>12
    <3> QED
      BY <3>1, <3>2, <3>3
  <2>2. request' = [d \in CacheCallers |-> request'[d]]
    BY <1>8
  <2> QED
    BY <2>1, <2>2
<1>15. suspect' = IF b = TRUE THEN [suspect EXCEPT ![r.key] = CacheTtl] ELSE suspect
  <2>1. suspect' = IF mine.raced THEN [suspect EXCEPT ![r.key] = CacheTtl] ELSE suspect
    BY <1>4 DEF Proceed
  <2> QED
    BY <2>1, <1>5, Zenon
<1>16. /\ suspect' \in [CachedKeys -> 0 .. CacheTtl]
       /\ \A k \in CachedKeys : suspect'[k] >= suspect[k]
       /\ b = TRUE => suspect'[r.key] = CacheTtl
  <2>1. suspect \in [CachedKeys -> 0 .. CacheTtl]
    BY DEF CachedTypeOK
  <2> QED
    BY <1>15, <2>1
<1>17. \A d \in CacheCallers \ {c} :
         /\ request'[d].at = request[d].at /\ request'[d].op = request[d].op
         /\ request'[d].key = request[d].key /\ request'[d].meta = request[d].meta
         /\ request'[d].ok = request[d].ok
         /\ request[d].saw \subseteq request'[d].saw
         /\ request[d].raced = TRUE => request'[d].raced = TRUE
         /\ d \in others => request'[d].raced = TRUE
  <2> SUFFICES ASSUME NEW d \in CacheCallers \ {c}, d \in others
               PROVE  /\ request'[d].at = request[d].at /\ request'[d].op = request[d].op
                      /\ request'[d].key = request[d].key /\ request'[d].meta = request[d].meta
                      /\ request'[d].ok = request[d].ok
                      /\ request[d].saw \subseteq request'[d].saw
                      /\ request'[d].raced = TRUE
    BY <1>11
  <2>1. PICK q \in CacheRequest : q = request[d] /\ q.key \in CachedKeys
    BY <1>9, <1>12
  <2>2. PICK w \in CacheRequest : w = Noted(q)
    BY <1>6, <2>1
  <2>3. /\ w.at = q.at /\ w.op = q.op /\ w.key = q.key /\ w.meta = q.meta /\ w.ok = q.ok
        /\ w.saw = q.saw \cup {s[q.key]}
    <3> HIDE DEF Noted
    <3> QED
      BY <1>6, <2>1, <2>2
  <2>4. request'[d] = [w EXCEPT !.raced = TRUE]
    BY <1>11, <2>1, <2>2
  <2> QED
    BY <1>7, <2>1, <2>3, <2>4
<1>18. /\ request'[c].at = r.at /\ request'[c].op = r.op /\ request'[c].key = r.key
       /\ request'[c].meta = r.meta /\ request'[c].ok = r.ok
       /\ request'[c].saw = r.saw \cup {s[r.key]} /\ request'[c].raced = b
  <2> HIDE DEF Noted
  <2> QED
    BY <1>5, <1>6, <1>10
<1>19. stored' = s /\ inPlace' = inPlace
  BY DEF Proceed
<1> HIDE DEF others, Noted
<1>20. others = Overlapping(c, r.key)
  BY DEF others
<1> QED
  BY <1>2, <1>14, <1>16, <1>17, <1>18, <1>19, <1>20

\* A step of caller c, going on as r over the store s, is in order when it changes
\* the store only where the cache is empty or suspect and where no call that was
\* not raced relies on it, when the entry v it leaves is empty, what the store
\* holds, or suspect, and when what it is about to do or to answer is right.
StoreInOrder(c, r, s) ==
    \A k \in CachedKeys : s[k] # stored[k] =>
        /\ Covered(k)
        /\ \A d \in CacheCallers \ {c} :
             Running(request[d]) /\ request[d].key = k /\ request[d].raced = FALSE => k = r.key
EntryInOrder(r, s, v) ==
    /\ v = cached[r.key] \/ v = NoCached \/ v.meta = s[r.key] \/ r.raced = TRUE
    /\ r.at = "change" => v = NoCached \/ r.raced = TRUE
CallInOrder(r, s) ==
    /\ r.at = "fill" /\ r.raced = FALSE => r.meta = s[r.key]
    /\ r.at \in {"fill", "answered"} /\ r.op = "read" /\ r.ok = TRUE
         => r.meta \in r.saw \cup {s[r.key]}

\* A step that is in order preserves the invariant.
LEMMA ProceedPreserves ==
    ASSUME CachedInv, CacheTtl \in Nat \ {0}, NEW c \in CacheCallers, NEW r \in CacheRequest,
           r.key \in CachedKeys, NEW s \in [CachedKeys -> KeyMeta], Proceed(c, r, s),
           NEW v \in CacheEntry, cached' = [cached EXCEPT ![r.key] = v],
           StoreInOrder(c, r, s), EntryInOrder(r, s, v), CallInOrder(r, s)
    PROVE  CachedInv'
<1>1. CachedTypeOK
  BY DEF CachedInv
<1>2. /\ stored' = s /\ inPlace' = inPlace
      /\ request' \in [CacheCallers -> CacheRequest]
      /\ suspect' \in [CachedKeys -> 0 .. CacheTtl]
      /\ \A k \in CachedKeys : suspect'[k] >= suspect[k]
  BY <1>1, ProceedEffect
<1>3. /\ request'[c].at = r.at /\ request'[c].op = r.op /\ request'[c].key = r.key
      /\ request'[c].meta = r.meta /\ request'[c].ok = r.ok
      /\ request'[c].saw = r.saw \cup {s[r.key]}
      /\ r.raced = TRUE => request'[c].raced = TRUE
      /\ Overlapping(c, r.key) # {} => request'[c].raced = TRUE
      /\ request'[c].raced = TRUE => suspect'[r.key] = CacheTtl
  BY <1>1, ProceedEffect, ZenonT(60)
<1>4. \A d \in CacheCallers \ {c} :
      /\ request'[d].at = request[d].at /\ request'[d].op = request[d].op
      /\ request'[d].key = request[d].key /\ request'[d].meta = request[d].meta
      /\ request'[d].ok = request[d].ok
      /\ request[d].saw \subseteq request'[d].saw
      /\ request[d].raced = TRUE => request'[d].raced = TRUE
      /\ d \in Overlapping(c, r.key) => request'[d].raced = TRUE
  BY <1>1, ProceedEffect
<1>5. /\ request \in [CacheCallers -> CacheRequest] /\ stored \in [CachedKeys -> KeyMeta]
      /\ cached \in [CachedKeys -> CacheEntry] /\ suspect \in [CachedKeys -> 0 .. CacheTtl]
      /\ \A d \in CacheCallers : Running(request[d]) => request[d].key \in CachedKeys
  BY <1>1 DEF CachedTypeOK
<1>6. \A d \in CacheCallers :
        /\ request[d].raced \in {TRUE, FALSE} /\ request'[d].raced \in {TRUE, FALSE}
        /\ r.raced \in {TRUE, FALSE}
  BY <1>2, <1>5 DEF CacheRequest
<1>7. \A d \in CacheCallers \ {c} : Running(request'[d]) <=> Running(request[d])
  BY <1>4 DEF Running
<1>8. \A d \in CacheCallers \ {c} :
        Running(request[d]) /\ request[d].key = r.key => d \in Overlapping(c, r.key)
  BY DEF Overlapping
<1>9. /\ cached' \in [CachedKeys -> CacheEntry]
      /\ cached'[r.key] = v
      /\ \A k \in CachedKeys \ {r.key} : cached'[k] = cached[k]
  BY <1>5
<1>10. CachedTypeOK'
  <2>1. \A d \in CacheCallers : Running(request'[d]) => request'[d].key \in CachedKeys
    BY <1>3, <1>4, <1>5, <1>7
  <2>2. inPlace' \in BOOLEAN
    BY <1>1, <1>2 DEF CachedTypeOK
  <2> QED
    BY <1>2, <1>9, <2>1, <2>2 DEF CachedTypeOK
<1>11. \A w \in CacheEntry : w = NoCached \/ w.ttl \in 1 .. CacheTtl
  BY DEF CacheEntry
<1>12. \A k \in CachedKeys : Covered(k) /\ cached'[k] = cached[k] => Covered(k)'
  <2> SUFFICES ASSUME NEW k \in CachedKeys, Covered(k), cached'[k] = cached[k],
                      cached[k] # NoCached
               PROVE  cached'[k].ttl <= suspect'[k]
    BY DEF Covered
  <2>1. PICK x \in Nat, y \in Nat, z \in Nat :
            x = cached[k].ttl /\ y = suspect[k] /\ z = suspect'[k]
    BY <1>2, <1>5, <1>11
  <2>2. x <= y /\ z >= y
    BY <2>1, <1>2 DEF Covered
  <2> QED
    BY <2>1, <2>2
<1>13. request'[c].raced = TRUE => Covered(r.key)'
  <2> SUFFICES ASSUME request'[c].raced = TRUE, v # NoCached PROVE v.ttl <= suspect'[r.key]
    BY <1>9 DEF Covered
  <2>1. v.ttl \in 1 .. CacheTtl /\ suspect'[r.key] = CacheTtl
    BY <1>3, <1>11
  <2> QED
    BY <2>1
<1>14. v = NoCached => Covered(r.key)'
  BY <1>9 DEF Covered
<1>15. EntriesHold'
  <2> SUFFICES ASSUME NEW k \in CachedKeys PROVE Covered(k)' \/ cached'[k].meta = stored'[k]
    BY DEF EntriesHold
  <2>1. Covered(k) \/ cached[k].meta = stored[k]
    BY DEF CachedInv, EntriesHold
  <2>2. CASE cached'[k] = cached[k]
    BY <2>1, <2>2, <1>2, <1>12 DEF StoreInOrder
  <2>3. CASE cached'[k] # cached[k]
    BY <2>3, <1>2, <1>3, <1>9, <1>13, <1>14 DEF EntryInOrder
  <2> QED
    BY <2>2, <2>3
<1>16. SharersKnow'
  <2> SUFFICES ASSUME NEW a \in CacheCallers, NEW b \in CacheCallers, a # b,
                      Running(request'[a]), Running(request'[b]),
                      request'[a].key = request'[b].key
               PROVE  request'[a].raced = TRUE
    BY DEF SharersKnow
  <2>1. CASE a = c
    <3>1. b \in Overlapping(c, r.key)
      BY <2>1, <1>3, <1>4, <1>7, <1>8
    <3> QED
      BY <2>1, <3>1, <1>3
  <2>2. CASE b = c
    <3>1. a \in Overlapping(c, r.key)
      BY <2>2, <1>3, <1>4, <1>7, <1>8
    <3> QED
      BY <2>2, <3>1, <1>4
  <2>3. CASE a # c /\ b # c
    <3>1. request[a].raced = TRUE
      BY <2>3, <1>4, <1>7 DEF CachedInv, SharersKnow
    <3> QED
      BY <2>3, <3>1, <1>4
  <2> QED
    BY <2>1, <2>2, <2>3
<1>17. ChangesCovered'
  <2> SUFFICES ASSUME NEW d \in CacheCallers, request'[d].at = "change",
                      NEW k, k = request'[d].key
               PROVE  Covered(k)'
    BY DEF ChangesCovered, Covered
  <2>1. k \in CachedKeys
    BY <1>10 DEF CachedTypeOK, Running
  <2>2. CASE d = c
    BY <2>2, <1>3, <1>13, <1>14 DEF EntryInOrder
  <2>3. CASE d # c /\ k = r.key
    <3>1. Running(request[d]) /\ request[d].key = r.key
      BY <2>3, <1>4 DEF Running
    <3>2. request'[c].raced = TRUE
      BY <2>3, <3>1, <1>3, <1>8
    <3> QED
      BY <2>3, <3>2, <1>13
  <2>4. CASE d # c /\ k # r.key
    <3>1. Covered(k)
      BY <2>4, <1>4 DEF CachedInv, ChangesCovered
    <3> QED
      BY <2>1, <2>4, <3>1, <1>9, <1>12
  <2> QED
    BY <2>2, <2>3, <2>4
<1>18. FillsCurrent'
  <2> SUFFICES ASSUME NEW d \in CacheCallers, request'[d].at = "fill",
                      request'[d].raced = FALSE
               PROVE  request'[d].meta = s[request'[d].key]
    BY <1>2 DEF FillsCurrent
  <2>1. CASE d = c
    <3>1. r.raced = FALSE
      BY <2>1, <1>3, <1>6
    <3> QED
      BY <2>1, <3>1, <1>3 DEF CallInOrder
  <2>2. CASE d # c
    <3>1. PICK k : k = request[d].key
      OBVIOUS
    <3>2. request[d].raced = FALSE
      BY <2>2, <1>4, <1>6
    <3>3. request[d].meta = stored[k] /\ Running(request[d]) /\ k \in CachedKeys
      BY <2>2, <3>1, <3>2, <1>4, <1>5 DEF CachedInv, FillsCurrent, Running
    <3>4. d \notin Overlapping(c, r.key)
      BY <2>2, <1>4
    <3>5. k # r.key
      BY <2>2, <3>1, <3>3, <3>4, <1>8
    <3>6. s[k] = stored[k]
      BY <2>2, <3>1, <3>2, <3>3, <3>5 DEF StoreInOrder
    <3> QED
      BY <2>2, <3>1, <3>3, <3>6, <1>4
  <2> QED
    BY <2>1, <2>2
<1>19. ReadsSeen'
  <2> SUFFICES ASSUME NEW d \in CacheCallers, request'[d].at \in {"fill", "answered"},
                      request'[d].op = "read", request'[d].ok = TRUE
               PROVE  request'[d].meta \in request'[d].saw
    BY DEF ReadsSeen
  <2>1. CASE d = c
    BY <2>1, <1>3 DEF CallInOrder
  <2>2. CASE d # c
    <3>1. request[d].meta \in request[d].saw
      BY <2>2, <1>4 DEF CachedInv, ReadsSeen
    <3> QED
      BY <2>2, <3>1, <1>4
  <2> QED
    BY <2>1, <2>2
<1> QED
  BY <1>10, <1>15, <1>16, <1>17, <1>18, <1>19 DEF CachedInv

\* The same for a step that leaves the cache alone.
LEMMA QuietStep ==
    ASSUME CachedInv, CacheTtl \in Nat \ {0}, NEW c \in CacheCallers, NEW r \in CacheRequest,
           r.key \in CachedKeys, NEW s \in [CachedKeys -> KeyMeta], Proceed(c, r, s),
           cached' = cached, StoreInOrder(c, r, s), CallInOrder(r, s),
           r.at = "change" => r.raced = TRUE
    PROVE  CachedInv'
<1>1. cached \in [CachedKeys -> CacheEntry]
  BY DEF CachedInv, CachedTypeOK
<1>2. PICK v \in CacheEntry : v = cached[r.key]
  BY <1>1
<1>3. cached' = [cached EXCEPT ![r.key] = v]
  BY <1>1, <1>2
<1>4. EntryInOrder(r, s, v)
  BY <1>2 DEF EntryInOrder
<1> QED
  BY <1>3, <1>4, ProceedPreserves

\* The metadata that stand for none are of the type.
LEMMA NoMetaTyped == NoMeta \in KeyMeta
  BY DEF NoMeta, KeyMeta

\* A call as it begins.
LEMMA OpenedTyped ==
    ASSUME NEW k \in CachedKeys, NEW at \in {"invalidate", "fill", "answered"},
           NEW op \in {"generate", "import", "read", "rotate", "delete", "destroy"}
    PROVE  \E o \in CacheRequest : o = Opened(k, op, at) /\ o.at = at /\ o.op = op /\ o.key = k
<1>1. PICK n \in CacheRequest : n = NoCall
  BY NoMetaTyped DEF CacheRequest, NoCall
<1>2. Opened(k, op, at) = [n EXCEPT !.at = at, !.op = op, !.key = k]
  BY <1>1 DEF Opened
<1>3. [n EXCEPT !.at = at, !.op = op, !.key = k] \in CacheRequest
  BY DEF CacheRequest
<1>4. /\ [n EXCEPT !.at = at, !.op = op, !.key = k].at = at
      /\ [n EXCEPT !.at = at, !.op = op, !.key = k].op = op
      /\ [n EXCEPT !.at = at, !.op = op, !.key = k].key = k
  BY DEF CacheRequest
<1> QED
  BY <1>2, <1>3, <1>4

\* A creation: the store has the key before anybody has met its id.
LEMMA CreatePreserves ==
    ASSUME CachedInv, CacheTtl \in Nat \ {0}, NEW c \in CacheCallers, NEW k \in CachedKeys,
           NEW op \in {"generate", "import"}, create(c, k, op)
    PROVE  CachedInv'
<1>1. PICK m \in KeyMeta : m = [version |-> 1, status |-> "Active"]
  BY DEF KeyMeta
<1>2. PICK o \in CacheRequest :
         o = Opened(k, op, "fill") /\ o.at = "fill" /\ o.op = op /\ o.key = k
  BY OpenedTyped
<1>3. PICK r \in CacheRequest : r = [o EXCEPT !.meta = m]
  <2>1. [o EXCEPT !.meta = m] \in CacheRequest
    BY DEF CacheRequest
  <2> QED
    BY <2>1
<1>4. r.at = "fill" /\ r.key = k /\ r.meta = m /\ r.op # "read"
  BY <1>2, <1>3 DEF CacheRequest
<1>5. stored \in [CachedKeys -> KeyMeta]
  BY DEF CachedInv, CachedTypeOK
<1>6. PICK s \in [CachedKeys -> KeyMeta] : s = [stored EXCEPT ![k] = m]
  BY <1>5
<1>7. s[k] = m /\ \A n \in CachedKeys \ {k} : s[n] = stored[n]
  BY <1>5, <1>6
<1>8. Proceed(c, r, s) /\ cached' = cached
  BY <1>1, <1>2, <1>3, <1>6 DEF create, Starts
<1>9. Covered(k) /\ \A d \in CacheCallers : request[d].key # k
  BY DEF create, Unused, Covered
<1>10. StoreInOrder(c, r, s)
  BY <1>7, <1>9 DEF StoreInOrder
<1>11. CallInOrder(r, s)
  BY <1>4, <1>7 DEF CallInOrder
<1> QED
  BY <1>4, <1>8, <1>10, <1>11, QuietStep

\* A read, and the read a destruction begins with.
LEMMA GetPreserves ==
    ASSUME CachedInv, CacheTtl \in Nat \ {0}, NEW c \in CacheCallers, NEW k \in CachedKeys,
           NEW op \in {"read", "destroy"}, NEW next \in {"fill", "invalidate"},
           cached_get_key_metadata(c, k, op, next)
    PROVE  CachedInv'
<1>1. stored \in [CachedKeys -> KeyMeta]
  BY DEF CachedInv, CachedTypeOK
<1>2. PICK s \in [CachedKeys -> KeyMeta] : s = stored
  BY <1>1
<1>3. PICK found \in BOOLEAN : found = (stored[k] # NoMeta)
  BY Zenon
<1>4. PICK at \in {"invalidate", "fill", "answered"} : at = IF found THEN next ELSE "answered"
  OBVIOUS
<1>5. PICK o \in CacheRequest :
         o = Opened(k, op, at) /\ o.at = at /\ o.op = op /\ o.key = k
  BY OpenedTyped
<1>6. PICK m \in KeyMeta : m = stored[k]
  BY <1>1
<1>7. PICK r \in CacheRequest : r = [o EXCEPT !.meta = m, !.ok = found]
  <2>1. [o EXCEPT !.meta = m, !.ok = found] \in CacheRequest
    BY DEF CacheRequest
  <2> QED
    BY <2>1
<1>8. r.at \in {"invalidate", "fill", "answered"} /\ r.key = k /\ r.meta = m
  BY <1>5, <1>7 DEF CacheRequest
<1>9. Proceed(c, r, s) /\ cached' = cached
  BY <1>2, <1>3, <1>4, <1>5, <1>6, <1>7, Zenon DEF cached_get_key_metadata, Starts
<1>10. s[k] = m
  BY <1>2, <1>6
<1>11. StoreInOrder(c, r, s)
  BY <1>2 DEF StoreInOrder
<1>12. CallInOrder(r, s)
  BY <1>8, <1>10 DEF CallInOrder
<1> QED
  BY <1>8, <1>9, <1>11, <1>12, QuietStep

\* A rotation or a deletion begins.
LEMMA StartChangePreserves ==
    ASSUME CachedInv, CacheTtl \in Nat \ {0}, NEW c \in CacheCallers, NEW k \in CachedKeys,
           NEW op \in {"rotate", "delete"}, start_change(c, k, op)
    PROVE  CachedInv'
<1>1. PICK s \in [CachedKeys -> KeyMeta] : s = stored
  BY DEF CachedInv, CachedTypeOK
<1>2. PICK r \in CacheRequest :
         /\ r = Opened(k, op, "invalidate")
         /\ r.at = "invalidate" /\ r.key = k
  BY OpenedTyped
<1>3. Proceed(c, r, s) /\ cached' = cached
  BY <1>1, <1>2 DEF start_change, Starts
<1>4. StoreInOrder(c, r, s)
  BY <1>1 DEF StoreInOrder
<1>5. CallInOrder(r, s)
  BY <1>2 DEF CallInOrder
<1> QED
  BY <1>2, <1>3, <1>4, <1>5, QuietStep

\* The request of a caller in one of its steps.
LEMMA RequestTyped ==
    ASSUME CachedInv, NEW c \in CacheCallers,
           request[c].at \in {"invalidate", "change", "fill"}
    PROVE  request[c] \in CacheRequest /\ request[c].key \in CachedKeys
  BY DEF CachedInv, CachedTypeOK, Running

\* The entry goes, or Redis fails the command and the call counts as raced.
LEMMA InvalidatePreserves ==
    ASSUME CachedInv, CacheTtl \in Nat \ {0}, NEW c \in CacheCallers, invalidate_cache(c)
    PROVE  CachedInv'
<1>1. PICK q \in CacheRequest : q = request[c] /\ q.key \in CachedKeys /\ q.at = "invalidate"
  BY RequestTyped DEF invalidate_cache
<1>2. PICK s \in [CachedKeys -> KeyMeta] : s = stored
  BY DEF CachedInv, CachedTypeOK
<1>3. \A r : StoreInOrder(c, r, s)
  BY <1>2 DEF StoreInOrder
<1>4. CASE /\ cached' = [cached EXCEPT ![request[c].key] = NoCached]
           /\ Proceed(c, [request[c] EXCEPT !.at = "change"], stored)
  <2>1. PICK r \in CacheRequest : r = [q EXCEPT !.at = "change"]
    <3>1. [q EXCEPT !.at = "change"] \in CacheRequest
      BY DEF CacheRequest
    <3> QED
      BY <3>1
  <2>2. r.at = "change" /\ r.key = q.key
    BY <2>1 DEF CacheRequest
  <2>3. PICK v \in CacheEntry : v = NoCached
    BY DEF CacheEntry
  <2>4. cached' = [cached EXCEPT ![r.key] = v] /\ Proceed(c, r, s)
    BY <1>1, <1>2, <1>4, <2>1, <2>2, <2>3
  <2>5. EntryInOrder(r, s, v) /\ CallInOrder(r, s)
    BY <2>2, <2>3 DEF EntryInOrder, CallInOrder
  <2> QED
    BY <1>1, <1>3, <2>2, <2>4, <2>5, ProceedPreserves
<1>5. CASE /\ Proceed(c, [request[c] EXCEPT !.at = "change", !.raced = TRUE], stored)
           /\ UNCHANGED cached
  <2>1. PICK r \in CacheRequest : r = [q EXCEPT !.at = "change", !.raced = TRUE]
    <3>1. [q EXCEPT !.at = "change", !.raced = TRUE] \in CacheRequest
      BY DEF CacheRequest
    <3> QED
      BY <3>1
  <2>2. r.at = "change" /\ r.key = q.key /\ r.raced = TRUE
    BY <2>1 DEF CacheRequest
  <2>3. cached' = cached /\ Proceed(c, r, s)
    BY <1>1, <1>2, <1>5, <2>1
  <2>4. CallInOrder(r, s)
    BY <2>2 DEF CallInOrder
  <2> QED
    BY <1>1, <1>3, <2>2, <2>3, <2>4, QuietStep
<1> QED
  BY <1>4, <1>5 DEF invalidate_cache

\* Nobody who was not raced shares the key of a call that runs.
LEMMA UnracedAlone ==
    ASSUME CachedInv, NEW c \in CacheCallers, Running(request[c]),
           NEW d \in CacheCallers \ {c}, Running(request[d]), request[d].raced = FALSE
    PROVE  request[d].key # request[c].key
<1> SUFFICES ASSUME request[d].key = request[c].key PROVE FALSE
  OBVIOUS
<1>1. request[d].raced = TRUE
  BY DEF CachedInv, SharersKnow
<1> QED
  BY <1>1

\* A call may change the store under the key it holds.
LEMMA OwnKeyInOrder ==
    ASSUME CachedInv, NEW c \in CacheCallers, request[c].at = "change",
           NEW r, r.key = request[c].key, NEW s,
           \A n \in CachedKeys : n # request[c].key => s[n] = stored[n]
    PROVE  StoreInOrder(c, r, s)
<1>1. Covered(request[c].key)
  BY DEF CachedInv, ChangesCovered
<1>2. PICK k : k = request[c].key
  OBVIOUS
<1>3. Covered(k)
  BY <1>1, <1>2 DEF Covered
<1> QED
  BY <1>2, <1>3 DEF StoreInOrder

\* A rotation in place, and one that leaves the old key obsolete for a new one.
LEMMA CachedRotatePreserves ==
    ASSUME CachedInv, CacheTtl \in Nat \ {0}, NEW c \in CacheCallers,
           request[c].at = "change", cached_rotate_key(c), cached' = cached
    PROVE  CachedInv'
<1>1. PICK q \in CacheRequest : q = request[c] /\ q.key \in CachedKeys
  BY RequestTyped
<1>2. PICK k \in CachedKeys : k = q.key
  BY <1>1
<1>3. stored \in [CachedKeys -> KeyMeta]
  BY DEF CachedInv, CachedTypeOK
<1>4. PICK o \in KeyMeta : o = stored[k]
  BY <1>3
<1>5. PICK m \in KeyMeta : m = [o EXCEPT !.version = @ + 1]
  <2>1. [o EXCEPT !.version = @ + 1] \in KeyMeta
    BY DEF KeyMeta
  <2> QED
    BY <2>1
<1>6. q.at = "change" /\ q.op = "rotate" /\ Covered(k)
  <2>1. Covered(request[c].key)
    BY DEF CachedInv, ChangesCovered
  <2> QED
    BY <2>1, <1>1, <1>2 DEF Covered, cached_rotate_key
<1>7. CASE Proceed(c, [request[c] EXCEPT !.at = "fill", !.meta = m], [stored EXCEPT ![k] = m])
  <2>1. PICK r \in CacheRequest : r = [q EXCEPT !.at = "fill", !.meta = m]
    <3>1. [q EXCEPT !.at = "fill", !.meta = m] \in CacheRequest
      BY DEF CacheRequest
    <3> QED
      BY <3>1
  <2>2. r.at = "fill" /\ r.key = k /\ r.meta = m /\ r.op = "rotate"
    BY <1>2, <1>6, <2>1 DEF CacheRequest
  <2>3. PICK s \in [CachedKeys -> KeyMeta] : s = [stored EXCEPT ![k] = m]
    BY <1>3
  <2>4. s[k] = m /\ \A n \in CachedKeys : n # k => s[n] = stored[n]
    BY <1>3, <2>3
  <2>5. Proceed(c, r, s)
    BY <1>1, <1>7, <2>1, <2>3
  <2>6. StoreInOrder(c, r, s)
    BY <1>1, <1>2, <2>2, <2>4, OwnKeyInOrder
  <2>7. CallInOrder(r, s)
    BY <2>2, <2>4 DEF CallInOrder
  <2> QED
    BY <2>2, <2>5, <2>6, <2>7, QuietStep
<1>8. ASSUME NEW n \in CachedKeys, Unused(n),
             Proceed(c, [request[c] EXCEPT !.at = "fill", !.meta = m, !.key = n],
                     [stored EXCEPT ![n] = m, ![k].status = "Obsolete"])
      PROVE  CachedInv'
  <2>1. PICK r \in CacheRequest : r = [q EXCEPT !.at = "fill", !.meta = m, !.key = n]
    <3>1. [q EXCEPT !.at = "fill", !.meta = m, !.key = n] \in CacheRequest
      BY DEF CacheRequest
    <3> QED
      BY <3>1
  <2>2. r.at = "fill" /\ r.key = n /\ r.meta = m /\ r.op = "rotate"
    BY <1>6, <2>1 DEF CacheRequest
  <2>3. n # k /\ Covered(n)
    BY <1>1, <1>2, <1>8 DEF Unused, Covered
  <2>4. PICK old \in KeyMeta : old = [o EXCEPT !.status = "Obsolete"]
    <3>1. [o EXCEPT !.status = "Obsolete"] \in KeyMeta
      BY DEF KeyMeta
    <3> QED
      BY <3>1
  <2>5. PICK s \in [CachedKeys -> KeyMeta] : s = [stored EXCEPT ![n] = m, ![k] = old]
    BY <1>3
  <2>6. /\ s[n] = m
        /\ \A j \in CachedKeys : j # k /\ j # n => s[j] = stored[j]
    BY <1>3, <2>3, <2>5
  <2>7. s = [stored EXCEPT ![n] = m, ![k].status = "Obsolete"]
    BY <1>3, <1>4, <2>3, <2>4, <2>5
  <2>8. Proceed(c, r, s)
    BY <1>1, <1>8, <2>1, <2>7
  <2>9. StoreInOrder(c, r, s)
    <3>1. Running(request[c]) /\ request[c].key = k
      BY <1>1, <1>2 DEF Running
    <3>2. \A d \in CacheCallers \ {c} :
             Running(request[d]) /\ request[d].raced = FALSE => request[d].key # k
      BY <3>1, UnracedAlone
    <3> QED
      BY <1>6, <2>2, <2>3, <2>6, <3>2 DEF StoreInOrder
  <2>10. CallInOrder(r, s)
    BY <2>2, <2>6 DEF CallInOrder
  <2> QED
    BY <2>2, <2>8, <2>9, <2>10, QuietStep
<1>9. m = [stored[k] EXCEPT !.version = @ + 1]
  BY <1>4, <1>5
<1> QED
  BY <1>1, <1>2, <1>7, <1>8, <1>9 DEF cached_rotate_key

\* A deletion marks the key, a destruction may remove it.
LEMMA CachedRemovePreserves ==
    ASSUME CachedInv, CacheTtl \in Nat \ {0}, NEW c \in CacheCallers,
           request[c].at = "change", cached_delete_key(c) \/ cached_destroy_key(c),
           cached' = cached
    PROVE  CachedInv'
<1>1. PICK q \in CacheRequest : q = request[c] /\ q.key \in CachedKeys
  BY RequestTyped
<1>2. PICK k \in CachedKeys : k = q.key
  BY <1>1
<1>3. stored \in [CachedKeys -> KeyMeta]
  BY DEF CachedInv, CachedTypeOK
<1>4. PICK o \in KeyMeta : o = stored[k]
  BY <1>3
<1>5. q.op \in {"delete", "destroy"}
  BY <1>1 DEF cached_delete_key, cached_destroy_key
<1>6. PICK r \in CacheRequest : r = [q EXCEPT !.at = "answered"]
  <2>1. [q EXCEPT !.at = "answered"] \in CacheRequest
    BY DEF CacheRequest
  <2> QED
    BY <2>1
<1>7. r.at = "answered" /\ r.key = k /\ r.op # "read"
  BY <1>2, <1>5, <1>6 DEF CacheRequest
<1>8. PICK gone \in KeyMeta : gone = [o EXCEPT !.status = "PendingDeletion"]
  <2>1. [o EXCEPT !.status = "PendingDeletion"] \in KeyMeta
    BY DEF KeyMeta
  <2> QED
    BY <2>1
<1>9. [stored EXCEPT ![k].status = "PendingDeletion"] = [stored EXCEPT ![k] = gone]
  BY <1>3, <1>4, <1>8
<1>10. \E s \in [CachedKeys -> KeyMeta] :
          /\ Proceed(c, r, s)
          /\ \A n \in CachedKeys : n # k => s[n] = stored[n]
  <2>1. CASE cached_delete_key(c)
    <3>1. PICK s \in [CachedKeys -> KeyMeta] : s = [stored EXCEPT ![k] = gone]
      BY <1>3
    <3>2. Proceed(c, r, s)
      BY <1>1, <1>2, <1>6, <1>9, <2>1, <3>1 DEF cached_delete_key
    <3> QED
      BY <1>3, <3>1, <3>2
  <2>2. CASE cached_destroy_key(c)
    <3>1. PICK s \in [CachedKeys -> KeyMeta] :
             s = IF inPlace THEN [stored EXCEPT ![k] = NoMeta] ELSE stored
      BY <1>3, NoMetaTyped
    <3>2. Proceed(c, r, s)
      BY <1>1, <1>2, <1>6, <2>2, <3>1 DEF cached_destroy_key
    <3> QED
      BY <1>3, <3>1, <3>2
  <2> QED
    BY <2>1, <2>2
<1>11. PICK s \in [CachedKeys -> KeyMeta] :
          /\ Proceed(c, r, s)
          /\ \A n \in CachedKeys : n # k => s[n] = stored[n]
  BY <1>10
<1>12. StoreInOrder(c, r, s)
  BY <1>1, <1>2, <1>7, <1>11, OwnKeyInOrder
<1>13. CallInOrder(r, s)
  BY <1>7 DEF CallInOrder
<1> QED
  BY <1>7, <1>11, <1>12, <1>13, QuietStep

\* A change the store refuses.
LEMMA RefusedPreserves ==
    ASSUME CachedInv, CacheTtl \in Nat \ {0}, NEW c \in CacheCallers,
           request[c].at = "change", refused(c), cached' = cached
    PROVE  CachedInv'
<1>1. PICK q \in CacheRequest : q = request[c] /\ q.key \in CachedKeys
  BY RequestTyped
<1>2. PICK s \in [CachedKeys -> KeyMeta] : s = stored
  BY DEF CachedInv, CachedTypeOK
<1>3. PICK r \in CacheRequest : r = [q EXCEPT !.at = "answered", !.ok = FALSE]
  <2>1. [q EXCEPT !.at = "answered", !.ok = FALSE] \in CacheRequest
    BY DEF CacheRequest
  <2> QED
    BY <2>1
<1>4. r.at = "answered" /\ r.key = q.key /\ r.ok = FALSE
  BY <1>3 DEF CacheRequest
<1>5. Proceed(c, r, s)
  BY <1>1, <1>2, <1>3 DEF refused
<1>6. StoreInOrder(c, r, s)
  BY <1>2 DEF StoreInOrder
<1>7. CallInOrder(r, s)
  BY <1>4 DEF CallInOrder
<1> QED
  BY <1>1, <1>4, <1>5, <1>6, <1>7, QuietStep

\* The cache is filled with what the call has, or Redis fails it.
LEMMA FillPreserves ==
    ASSUME CachedInv, CacheTtl \in Nat \ {0}, NEW c \in CacheCallers, cache_key_meta(c)
    PROVE  CachedInv'
<1>1. PICK q \in CacheRequest : q = request[c] /\ q.key \in CachedKeys /\ q.at = "fill"
  BY RequestTyped DEF cache_key_meta
<1>2. PICK s \in [CachedKeys -> KeyMeta] : s = stored
  BY DEF CachedInv, CachedTypeOK
<1>3. \A r : StoreInOrder(c, r, s)
  BY <1>2 DEF StoreInOrder
<1>4. CASE /\ cached' = [cached EXCEPT ![q.key] = [meta |-> q.meta, ttl |-> CacheTtl]]
           /\ Proceed(c, [q EXCEPT !.at = "answered"], stored)
  <2>1. PICK r \in CacheRequest : r = [q EXCEPT !.at = "answered"]
    <3>1. [q EXCEPT !.at = "answered"] \in CacheRequest
      BY DEF CacheRequest
    <3> QED
      BY <3>1
  <2>2. /\ r.at = "answered" /\ r.key = q.key /\ r.meta = q.meta /\ r.op = q.op /\ r.ok = q.ok
        /\ r.saw = q.saw /\ r.raced = q.raced
    BY <2>1 DEF CacheRequest
  <2>3. PICK v \in CacheEntry : v = [meta |-> q.meta, ttl |-> CacheTtl]
    <3>1. q.meta \in KeyMeta /\ CacheTtl \in 1 .. CacheTtl
      BY DEF CacheRequest
    <3>2. [meta |-> q.meta, ttl |-> CacheTtl] \in CacheEntry
      BY <3>1 DEF CacheEntry
    <3> QED
      BY <3>2
  <2>4. v.meta = q.meta
    BY <2>3
  <2>5. q.raced = TRUE \/ (q.raced = FALSE /\ q.meta = s[q.key])
    <3>1. q.raced = TRUE \/ q.raced = FALSE
      BY DEF CacheRequest
    <3> QED
      BY <1>1, <1>2, <3>1 DEF CachedInv, FillsCurrent
  <2>6. EntryInOrder(r, s, v)
    BY <2>2, <2>4, <2>5 DEF EntryInOrder
  <2>7. CallInOrder(r, s)
    <3>1. q.op = "read" /\ q.ok = TRUE => q.meta \in q.saw
      BY <1>1 DEF CachedInv, ReadsSeen
    <3> QED
      BY <2>2, <3>1 DEF CallInOrder
  <2>8. cached' = [cached EXCEPT ![r.key] = v] /\ Proceed(c, r, s)
    BY <1>2, <1>4, <2>1, <2>2, <2>3
  <2> QED
    BY <1>1, <1>3, <2>2, <2>6, <2>7, <2>8, ProceedPreserves
<1>5. CASE cached' = cached /\ Proceed(c, [q EXCEPT !.at = "answered", !.ok = FALSE], stored)
  <2>1. PICK r \in CacheRequest : r = [q EXCEPT !.at = "answered", !.ok = FALSE]
    <3>1. [q EXCEPT !.at = "answered", !.ok = FALSE] \in CacheRequest
      BY DEF CacheRequest
    <3> QED
      BY <3>1
  <2>2. r.at = "answered" /\ r.key = q.key /\ r.ok = FALSE
    BY <2>1 DEF CacheRequest
  <2>3. CallInOrder(r, s) /\ Proceed(c, r, s)
    BY <1>2, <1>5, <2>1, <2>2 DEF CallInOrder
  <2> QED
    BY <1>1, <1>3, <1>5, <2>2, <2>3, QuietStep
<1> QED
  BY <1>1, <1>4, <1>5 DEF cache_key_meta

\* A client that hangs up takes its call with it.
LEMMA HangUpPreserves ==
    ASSUME CachedInv, NEW c \in CacheCallers, hang_up_cached(c)
    PROVE  CachedInv'
<1>1. NoCall \in CacheRequest /\ NoCall.at = "idle" /\ ~Running(NoCall)
  BY NoMetaTyped DEF NoCall, CacheRequest, Running
<1>2. request \in [CacheCallers -> CacheRequest]
  BY DEF CachedInv, CachedTypeOK
<1>3. /\ request' \in [CacheCallers -> CacheRequest]
      /\ request'[c] = NoCall
      /\ \A d \in CacheCallers \ {c} : request'[d] = request[d]
  BY <1>1, <1>2 DEF hang_up_cached
<1>4. UNCHANGED <<inPlace, stored, cached, suspect>>
  BY DEF hang_up_cached
<1>5. CachedTypeOK'
  BY <1>1, <1>3, <1>4 DEF CachedInv, CachedTypeOK
<1>6. EntriesHold'
  BY <1>4 DEF CachedInv, EntriesHold, Covered
<1>7. SharersKnow'
  BY <1>1, <1>3 DEF CachedInv, SharersKnow
<1>8. ChangesCovered'
  BY <1>1, <1>3, <1>4 DEF CachedInv, ChangesCovered, Covered
<1>9. FillsCurrent'
  BY <1>1, <1>3, <1>4 DEF CachedInv, FillsCurrent
<1>10. ReadsSeen'
  BY <1>1, <1>3 DEF CachedInv, ReadsSeen
<1> QED
  BY <1>5, <1>6, <1>7, <1>8, <1>9, <1>10 DEF CachedInv

\* An entry and the suspicion against it age together.
LEMMA AgePreserves ==
    ASSUME CachedInv, CacheTtl \in Nat \ {0}, EntriesAge
    PROVE  CachedInv'
<1>1. /\ cached \in [CachedKeys -> CacheEntry] /\ suspect \in [CachedKeys -> 0 .. CacheTtl]
      /\ UNCHANGED <<inPlace, stored, request>>
  BY DEF CachedInv, CachedTypeOK, EntriesAge
<1>2. ASSUME NEW k \in CachedKeys
      PROVE  /\ cached'[k] \in CacheEntry
             /\ cached'[k] = NoCached \/ cached'[k].meta = cached[k].meta
             /\ Covered(k) => Covered(k)'
             /\ suspect'[k] \in 0 .. CacheTtl
  <2>1. PICK w \in CacheEntry : w = cached[k]
    BY <1>1
  <2>2. PICK x \in Nat : x = suspect[k] /\ x <= CacheTtl
    BY <1>1
  <2>3. suspect'[k] = (IF x = 0 THEN 0 ELSE x - 1) /\ suspect'[k] \in 0 .. CacheTtl
    BY <2>2 DEF EntriesAge
  <2>4. cached'[k] = IF w.ttl <= 1 THEN NoCached ELSE [w EXCEPT !.ttl = @ - 1]
    BY <2>1 DEF EntriesAge
  <2>5. CASE w = NoCached
    <3>1. cached'[k] = NoCached
      BY <2>4, <2>5 DEF NoCached
    <3> QED
      BY <2>3, <3>1 DEF CacheEntry, Covered
  <2>6. CASE w # NoCached
    <3>1. PICK m \in KeyMeta, t \in 1 .. CacheTtl : w = [meta |-> m, ttl |-> t]
      BY <2>6 DEF CacheEntry
    <3>2. CASE t <= 1
      <4>1. cached'[k] = NoCached
        BY <2>4, <3>1, <3>2
      <4> QED
        BY <2>3, <4>1 DEF CacheEntry, Covered
    <3>3. CASE ~(t <= 1)
      <4>1. t - 1 \in 1 .. CacheTtl
        BY <3>3
      <4>2. cached'[k] = [meta |-> m, ttl |-> t - 1]
        BY <2>4, <3>1, <3>3
      <4>3. cached'[k] \in CacheEntry /\ cached'[k].meta = cached[k].meta /\ cached'[k].ttl = t - 1
        BY <2>1, <3>1, <4>1, <4>2 DEF CacheEntry
      <4>4. Covered(k) => t <= x
        BY <2>1, <2>2, <2>6, <3>1 DEF Covered
      <4>5. t <= x => t - 1 <= suspect'[k]
        BY <2>2, <2>3, <3>3
      <4> QED
        BY <2>3, <4>3, <4>4, <4>5 DEF Covered
    <3> QED
      BY <3>2, <3>3
  <2> QED
    BY <2>5, <2>6
<1>3. cached' \in [CachedKeys -> CacheEntry] /\ suspect' \in [CachedKeys -> 0 .. CacheTtl]
  <2>1. /\ cached' = [k \in CachedKeys |-> cached'[k]]
        /\ suspect' = [k \in CachedKeys |-> suspect'[k]]
    BY DEF EntriesAge
  <2> QED
    BY <1>2, <2>1
<1>4. CachedTypeOK'
  BY <1>1, <1>3 DEF CachedInv, CachedTypeOK
<1>5. EntriesHold'
  <2> SUFFICES ASSUME NEW k \in CachedKeys PROVE Covered(k)' \/ cached'[k].meta = stored'[k]
    BY DEF EntriesHold
  <2>1. Covered(k) \/ cached[k].meta = stored[k]
    BY DEF CachedInv, EntriesHold
  <2>2. cached'[k] = NoCached => Covered(k)'
    BY DEF Covered
  <2> QED
    BY <1>1, <1>2, <2>1, <2>2
<1>6. ChangesCovered'
  <2> SUFFICES ASSUME NEW d \in CacheCallers, request[d].at = "change",
                      NEW k, k = request[d].key
               PROVE  Covered(k)'
    BY <1>1 DEF ChangesCovered, Covered
  <2>1. Covered(k) /\ k \in CachedKeys
    BY DEF CachedInv, ChangesCovered, CachedTypeOK, Running
  <2> QED
    BY <1>2, <2>1
<1>7. SharersKnow' /\ FillsCurrent' /\ ReadsSeen'
  BY <1>1 DEF CachedInv, SharersKnow, FillsCurrent, ReadsSeen
<1> QED
  BY <1>4, <1>5, <1>6, <1>7 DEF CachedInv

\* Nothing is stored, cached or called at first.
LEMMA CachedInitEstablishes == CachedInit => CachedInv
<1> SUFFICES ASSUME CachedInit PROVE CachedInv
  OBVIOUS
<1>1. CacheTtl \in Nat
  BY CachedStoreAssumption
<1>2. NoCall \in CacheRequest /\ NoCall.at = "idle" /\ ~Running(NoCall)
  BY NoMetaTyped DEF NoCall, CacheRequest, Running
<1>3. /\ \A c \in CacheCallers : request[c] = NoCall
      /\ \A k \in CachedKeys : cached[k] = NoCached
  BY DEF CachedInit
<1>4. CachedTypeOK
  BY <1>1, <1>2, <1>3, NoMetaTyped DEF CachedInit, CachedTypeOK, CacheEntry
<1>5. EntriesHold /\ SharersKnow /\ ChangesCovered /\ FillsCurrent /\ ReadsSeen
  BY <1>2, <1>3 DEF EntriesHold, SharersKnow, ChangesCovered, FillsCurrent, ReadsSeen, Covered
<1> QED
  BY <1>4, <1>5 DEF CachedInv

\* Every step of a call, and the ageing of the entries, preserves the invariant.
LEMMA CachedStepPreserves == CachedInv /\ [CachedNext]_cachedVars => CachedInv'
<1> SUFFICES ASSUME CachedInv, [CachedNext]_cachedVars PROVE CachedInv'
  OBVIOUS
<1>1. CacheTtl \in Nat \ {0}
  BY CachedStoreAssumption
<1>2. ASSUME NEW c \in CacheCallers, NEW k \in CachedKeys,
             cached_generate_key(c, k) \/ cached_import_key_material(c, k)
      PROVE  CachedInv'
  BY <1>1, <1>2, CreatePreserves DEF cached_generate_key, cached_import_key_material
<1>3. ASSUME NEW c \in CacheCallers, NEW k \in CachedKeys,
             \/ cached_get_key_metadata(c, k, "read", "fill")
             \/ cached_get_key_metadata(c, k, "destroy", "invalidate")
      PROVE  CachedInv'
  BY <1>1, <1>3, GetPreserves
<1>4. ASSUME NEW c \in CacheCallers, NEW k \in CachedKeys, NEW op \in {"rotate", "delete"},
             start_change(c, k, op)
      PROVE  CachedInv'
  BY <1>1, <1>4, StartChangePreserves
<1>5. ASSUME NEW c \in CacheCallers, change(c) PROVE CachedInv'
  BY <1>1, <1>5, CachedRotatePreserves, CachedRemovePreserves, RefusedPreserves DEF change
<1>6. ASSUME NEW c \in CacheCallers, invalidate_cache(c) \/ cache_key_meta(c) \/ hang_up_cached(c)
      PROVE  CachedInv'
  BY <1>1, <1>6, InvalidatePreserves, FillPreserves, HangUpPreserves
<1>7. CASE EntriesAge
  BY <1>1, <1>7, AgePreserves
<1>8. CASE UNCHANGED cachedVars
  BY <1>8 DEF cachedVars, CachedInv, CachedTypeOK, EntriesHold, SharersKnow, ChangesCovered,
              FillsCurrent, ReadsSeen, Covered
<1> QED
  BY <1>2, <1>3, <1>4, <1>5, <1>6, <1>7, <1>8 DEF CachedNext

\* The invariant says what the decorator answers and keeps.
LEMMA CachedInvSound == CachedInv => CachedStoreSound
<1> SUFFICES ASSUME CachedInv PROVE CachedStoreSound
  OBVIOUS
<1>1. AnswersFresh
  <2> SUFFICES ASSUME NEW c \in CacheCallers, request[c].at = "answered",
                      request[c].op = "read", request[c].ok
               PROVE  request[c].meta \in request[c].saw
    BY DEF AnswersFresh
  <2>1. request[c].ok = TRUE
    BY DEF CachedInv, CachedTypeOK, CacheRequest
  <2> QED
    BY <2>1 DEF CachedInv, ReadsSeen
<1>2. CacheHeals
  <2> SUFFICES ASSUME NEW k \in CachedKeys, suspect[k] = 0
               PROVE  cached[k].meta \in {NoMeta, stored[k]}
    BY DEF CacheHeals
  <2>1. cached[k] = NoCached \/ cached[k].ttl \in 1 .. CacheTtl
    BY DEF CachedInv, CachedTypeOK, CacheEntry
  <2>2. Covered(k) \/ cached[k].meta = stored[k]
    BY DEF CachedInv, EntriesHold
  <2>3. Covered(k) => cached[k] = NoCached
    BY <2>1 DEF Covered
  <2>4. NoCached.meta = NoMeta
    BY DEF NoCached
  <2> QED
    BY <2>2, <2>3, <2>4
<1> QED
  BY <1>1, <1>2 DEF CachedStoreSound

(***************************************************************************)
(* The key exchange sessions in Redis.  ReplaysCaught is not inductive:    *)
(* while no two calls have overlapped, the history in Redis is a suffix of *)
(* the messages taken, what it lacks is old or was pushed out by newer     *)
(* ones, and the one call under way carries such a history too and a       *)
(* message that is not in it.  KexStoreInv says so, and that no call asks  *)
(* Redis to keep the session longer than was left of its time when the     *)
(* call read the clock, rounded up to a second.                            *)
(***************************************************************************)

KexEntry == [message : KexMessages, at : Nat]
KexState == {"Missing", "Init", "WaitForResponse", "Failed", "Completed"}
KexSession == [state : KexState, created : Nat, history : Seq(KexEntry), secret : BOOLEAN]
KexCall == [at : {"idle", "create", "write"}, copy : KexSession,
            message : KexMessages \cup {"none"}, read : Nat, left : Nat]
KexLimit == SessionTtl * PerSecond + (PerSecond - 1)

KexTypeOK ==
    /\ moment \in Nat /\ redisExpiry \in Nat /\ delay \in Nat
    /\ shared \in KexSession
    /\ kexCall \in [KexServers -> KexCall]
    /\ taken \in Seq(KexEntry)
    /\ overlap \in BOOLEAN

\* The times in a session are past ones, and Redis keeps it for no longer than
\* its time, what was rounded off and the delay of the last write.
TimesPast ==
    /\ shared.created <= moment
    /\ \A s \in KexServers : kexCall[s].copy.created <= moment /\ kexCall[s].read <= moment
ExpiryFixed ==
    shared # Missing => redisExpiry <= shared.created + KexLimit + delay /\ moment < redisExpiry

\* A call asks Redis for no more than what was left when it read the clock.
LeftInTime(c) == c.left > 0 => c.left * PerSecond + c.read <= c.copy.created + KexLimit
CallsInTime ==
    \A s \in KexServers :
        /\ LeftInTime(kexCall[s])
        /\ kexCall[s].at = "create" => kexCall[s].copy.history = <<>>

\* h is all of the sequence t but what is old by at or not among its newest.
SuffixFrom(h, t, p) ==
    /\ Len(t) = p + Len(h)
    /\ \A j \in 1 .. Len(h) : h[j] = t[p + j]
DroppedBy(t, p, at) ==
    \A i \in 1 .. p : t[i].at + MessageLife <= at \/ Len(t) - i >= HistorySize
Tracks(h, t, at) == \E p \in Nat : SuffixFrom(h, t, p) /\ DroppedBy(t, p, at)
Ordered(t, at) ==
    /\ \A i, j \in 1 .. Len(t) : i <= j => t[i].at <= t[j].at
    /\ \A i \in 1 .. Len(t) : t[i].at <= at

\* The message of a call was not taken lately.
NotRepeated(m, t, since) ==
    \A i \in 1 .. Len(t) :
        t[i].message = m => t[i].at + MessageLife <= since \/ Len(t) - i >= HistorySize

CallTracks(c) ==
    /\ c.message = "none" => Tracks(c.copy.history, taken, moment)
    /\ c.message # "none" =>
          /\ Tracks(c.copy.history, Append(taken, [message |-> c.message, at |-> c.read]), moment)
          /\ NotRepeated(c.message, taken, c.read)
          /\ \A i \in 1 .. Len(taken) : taken[i].at <= c.read

Sequential ==
    overlap = FALSE =>
        /\ Ordered(taken, moment)
        /\ \A s, t \in KexServers : kexCall[s].at # "idle" /\ kexCall[t].at # "idle" => s = t
        /\ shared # Missing => Tracks(shared.history, taken, moment)
        /\ \A s \in KexServers : kexCall[s].at = "write" => CallTracks(kexCall[s])

KexStoreInv ==
    KexTypeOK /\ TimesPast /\ ExpiryFixed /\ CallsInTime /\ Sequential /\ replayed = FALSE

\* Of an ordered history the recent part is a suffix, what it lacks is old.
LEMMA RecentIsSuffix ==
    ASSUME NEW h \in Seq(KexEntry), moment \in Nat, MessageLife \in Nat,
           \A i, j \in 1 .. Len(h) : i <= j => h[i].at <= h[j].at
    PROVE  \E q \in 0 .. Len(h) :
             /\ Recent(h) \in Seq(KexEntry)
             /\ Len(Recent(h)) = Len(h) - q
             /\ \A j \in 1 .. Len(h) - q : Recent(h)[j] = h[q + j]
             /\ \A i \in 1 .. q : h[i].at + MessageLife <= moment
             /\ \A i \in q + 1 .. Len(h) : h[i].at + MessageLife > moment
<1>1. PICK n \in Nat : n = Len(h) /\ DOMAIN h = 1 .. n /\ \A i \in 1 .. n : h[i] \in KexEntry
  OBVIOUS
<1>2. \A i \in 1 .. n : h[i].at \in Nat
  BY <1>1 DEF KexEntry
<1>3. PICK X \in SUBSET (1 .. n) : X = {i \in DOMAIN h : h[i].at + MessageLife > moment}
  <2>1. {i \in DOMAIN h : h[i].at + MessageLife > moment} \in SUBSET (1 .. n)
    BY <1>1
  <2> QED
    BY <2>1
<1>4. \A i \in 1 .. n : i \in X <=> h[i].at + MessageLife > moment
  BY <1>1, <1>3
<1>5. \A i, j \in 1 .. n : i <= j /\ i \in X => j \in X
  <2>1. SUFFICES ASSUME NEW i \in 1 .. n, NEW j \in 1 .. n, i <= j, i \in X PROVE j \in X
    OBVIOUS
  <2>2. h[i].at <= h[j].at
    BY <1>1, <2>1
  <2>3. PICK s \in Nat, t \in Nat : s = h[i].at /\ t = h[j].at
    BY <1>2
  <2>4. s + MessageLife > moment /\ s <= t
    BY <1>4, <2>1, <2>2, <2>3
  <2>5. t + MessageLife > moment
    BY <2>4
  <2> QED
    BY <1>4, <2>3, <2>5
<1>6. PICK q \in 0 .. n : X = (q + 1) .. n
  BY <1>5, UpwardIsInterval
<1>7. Recent(h) = Retained(h, (q + 1) .. Len(h))
  BY <1>1, <1>3, <1>6 DEF Recent
<1>8. /\ Recent(h) \in Seq(KexEntry)
      /\ Len(Recent(h)) = Len(h) - q
      /\ \A j \in 1 .. Len(h) - q : Recent(h)[j] = h[q + j]
  <2>1. q \in 0 .. Len(h)
    BY <1>1
  <2>2. /\ Retained(h, (q + 1) .. Len(h)) \in Seq(KexEntry)
        /\ Len(Retained(h, (q + 1) .. Len(h))) = Len(h) - q
        /\ \A j \in 1 .. Len(h) - q : Retained(h, (q + 1) .. Len(h))[j] = h[q + j]
    BY <2>1, RetainedSuffix, Zenon
  <2> QED
    BY <1>7, <2>2, Zenon
<1>9. \A i \in 1 .. q : i \in 1 .. n /\ i \notin X
  BY <1>6
<1>10. \A i \in 1 .. q : h[i].at + MessageLife <= moment
  BY <1>2, <1>4, <1>9
<1>11. \A i \in q + 1 .. n : h[i].at + MessageLife > moment
  BY <1>4, <1>6
<1> QED
  BY <1>1, <1>8, <1>10, <1>11

\* So is what is recent of a history, and what is remembered of a longer one.
LEMMA HistoryTyped ==
    ASSUME NEW h \in Seq(KexEntry), NEW e \in KexEntry
    PROVE  Remembered(Append(Recent(h), e)) \in Seq(KexEntry)
<1>1. PICK X \in SUBSET DOMAIN h : X = {i \in DOMAIN h : h[i].at + MessageLife > moment}
  BY Zenon
<1>2. Retained(h, X) \in Seq(KexEntry)
  BY RetainedTyped
<1>3. PICK r \in Seq(KexEntry) : r = Recent(h)
  BY <1>1, <1>2 DEF Recent
<1>4. Append(r, e) \in Seq(KexEntry) /\ Append(r, e) # <<>>
  OBVIOUS
<1>5. Tail(Append(r, e)) \in Seq(KexEntry)
  BY <1>4
<1> QED
  BY <1>3, <1>4, <1>5 DEF Remembered

\* The periods and sizes of a session are positive, and no message is the mark of none.
LEMMA KexConstants ==
    /\ SessionTtl \in Nat \ {0} /\ PerSecond \in Nat \ {0} /\ KexLimit \in Nat
    /\ MessageLife \in Nat \ {0} /\ HistorySize \in Nat \ {0}
    /\ "none" \notin KexMessages
<1>1. /\ SessionTtl \in Nat \ {0} /\ PerSecond \in Nat \ {0} /\ MessageTtl \in Nat \ {0}
      /\ HistorySize \in Nat \ {0} /\ "none" \notin KexMessages
  BY KexSessionsAssumption
<1>2. \A a, b \in Nat \ {0} : a * b \in Nat \ {0}
  OBVIOUS
<1>3. MessageLife \in Nat \ {0}
  BY <1>1, <1>2 DEF MessageLife
<1>4. SessionTtl * PerSecond \in Nat /\ PerSecond - 1 \in Nat
  BY <1>1, <1>2
<1> QED
  BY <1>1, <1>3, <1>4 DEF KexLimit

\* Division takes off less than a divisor.
LEMMA QuotientBelow ==
    ASSUME NEW a \in Nat, NEW d \in Nat \ {0}
    PROVE  a \div d \in Nat /\ (a \div d) * d <= a /\ a <= (a \div d) * d + (d - 1)
  OBVIOUS

\* The seconds left of a session of cr that are set at the moment end in time.
LEMMA RemainingInTime ==
    ASSUME moment \in Nat, NEW copy, NEW cr \in Nat, cr = copy.created, cr <= moment
    PROVE  /\ Remaining(copy) \in Nat
           /\ Remaining(copy) > 0 => Remaining(copy) * PerSecond + moment <= cr + KexLimit
<1>1. PICK d \in Nat \ {0}, ttl \in Nat, a \in Nat :
         d = PerSecond /\ ttl = SessionTtl /\ moment = cr + a
  <2>1. moment - cr \in Nat /\ moment = cr + (moment - cr)
    OBVIOUS
  <2> QED
    BY <2>1, KexConstants
<1>2. moment - copy.created = a
  BY <1>1
<1>3. PICK g \in Nat : g = a \div d /\ g * d <= a /\ a <= g * d + (d - 1)
  BY QuotientBelow
<1>4. Remaining(copy) = IF g < ttl THEN ttl - g ELSE 0
  BY <1>1, <1>2, <1>3 DEF Remaining
<1>5. g < ttl => (ttl - g) * d + (cr + a) <= cr + (ttl * d + (d - 1))
  <2>1. SUFFICES ASSUME g < ttl PROVE (ttl - g) * d + (cr + a) <= cr + (ttl * d + (d - 1))
    OBVIOUS
  <2>2. (ttl - g) * d = ttl * d - g * d
    OBVIOUS
  <2>3. ttl * d \in Nat /\ g * d \in Nat
    OBVIOUS
  <2> QED
    BY <1>3, <2>2, <2>3
<1> QED
  BY <1>1, <1>4, <1>5 DEF KexLimit

\* What was forgotten stays so as time passes.
LEMMA TracksLater ==
    ASSUME NEW h \in Seq(KexEntry), NEW t \in Seq(KexEntry), NEW a \in Nat, NEW b \in Nat,
           a <= b, Tracks(h, t, a)
    PROVE  Tracks(h, t, b)
<1>1. PICK p \in Nat : SuffixFrom(h, t, p) /\ DroppedBy(t, p, a)
  BY DEF Tracks
<1>2. PICK n \in Nat : n = Len(t) /\ p <= n
  BY <1>1 DEF SuffixFrom
<1>3. \A i \in 1 .. p : t[i].at \in Nat
  <2>1. \A i \in 1 .. p : t[i] \in KexEntry
    BY <1>2
  <2> QED
    BY <2>1 DEF KexEntry
<1>4. DroppedBy(t, p, b)
  BY <1>1, <1>3, KexConstants DEF DroppedBy
<1> QED
  BY <1>1, <1>4 DEF Tracks

\* An empty history tracks that nothing was taken.
LEMMA TracksNothing ==
    ASSUME NEW a PROVE Tracks(<<>>, <<>>, a)
  BY DEF Tracks, SuffixFrom, DroppedBy

\* What a history that tracks the messages is, and what is recent of it.
LEMMA TrackedParts ==
    ASSUME NEW h \in Seq(KexEntry), NEW t \in Seq(KexEntry), moment \in Nat,
           Ordered(t, moment), Tracks(h, t, moment)
    PROVE  \E p, l, n, q \in Nat, r \in Seq(KexEntry) :
             /\ n = Len(t) /\ l = Len(h) /\ n = p + l /\ q <= l
             /\ DroppedBy(t, p, moment)
             /\ \A j \in 1 .. l : h[j] = t[p + j]
             /\ r = Recent(h) /\ Len(r) = l - q
             /\ \A j \in 1 .. l - q : r[j] = h[q + j]
             /\ \A i \in 1 .. q : h[i].at + MessageLife <= moment
<1>1. PICK p \in Nat : SuffixFrom(h, t, p) /\ DroppedBy(t, p, moment)
  BY DEF Tracks
<1>2. PICK n \in Nat, l \in Nat : n = Len(t) /\ l = Len(h) /\ n = p + l
  BY <1>1 DEF SuffixFrom
<1>3. \A j \in 1 .. l : h[j] = t[p + j]
  BY <1>1, <1>2 DEF SuffixFrom
<1>4. ASSUME NEW i \in 1 .. l, NEW j \in 1 .. l, i <= j PROVE h[i].at <= h[j].at
  <2>1. p + i \in 1 .. n /\ p + j \in 1 .. n /\ p + i <= p + j
    BY <1>2, <1>4
  <2>2. t[p + i].at <= t[p + j].at
    BY <1>2, <2>1 DEF Ordered
  <2> QED
    BY <1>3, <2>2
<1>5. \A i, j \in 1 .. Len(h) : i <= j => h[i].at <= h[j].at
  BY <1>2, <1>4
<1>6. PICK q \in 0 .. Len(h) :
        /\ Recent(h) \in Seq(KexEntry)
        /\ Len(Recent(h)) = Len(h) - q
        /\ \A j \in 1 .. Len(h) - q : Recent(h)[j] = h[q + j]
        /\ \A i \in 1 .. q : h[i].at + MessageLife <= moment
  BY <1>5, KexConstants, RecentIsSuffix
<1>7. q \in Nat /\ q <= l
  BY <1>2, <1>6
<1> QED
  BY <1>1, <1>2, <1>3, <1>6, <1>7

\* The history with a new message tracks the messages with it.
LEMMA TakeTracks ==
    ASSUME NEW h \in Seq(KexEntry), NEW t \in Seq(KexEntry), moment \in Nat,
           Ordered(t, moment), Tracks(h, t, moment), NEW e \in KexEntry
    PROVE  /\ Remembered(Append(Recent(h), e)) \in Seq(KexEntry)
           /\ Tracks(Remembered(Append(Recent(h), e)), Append(t, e), moment)
<1>1. PICK p, l, n, q \in Nat, r \in Seq(KexEntry) :
         /\ n = Len(t) /\ l = Len(h) /\ n = p + l /\ q <= l
         /\ DroppedBy(t, p, moment)
         /\ \A j \in 1 .. l : h[j] = t[p + j]
         /\ r = Recent(h) /\ Len(r) = l - q
         /\ \A j \in 1 .. l - q : r[j] = h[q + j]
         /\ \A i \in 1 .. q : h[i].at + MessageLife <= moment
  BY TrackedParts
<1>2. n = Len(t) /\ l = Len(h) /\ n = p + l
  BY <1>1
<1>3. \A j \in 1 .. l : h[j] = t[p + j]
  BY <1>1
<1>5. /\ \A j \in 1 .. l - q : r[j] = h[q + j]
      /\ \A i \in 1 .. q : h[i].at + MessageLife <= moment
  BY <1>1
<1>6. r = Recent(h)
  BY <1>1
<1>7. PICK w \in Seq(KexEntry) :
         /\ w = Append(r, e) /\ Len(w) = Len(r) + 1
         /\ \A i \in 1 .. Len(r) : w[i] = r[i]
         /\ w[Len(r) + 1] = e
  <2>1. /\ Append(r, e) \in Seq(KexEntry) /\ Len(Append(r, e)) = Len(r) + 1
        /\ \A i \in 1 .. Len(r) : Append(r, e)[i] = r[i]
        /\ Append(r, e)[Len(r) + 1] = e
    BY EntryAppended
  <2> QED
    BY <2>1
<1>8. PICK u \in Seq(KexEntry) :
         /\ u = Append(t, e) /\ Len(u) = Len(t) + 1
         /\ \A i \in 1 .. Len(t) : u[i] = t[i]
         /\ u[Len(t) + 1] = e
  <2>1. /\ Append(t, e) \in Seq(KexEntry) /\ Len(Append(t, e)) = Len(t) + 1
        /\ \A i \in 1 .. Len(t) : Append(t, e)[i] = t[i]
        /\ Append(t, e)[Len(t) + 1] = e
    BY EntryAppended
  <2> QED
    BY <2>1
<1>9. q \in 0 .. l /\ l - q \in Nat /\ Len(r) = l - q /\ Len(w) = l - q + 1 /\ Len(u) = n + 1
  BY <1>1, <1>7, <1>8
<1>10. \A i \in 1 .. n : u[i] = t[i]
  BY <1>2, <1>8
<1>11. SuffixFrom(w, u, p + q)
  <2>1. \A j \in 1 .. l - q : w[j] = u[p + q + j]
    <3> SUFFICES ASSUME NEW j \in 1 .. l - q PROVE w[j] = u[p + q + j]
      OBVIOUS
    <3>1. w[j] = r[j] /\ r[j] = h[q + j]
      BY <1>2, <1>5, <1>6, <1>7, <1>9
    <3>2. q + j \in 1 .. l /\ p + q + j \in 1 .. n /\ p + (q + j) = p + q + j
      BY <1>2, <1>9
    <3> QED
      BY <1>3, <1>10, <3>1, <3>2
  <2>2. w[l - q + 1] = e /\ u[n + 1] = e
    BY <1>2, <1>7, <1>8, <1>9
  <2>3. p + q + (l - q + 1) = n + 1
    BY <1>2, <1>9
  <2>4. \A j \in 1 .. l - q + 1 : j \in 1 .. l - q \/ j = l - q + 1
    BY <1>9
  <2>5. \A j \in 1 .. l - q + 1 : w[j] = u[p + q + j]
    BY <2>1, <2>2, <2>3, <2>4
  <2> QED
    BY <1>9, <2>3, <2>5 DEF SuffixFrom
<1>12. DroppedBy(u, p + q, moment)
  <2> SUFFICES ASSUME NEW i \in 1 .. p + q
               PROVE  u[i].at + MessageLife <= moment \/ Len(u) - i >= HistorySize
    BY DEF DroppedBy
  <2>0. i \in 1 .. n
    BY <1>2, <1>9
  <2>1. i \in 1 .. n /\ u[i] = t[i]
    BY <2>0, <1>10
  <2>2. CASE i <= p
    <3>1. t[i].at + MessageLife <= moment \/ n - i >= HistorySize
      BY <1>1, <1>2, <2>2 DEF DroppedBy
    <3>2. CASE t[i].at + MessageLife <= moment
      BY <2>1, <3>2
    <3>3. CASE n - i >= HistorySize
      <4>1. i \in Nat /\ n + 1 - i >= HistorySize
        BY <1>2, <2>0, <3>3, KexConstants
      <4> QED
        BY <1>9, <4>1
    <3> QED
      BY <3>1, <3>2, <3>3
  <2>3. CASE i > p
    <3>1. i - p \in 1 .. q /\ i - p \in 1 .. l /\ p + (i - p) = i
      BY <1>2, <1>9, <2>3
    <3> QED
      BY <1>3, <1>5, <2>1, <3>1
  <2> QED
    BY <2>2, <2>3
<1>13. CASE ~(Len(w) > HistorySize)
  <2>1. Remembered(w) = w
    BY <1>13 DEF Remembered
  <2>2. Tracks(w, u, moment)
    BY <1>9, <1>11, <1>12 DEF Tracks
  <2> QED
    BY <1>6, <1>7, <1>8, <2>1, <2>2
<1>14. CASE Len(w) > HistorySize
  <2>0. Len(w) > 0
    BY <1>9
  <2>1. PICK x \in Seq(KexEntry) :
           x = Tail(w) /\ Len(x) = Len(w) - 1 /\ \A j \in 1 .. Len(w) - 1 : x[j] = w[j + 1]
    BY <2>0, OldestDropped, Zenon
  <2>2. /\ Remembered(w) = x /\ Len(x) = l - q
        /\ \A j \in 1 .. l - q : x[j] = w[j + 1]
    BY <1>9, <1>14, <2>1 DEF Remembered
  <2>3. SuffixFrom(x, u, p + q + 1)
    <3>1. \A j \in 1 .. l - q : x[j] = u[p + q + 1 + j]
      <4> SUFFICES ASSUME NEW j \in 1 .. l - q PROVE x[j] = u[p + q + 1 + j]
        OBVIOUS
      <4>1. j + 1 \in 1 .. Len(w) /\ p + q + (j + 1) = p + q + 1 + j
        BY <1>9
      <4>2. w[j + 1] = u[p + q + (j + 1)]
        BY <1>11, <4>1 DEF SuffixFrom
      <4> QED
        BY <2>2, <4>1, <4>2
    <3> QED
      BY <1>2, <1>9, <2>2, <3>1 DEF SuffixFrom
  <2>4. DroppedBy(u, p + q + 1, moment)
    <3> SUFFICES ASSUME NEW i \in 1 .. p + q + 1
                 PROVE  u[i].at + MessageLife <= moment \/ Len(u) - i >= HistorySize
      BY DEF DroppedBy
    <3>1. CASE i \in 1 .. p + q
      BY <1>12, <3>1 DEF DroppedBy
    <3>2. CASE i = p + q + 1
      BY <1>2, <1>9, <1>14, <3>2, KexConstants
    <3> QED
      BY <1>9, <3>1, <3>2
  <2>5. Tracks(x, u, moment)
    BY <1>9, <2>3, <2>4 DEF Tracks
  <2> QED
    BY <1>6, <1>7, <1>8, <2>2, <2>5
<1> QED
  BY <1>13, <1>14

\* A message that the recent history lacks was not taken lately.
LEMMA UnseenNotRepeated ==
    ASSUME NEW h \in Seq(KexEntry), NEW t \in Seq(KexEntry), moment \in Nat,
           Ordered(t, moment), Tracks(h, t, moment), NEW m,
           \A i \in DOMAIN Recent(h) : Recent(h)[i].message # m
    PROVE  NotRepeated(m, t, moment)
<1>1. PICK p, l, n, q \in Nat, r \in Seq(KexEntry) :
         /\ n = Len(t) /\ l = Len(h) /\ n = p + l /\ q <= l
         /\ DroppedBy(t, p, moment)
         /\ \A j \in 1 .. l : h[j] = t[p + j]
         /\ r = Recent(h) /\ Len(r) = l - q
         /\ \A j \in 1 .. l - q : r[j] = h[q + j]
         /\ \A i \in 1 .. q : h[i].at + MessageLife <= moment
  BY TrackedParts
<1>2. n = Len(t) /\ l = Len(h) /\ n = p + l
  BY <1>1
<1>3. \A j \in 1 .. l : h[j] = t[p + j]
  BY <1>1
<1>5. /\ \A j \in 1 .. l - q : r[j] = h[q + j]
      /\ \A i \in 1 .. q : h[i].at + MessageLife <= moment
  BY <1>1
<1>6. r = Recent(h)
  BY <1>1
<1>7. q \in 0 .. l /\ l - q \in Nat /\ Len(r) = l - q
  BY <1>1
<1>8. \A j \in 1 .. l - q : r[j].message # m /\ r[j] = h[q + j]
  BY <1>5, <1>6, <1>7
<1> SUFFICES ASSUME NEW i \in 1 .. n, t[i].message = m
             PROVE  t[i].at + MessageLife <= moment \/ n - i >= HistorySize
  BY <1>2 DEF NotRepeated
<1>9. CASE i <= p
  BY <1>1, <1>2, <1>9 DEF DroppedBy
<1>10. CASE i > p
  <2>1. i - p \in 1 .. l /\ p + (i - p) = i
    BY <1>2, <1>10
  <2>2. h[i - p] = t[i]
    BY <1>3, <2>1
  <2>3. CASE i - p <= q
    BY <1>2, <1>5, <2>1, <2>2, <2>3
  <2>4. CASE i - p > q
    <3>1. i \in Nat /\ p \in Nat /\ q \in Nat /\ l \in Nat /\ i - p <= l
      BY <1>2, <2>1
    <3>2. i - p - q \in 1 .. l - q /\ q + (i - p - q) = i - p
      BY <2>4, <3>1
    <3> QED
      BY <1>8, <2>2, <3>2
  <2> QED
    BY <1>7, <2>1, <2>3, <2>4
<1> QED
  BY <1>9, <1>10

\* No session and no call are well formed, and no time runs for them.
LEMMA MissingTyped ==
    /\ Missing \in KexSession /\ Missing.created = 0
    /\ NoKexCall \in KexCall /\ NoKexCall.at = "idle" /\ NoKexCall.copy.created = 0
    /\ NoKexCall.read = 0 /\ NoKexCall.left = 0
<1>1. <<>> \in Seq(KexEntry)
  OBVIOUS
<1>2. Missing \in KexSession /\ Missing.created = 0
  BY <1>1 DEF Missing, KexSession, KexState
<1> HIDE DEF Missing
<1> QED
  BY <1>2 DEF NoKexCall, KexCall

\* No server is in a call at first and no session is there.
LEMMA KexStoreInitEstablishes == KexStoreInit => KexStoreInv
<1> SUFFICES ASSUME KexStoreInit PROVE KexStoreInv
  OBVIOUS
<1>1. \A s \in KexServers : kexCall[s] = NoKexCall
  BY DEF KexStoreInit
<1>2. KexTypeOK
  <2>1. <<>> \in Seq(KexEntry) /\ 0 \in Nat /\ FALSE \in BOOLEAN
    OBVIOUS
  <2>2. kexCall \in [KexServers -> KexCall]
    BY MissingTyped DEF KexStoreInit
  <2> HIDE DEF Missing
  <2> QED
    BY <2>1, <2>2, MissingTyped DEF KexStoreInit, KexTypeOK
<1>3. TimesPast
  BY <1>1, MissingTyped DEF KexStoreInit, TimesPast
<1>4. Sequential
  BY <1>1, MissingTyped DEF KexStoreInit, Sequential, Ordered
<1>5. CallsInTime
  BY <1>1, MissingTyped DEF CallsInTime, LeftInTime
<1> QED
  BY <1>2, <1>3, <1>4, <1>5 DEF KexStoreInit, KexStoreInv, ExpiryFixed

\* A call that counts itself in leaves no overlap only if it is alone.
LEMMA AloneOrOverlap ==
    ASSUME KexStoreInv, overlap' = (overlap \/ Busy # {})
    PROVE  /\ overlap' \in BOOLEAN
           /\ overlap' = FALSE => overlap = FALSE /\ \A s \in KexServers : kexCall[s].at = "idle"
<1>1. overlap \in BOOLEAN
  BY DEF KexStoreInv, KexTypeOK
<1>2. overlap' \in BOOLEAN
  BY Zenon
<1>3. overlap' = FALSE => overlap = FALSE /\ Busy = {}
  BY <1>1, Zenon
<1>4. Busy = {} => \A s \in KexServers : kexCall[s].at = "idle"
  BY DEF Busy
<1> QED
  BY <1>2, <1>3, <1>4

\* A call begins with a copy of the session that is right to write back as long
\* as no other call comes between.
LEMMA BeginsPreserves ==
    ASSUME KexStoreInv, NEW s \in KexServers, NEW copy \in KexSession, copy.created <= moment,
           NEW message \in KexMessages \cup {"none"}, NEW at \in {"create", "write"},
           NEW left \in Nat, NEW q,
           kexCall' = [kexCall EXCEPT ![s] = q], overlap' = (overlap \/ Busy # {}),
           UNCHANGED <<shared, redisExpiry, moment, taken, delay, replayed>>,
           q = [at |-> at, copy |-> copy, message |-> message, read |-> moment, left |-> left],
           LeftInTime(q), at = "create" => copy.history = <<>>,
           at = "write" /\ overlap = FALSE => CallTracks(q)
    PROVE  KexStoreInv'
<1>1. /\ moment \in Nat /\ kexCall \in [KexServers -> KexCall]
  BY DEF KexStoreInv, KexTypeOK
<1>2. q \in KexCall /\ q.at = at /\ q.copy = copy /\ q.read = moment
  BY <1>1 DEF KexCall
<1>3. /\ kexCall' = [kexCall EXCEPT ![s] = q]
      /\ overlap' = (overlap \/ Busy # {})
      /\ UNCHANGED <<shared, redisExpiry, moment, taken, delay, replayed>>
  OBVIOUS
<1>4. /\ kexCall' \in [KexServers -> KexCall] /\ kexCall'[s] = q
      /\ \A t \in KexServers : t # s => kexCall'[t] = kexCall[t]
  BY <1>1, <1>2, <1>3
<1>5. /\ overlap' \in BOOLEAN
      /\ overlap' = FALSE => overlap = FALSE /\ \A t \in KexServers : kexCall[t].at = "idle"
  BY <1>3, AloneOrOverlap
<1>6. KexTypeOK'
  BY <1>3, <1>4, <1>5 DEF KexStoreInv, KexTypeOK
<1>7. TimesPast'
  BY <1>1, <1>2, <1>3, <1>4 DEF KexStoreInv, TimesPast
<1>8. ExpiryFixed'
  BY <1>3 DEF KexStoreInv, ExpiryFixed
<1>9. CallsInTime'
  BY <1>2, <1>4 DEF KexStoreInv, CallsInTime, LeftInTime
<1>10. Sequential'
  <2> SUFFICES ASSUME overlap' = FALSE
               PROVE  /\ Ordered(taken, moment)
                      /\ \A a, b \in KexServers :
                           kexCall'[a].at # "idle" /\ kexCall'[b].at # "idle" => a = b
                      /\ shared # Missing => Tracks(shared.history, taken, moment)
                      /\ \A t \in KexServers : kexCall'[t].at = "write" => CallTracks(kexCall[t])'
    BY <1>3 DEF Sequential
  <2>1. overlap = FALSE /\ \A t \in KexServers : kexCall[t].at = "idle"
    BY <1>5
  <2>2. \A t \in KexServers : kexCall'[t].at # "idle" => t = s
    BY <1>4, <2>1
  <2>3. at = "write" => CallTracks(q)'
    BY <1>3, <2>1 DEF CallTracks
  <2>4. at = "write" => CallTracks(kexCall[s])'
    BY <1>4, <2>3 DEF CallTracks
  <2>5. /\ Ordered(taken, moment)
        /\ shared # Missing => Tracks(shared.history, taken, moment)
    BY <2>1 DEF KexStoreInv, Sequential
  <2>6. \A t \in KexServers : kexCall'[t].at = "write" => t = s /\ at = "write"
    BY <1>2, <1>4, <2>2
  <2> QED
    BY <2>2, <2>4, <2>5, <2>6
<1> QED
  BY <1>3, <1>6, <1>7, <1>8, <1>9, <1>10 DEF KexStoreInv

\* A creation asks for the whole time of a session without a history.
LEMMA CreateSessionPreserves ==
    ASSUME KexStoreInv, NEW s \in KexServers, create_session(s)
    PROVE  KexStoreInv'
<1>1. moment \in Nat /\ SessionTtl \in Nat \ {0} /\ PerSecond \in Nat \ {0}
  BY KexConstants DEF KexStoreInv, KexTypeOK
<1>2. /\ NewSession \in KexSession
      /\ NewSession.created = moment /\ NewSession.history = <<>>
  <2>1. <<>> \in Seq(KexEntry)
    OBVIOUS
  <2> QED
    BY <1>1, <2>1 DEF NewSession, KexSession, KexState
<1>3. PICK copy \in KexSession : copy = NewSession
  BY <1>2
<1>4. PICK q : q = [at |-> "create", copy |-> copy, message |-> "none", read |-> moment,
                    left |-> SessionTtl]
  OBVIOUS
<1>5. LeftInTime(q)
  <2>1. PICK d \in Nat \ {0}, p \in Nat : d = PerSecond /\ p = SessionTtl * PerSecond
    BY <1>1
  <2>2. q.left * PerSecond = p /\ q.read = moment /\ q.copy.created = moment
    BY <1>2, <1>3, <1>4, <2>1
  <2>3. p + moment <= moment + (p + (d - 1))
    BY <1>1
  <2> QED
    BY <2>1, <2>2, <2>3 DEF LeftInTime, KexLimit
<1>6. /\ kexCall' = [kexCall EXCEPT ![s] = q]
      /\ overlap' = (overlap \/ Busy # {})
      /\ UNCHANGED <<shared, redisExpiry, moment, taken, delay, replayed>>
  BY <1>3, <1>4 DEF create_session, Begins
<1>7. /\ copy.created <= moment /\ copy.history = <<>> /\ SessionTtl \in Nat
      /\ "none" \in KexMessages \cup {"none"} /\ "create" \in {"create", "write"}
  BY <1>1, <1>2, <1>3
<1> QED
  BY <1>4, <1>5, <1>6, <1>7, BeginsPreserves

\* What the calls read and write back is right for what is left of its time.
LEMMA GetSessionPreserves ==
    ASSUME KexStoreInv, NEW s \in KexServers, NEW copy \in KexSession,
           copy.created = shared.created, NEW message \in KexMessages \cup {"none"},
           get_session(s, copy, message),
           NEW q, q = [at |-> "write", copy |-> copy, message |-> message, read |-> moment,
                       left |-> Remaining(copy)],
           overlap = FALSE => CallTracks(q)
    PROVE  KexStoreInv'
<1>1. moment \in Nat /\ copy.created \in Nat /\ copy.created <= moment
  BY DEF KexStoreInv, KexTypeOK, TimesPast, KexSession
<1>2. PICK left \in Nat :
         /\ left = Remaining(copy)
         /\ left > 0 => left * PerSecond + moment <= copy.created + KexLimit
  BY <1>1, RemainingInTime
<1>3. LeftInTime(q)
  <2>1. q.left = left /\ q.read = moment /\ q.copy = copy
    BY <1>2
  <2> QED
    BY <1>2, <2>1 DEF LeftInTime
<1>4. /\ kexCall' = [kexCall EXCEPT ![s] = q]
      /\ overlap' = (overlap \/ Busy # {})
      /\ UNCHANGED <<shared, redisExpiry, moment, taken, delay, replayed>>
  BY DEF get_session, Begins
<1>5. q = [at |-> "write", copy |-> copy, message |-> message, read |-> moment, left |-> left]
  BY <1>2
<1>6. "write" \in {"create", "write"} /\ "write" # "create"
  OBVIOUS
<1> QED
  BY <1>1, <1>3, <1>4, <1>5, <1>6, BeginsPreserves

\* A change of the state leaves the history as it is.
LEMMA UpdatePreservesSession ==
    ASSUME KexStoreInv, NEW s \in KexServers, NEW state \in KexState, NEW secret \in BOOLEAN,
           NEW copy, copy = [shared EXCEPT !.state = state, !.secret = secret],
           get_session(s, copy, "none")
    PROVE  KexStoreInv'
<1>1. PICK x \in KexSession : x = shared
  BY DEF KexStoreInv, KexTypeOK
<1>2. copy \in KexSession /\ copy.created = shared.created /\ copy.history = shared.history
  BY <1>1 DEF KexSession
<1>3. PICK q : q = [at |-> "write", copy |-> copy, message |-> "none", read |-> moment,
                    left |-> Remaining(copy)]
  OBVIOUS
<1>4. q.message = "none" /\ q.copy.history = shared.history
  BY <1>2, <1>3
<1>5. shared # Missing
  BY DEF get_session
<1>6. overlap = FALSE => CallTracks(q)
  BY <1>4, <1>5 DEF KexStoreInv, Sequential, CallTracks
<1> QED
  BY <1>2, <1>3, <1>6, GetSessionPreserves

\* A message that is new goes into the history of the copy.
LEMMA NewMessagePreserves ==
    ASSUME KexStoreInv, NEW s \in KexServers, NEW m \in KexMessages, ~Replay(m),
           NEW copy, copy = [shared EXCEPT !.history =
                               Remembered(Append(Recent(@), [message |-> m, at |-> moment]))],
           get_session(s, copy, m)
    PROVE  KexStoreInv'
<1>1. PICK x \in KexSession : x = shared
  BY DEF KexStoreInv, KexTypeOK
<1>2. PICK h \in Seq(KexEntry) : h = shared.history
  BY <1>1 DEF KexSession
<1>3. moment \in Nat /\ taken \in Seq(KexEntry)
  BY DEF KexStoreInv, KexTypeOK
<1>4. PICK t \in Seq(KexEntry) : t = taken
  BY <1>3
<1>5. PICK e \in KexEntry : e = [message |-> m, at |-> moment]
  BY <1>3 DEF KexEntry
<1>6. PICK w : w = Remembered(Append(Recent(h), e))
  OBVIOUS
<1>7. copy = [x EXCEPT !.history = w]
  BY <1>1, <1>2, <1>5, <1>6
<1>8. shared # Missing /\ m # "none"
  BY KexConstants DEF get_session
<1>9. PICK q : q = [at |-> "write", copy |-> copy, message |-> m, read |-> moment,
                    left |-> Remaining(copy)]
  OBVIOUS
<1>10. w \in Seq(KexEntry)
  BY <1>6, HistoryTyped
<1>11. copy \in KexSession /\ copy.created = shared.created /\ copy.history = w
  BY <1>1, <1>7, <1>10 DEF KexSession
<1>12. \A i \in DOMAIN Recent(h) : Recent(h)[i].message # m
  BY <1>2 DEF Replay
<1>13. /\ q.message = m /\ q.copy.history = w /\ q.read = moment
       /\ [message |-> q.message, at |-> q.read] = e
  BY <1>5, <1>9, <1>11
<1>14. ASSUME overlap = FALSE PROVE CallTracks(q)
  <2>1. Ordered(t, moment) /\ Tracks(h, t, moment)
    BY <1>2, <1>4, <1>8, <1>14 DEF KexStoreInv, Sequential
  <2>2. Tracks(w, Append(t, e), moment)
    BY <1>3, <1>6, <2>1, TakeTracks
  <2>3. NotRepeated(m, t, moment)
    BY <1>3, <1>12, <2>1, UnseenNotRepeated
  <2>4. \A i \in 1 .. Len(t) : t[i].at <= moment
    BY <2>1 DEF Ordered
  <2> QED
    BY <1>4, <1>8, <1>13, <2>2, <2>3, <2>4 DEF CallTracks
<1> QED
  BY <1>9, <1>11, <1>14, GetSessionPreserves

\* A replay is refused and nothing is written.
LEMMA ReplayPreserves ==
    ASSUME KexStoreInv, overlap' = (overlap \/ Busy # {}),
           UNCHANGED <<shared, redisExpiry, kexCall, moment, taken, delay, replayed>>
    PROVE  KexStoreInv'
<1>1. overlap' \in BOOLEAN /\ (overlap' = FALSE => overlap = FALSE)
  BY AloneOrOverlap
<1>2. KexTypeOK'
  BY <1>1 DEF KexStoreInv, KexTypeOK
<1>3. TimesPast' /\ ExpiryFixed' /\ CallsInTime'
  BY DEF KexStoreInv, TimesPast, ExpiryFixed, CallsInTime, LeftInTime
<1>4. Sequential'
  BY <1>1 DEF KexStoreInv, Sequential, CallTracks
<1> QED
  BY <1>2, <1>3, <1>4 DEF KexStoreInv

\* A removal takes the session and leaves the calls under way.
LEMMA RemoveSessionPreserves ==
    ASSUME KexStoreInv, NEW s \in KexServers, remove_session(s)
    PROVE  KexStoreInv'
<1>1. overlap' \in BOOLEAN /\ (overlap' = FALSE => overlap = FALSE)
  BY AloneOrOverlap DEF remove_session
<1>2. shared' = Missing /\ UNCHANGED <<redisExpiry, kexCall, moment, taken, delay, replayed>>
  BY DEF remove_session
<1>3. KexTypeOK'
  BY <1>1, <1>2, MissingTyped DEF KexStoreInv, KexTypeOK
<1>4. TimesPast' /\ ExpiryFixed' /\ CallsInTime'
  <2>1. moment \in Nat /\ Missing.created = 0
    BY MissingTyped DEF KexStoreInv, KexTypeOK
  <2> HIDE DEF Missing
  <2> QED
    BY <1>2, <2>1 DEF KexStoreInv, TimesPast, ExpiryFixed, CallsInTime, LeftInTime
<1>5. Sequential'
  BY <1>1, <1>2 DEF KexStoreInv, Sequential, CallTracks
<1> QED
  BY <1>2, <1>3, <1>4, <1>5 DEF KexStoreInv

\* A call that ends without writing is one call less.
LEMMA CallDropped ==
    ASSUME KexStoreInv, NEW s \in KexServers, kexCall' = [kexCall EXCEPT ![s] = NoKexCall]
    PROVE  /\ kexCall' \in [KexServers -> KexCall]
           /\ kexCall'[s] = NoKexCall
           /\ \A t \in KexServers : t # s => kexCall'[t] = kexCall[t]
           /\ \A t \in KexServers : kexCall'[t].at # "idle" => t # s
           /\ CallsInTime'
<1>1. kexCall \in [KexServers -> KexCall]
  BY DEF KexStoreInv, KexTypeOK
<1>2. PICK n \in KexCall : n = NoKexCall /\ n.at = "idle"
  BY MissingTyped
<1>3. /\ kexCall' \in [KexServers -> KexCall] /\ kexCall'[s] = n
      /\ \A t \in KexServers : t # s => kexCall'[t] = kexCall[t]
  BY <1>1, <1>2
<1>4. CallsInTime'
  BY <1>2, <1>3, MissingTyped DEF KexStoreInv, CallsInTime, LeftInTime
<1> QED
  BY <1>2, <1>3, <1>4

\* A server that cannot save its copy gives up, and Redis keeps what it had.
LEMMA SetFailsPreserves ==
    ASSUME KexStoreInv, NEW s \in KexServers, set_fails(s)
    PROVE  KexStoreInv'
<1>1. /\ kexCall' = [kexCall EXCEPT ![s] = NoKexCall]
      /\ UNCHANGED <<shared, redisExpiry, moment, taken, delay, overlap, replayed>>
  BY DEF set_fails
<1>2. /\ kexCall' \in [KexServers -> KexCall]
      /\ kexCall'[s] = NoKexCall
      /\ \A t \in KexServers : t # s => kexCall'[t] = kexCall[t]
      /\ \A t \in KexServers : kexCall'[t].at # "idle" => t # s
      /\ CallsInTime'
  BY <1>1, CallDropped
<1>3. KexTypeOK' /\ ExpiryFixed'
  BY <1>1, <1>2 DEF KexStoreInv, KexTypeOK, ExpiryFixed
<1>4. TimesPast'
  <2>1. moment \in Nat /\ NoKexCall.copy.created = 0 /\ NoKexCall.read = 0
    BY MissingTyped DEF KexStoreInv, KexTypeOK
  <2> QED
    BY <1>1, <1>2, <2>1 DEF KexStoreInv, TimesPast
<1>5. Sequential'
  <2>1. \A t \in KexServers : kexCall'[t].at # "idle" => kexCall'[t] = kexCall[t]
    BY <1>2
  <2> QED
    BY <1>1, <2>1 DEF KexStoreInv, Sequential, CallTracks
<1> QED
  BY <1>1, <1>2, <1>3, <1>4, <1>5 DEF KexStoreInv

\* A write back stores the copy for what is left of its time; the message it
\* carries joins the messages taken, and was not taken lately.
LEMMA SetExPreserves ==
    ASSUME KexStoreInv, NEW s \in KexServers, set_ex(s)
    PROVE  KexStoreInv'
<1>0. kexCall[s] \in KexCall /\ moment \in Nat /\ taken \in Seq(KexEntry) /\ overlap \in BOOLEAN
  BY DEF KexStoreInv, KexTypeOK
<1>1. PICK c \in KexCall : c = kexCall[s]
  BY <1>0
<1>2. PICK copy \in KexSession, cr \in Nat : copy = c.copy /\ cr = copy.created /\ cr <= moment
  BY <1>1 DEF KexStoreInv, TimesPast, KexCall, KexSession
<1>3. PICK left \in Nat, read \in Nat : left = c.left /\ read = c.read /\ read <= moment
  BY <1>1 DEF KexStoreInv, TimesPast, KexCall
<1>4. PICK lasts \in Nat :
         /\ lasts = left * PerSecond
         /\ left > 0 => lasts > 0 /\ lasts + read <= cr + KexLimit
  <2>1. LeftInTime(c)
    BY <1>1 DEF KexStoreInv, CallsInTime
  <2>2. left > 0 => left * PerSecond + read <= cr + KexLimit
    BY <1>2, <1>3, <2>1 DEF LeftInTime
  <2>3. left * PerSecond \in Nat /\ (left > 0 => left * PerSecond > 0)
    BY KexConstants
  <2> QED
    BY <2>2, <2>3
<1>5. /\ c.at # "idle"
      /\ shared' = IF left > 0 THEN copy ELSE Missing
      /\ redisExpiry' = moment + left * PerSecond
      /\ delay' = moment - read
      /\ taken' = IF c.at = "create" THEN <<>>
                  ELSE IF c.message = "none" THEN taken
                  ELSE Append(taken, [message |-> c.message, at |-> c.read])
      /\ overlap' = IF c.at = "create" THEN Busy # {s} ELSE overlap
      /\ replayed' = (replayed \/ (c.at = "write" /\ ~overlap /\ Repeated(c)))
      /\ kexCall' = [kexCall EXCEPT ![s] = NoKexCall]
      /\ UNCHANGED moment
  BY <1>1, <1>2, <1>3 DEF set_ex
<1>6. /\ kexCall' \in [KexServers -> KexCall]
      /\ kexCall'[s] = NoKexCall
      /\ \A t \in KexServers : t # s => kexCall'[t] = kexCall[t]
      /\ \A t \in KexServers : kexCall'[t].at # "idle" => t # s
      /\ CallsInTime'
      /\ redisExpiry' = moment + lasts
  BY <1>4, <1>5, CallDropped
<1>7. c.read \in Nat /\ c.read <= moment /\ c.message \in KexMessages \cup {"none"}
  BY <1>1 DEF KexStoreInv, TimesPast, KexCall
<1>8. PICK e : e = [message |-> c.message, at |-> c.read]
  OBVIOUS
<1>9. c.message # "none" => e \in KexEntry
  BY <1>7, <1>8 DEF KexEntry
<1>10. KexTypeOK'
  <2>1. shared' \in KexSession
    BY <1>2, <1>5, MissingTyped
  <2>2. redisExpiry' \in Nat
    BY <1>0, <1>4, <1>6
  <2>3. taken' \in Seq(KexEntry)
    <3>1. <<>> \in Seq(KexEntry)
      OBVIOUS
    <3> QED
      BY <1>0, <1>5, <1>8, <1>9, <3>1
  <2>4. overlap' \in BOOLEAN
    BY <1>0, <1>5, Zenon
  <2>5. delay' \in Nat
    BY <1>0, <1>3, <1>5
  <2> QED
    BY <1>0, <1>5, <1>6, <2>1, <2>2, <2>3, <2>4, <2>5 DEF KexTypeOK
<1>11. TimesPast'
  <2>1. Missing.created = 0 /\ NoKexCall.copy.created = 0 /\ NoKexCall.read = 0
    BY MissingTyped
  <2>2. shared'.created <= moment
    BY <1>0, <1>2, <1>5, <2>1
  <2> QED
    BY <1>0, <1>5, <1>6, <2>1, <2>2 DEF KexStoreInv, TimesPast
<1>12. ExpiryFixed'
  <2> SUFFICES ASSUME shared' # Missing
               PROVE  redisExpiry' <= shared'.created + KexLimit + delay' /\ moment' < redisExpiry'
    BY DEF ExpiryFixed, Missing
  <2>1. left > 0 /\ shared' = copy
    BY <1>5
  <2>2. PICK k \in Nat : k = KexLimit
    BY KexConstants
  <2>3. lasts > 0 /\ lasts + read <= cr + k
    <3>1. lasts > 0 /\ lasts + read <= cr + KexLimit
      BY <1>4, <2>1, Zenon
    <3> QED
      BY <2>2, <3>1, Zenon
  <2>4. moment + lasts <= cr + k + (moment - read) /\ moment < moment + lasts
    BY <1>0, <1>3, <2>3
  <2> QED
    BY <1>2, <1>5, <1>6, <2>1, <2>2, <2>4
<1>13. ASSUME overlap = FALSE
       PROVE  /\ Ordered(taken, moment)
              /\ c.at = "write" => CallTracks(c)
              /\ \A t \in KexServers : kexCall[t].at # "idle" => t = s
  BY <1>1, <1>5, <1>13 DEF KexStoreInv, Sequential
<1>14. replayed' = FALSE
  <2>1. ASSUME overlap = FALSE, c.at = "write" PROVE ~Repeated(c)
    <3>1. CASE c.message = "none"
      <4>1. \A i \in DOMAIN taken : taken[i].message # c.message
        <5>1. \A i \in DOMAIN taken : taken[i] \in KexEntry
          BY <1>0
        <5> QED
          BY <3>1, <5>1, KexConstants DEF KexEntry
      <4> QED
        BY <4>1 DEF Repeated
    <3>2. CASE c.message # "none"
      <4>1. NotRepeated(c.message, taken, c.read)
        BY <1>13, <2>1, <3>2 DEF CallTracks
      <4>2. \A i \in DOMAIN taken : i \in 1 .. Len(taken) /\ taken[i] \in KexEntry
        BY <1>0
      <4>3. \A i \in DOMAIN taken : taken[i].at \in Nat
        BY <4>2 DEF KexEntry
      <4>4. MessageLife \in Nat /\ HistorySize \in Nat /\ Len(taken) \in Nat
        BY <1>0, KexConstants
      <4>5. ASSUME NEW i \in DOMAIN taken, taken[i].message = c.message
            PROVE  ~(taken[i].at + MessageLife > c.read) \/ ~(Len(taken) - i < HistorySize)
        <5>1. taken[i].at + MessageLife <= c.read \/ Len(taken) - i >= HistorySize
          BY <4>1, <4>2, <4>5 DEF NotRepeated
        <5>2. i \in Nat /\ taken[i].at \in Nat
          BY <4>2, <4>3
        <5> QED
          BY <1>7, <4>4, <5>1, <5>2
      <4> QED
        BY <4>5 DEF Repeated
    <3> QED
      BY <3>1, <3>2
  <2>2. replayed = FALSE
    BY DEF KexStoreInv
  <2> QED
    BY <1>0, <1>5, <2>1, <2>2, Zenon
<1>15. Sequential'
  <2> SUFFICES ASSUME overlap' = FALSE
               PROVE  /\ Ordered(taken', moment)
                      /\ \A t \in KexServers : kexCall'[t].at = "idle"
                      /\ shared' # Missing => Tracks(shared'.history, taken', moment)
    BY <1>5 DEF Sequential
  <2>0. CASE c.at = "create"
    <3>1. Busy = {s} /\ taken' = <<>>
      BY <1>5, <2>0
    <3>2. \A t \in KexServers : t # s => kexCall[t].at = "idle"
      BY <3>1 DEF Busy
    <3>3. \A t \in KexServers : kexCall'[t].at = "idle"
      BY <1>6, <3>2
    <3>4. copy.history = <<>>
      BY <1>1, <1>2, <2>0 DEF KexStoreInv, CallsInTime
    <3>5. shared' # Missing => shared' = copy
      BY <1>5
    <3> QED
      BY <3>1, <3>3, <3>4, <3>5, TracksNothing DEF Ordered
  <2> SUFFICES ASSUME c.at = "write"
               PROVE  /\ Ordered(taken', moment)
                      /\ \A t \in KexServers : kexCall'[t].at = "idle"
                      /\ shared' # Missing => Tracks(shared'.history, taken', moment)
    BY <1>5, <2>0 DEF KexCall
  <2>5. overlap = FALSE
    BY <1>5
  <2>1. \A t \in KexServers : kexCall'[t].at = "idle"
    BY <1>6, <1>13, <2>5
  <2>2. shared' # Missing => shared' = copy
    BY <1>5
  <2>3. CASE c.message = "none"
    <3>1. taken' = taken /\ Tracks(copy.history, taken, moment)
      BY <1>2, <1>5, <1>13, <2>5, <2>3 DEF CallTracks
    <3> QED
      BY <1>13, <2>5, <2>1, <2>2, <3>1
  <2>4. CASE c.message # "none"
    <3>1. taken' = Append(taken, e) /\ Tracks(copy.history, Append(taken, e), moment)
      BY <1>2, <1>5, <1>8, <1>13, <2>5, <2>4 DEF CallTracks
    <3>2. PICK t \in Seq(KexEntry), n \in Nat : t = taken /\ n = Len(t)
      BY <1>0
    <3>3. PICK u \in Seq(KexEntry) :
             /\ u = Append(t, e) /\ Len(u) = Len(t) + 1
             /\ \A i \in 1 .. Len(t) : u[i] = t[i]
             /\ u[Len(t) + 1] = e
      <4>1. /\ Append(t, e) \in Seq(KexEntry) /\ Len(Append(t, e)) = Len(t) + 1
            /\ \A i \in 1 .. Len(t) : Append(t, e)[i] = t[i]
            /\ Append(t, e)[Len(t) + 1] = e
        BY <1>9, <2>4, EntryAppended
      <4> QED
        BY <4>1
    <3>4. /\ Len(u) = n + 1 /\ u[n + 1] = e /\ \A i \in 1 .. n : u[i] = t[i]
      BY <3>2, <3>3
    <3>5. /\ \A i, j \in 1 .. n : i <= j => t[i].at <= t[j].at
          /\ \A i \in 1 .. n : t[i].at <= moment
      BY <1>13, <2>5, <3>2 DEF Ordered
    <3>6. \A i \in 1 .. n : t[i].at <= c.read
      BY <1>13, <2>5, <2>4, <3>2 DEF CallTracks
    <3>7. e.at = c.read
      BY <1>8
    <3>8. \A i \in 1 .. n + 1 : i \in 1 .. n \/ i = n + 1
      OBVIOUS
    <3>9. \A i \in 1 .. n + 1 : u[i].at <= moment
      BY <1>7, <3>4, <3>5, <3>7, <3>8
    <3>10. \A i, j \in 1 .. n + 1 : i <= j => u[i].at <= u[j].at
      <4> SUFFICES ASSUME NEW i \in 1 .. n + 1, NEW j \in 1 .. n + 1, i <= j
                   PROVE  u[i].at <= u[j].at
        OBVIOUS
      <4>1. CASE j \in 1 .. n
        <5>1. i \in 1 .. n
          BY <4>1
        <5> QED
          BY <3>4, <3>5, <4>1, <5>1
      <4>2. CASE j = n + 1 /\ i \in 1 .. n
        BY <3>4, <3>6, <3>7, <4>2
      <4>3. CASE j = n + 1 /\ i = n + 1
        BY <1>7, <3>4, <3>7, <4>3
      <4> QED
        BY <3>8, <4>1, <4>2, <4>3
    <3>11. Ordered(u, moment)
      BY <3>4, <3>9, <3>10 DEF Ordered
    <3> QED
      BY <2>1, <2>2, <3>1, <3>2, <3>3, <3>11
  <2> QED
    BY <2>3, <2>4
<1> QED
  BY <1>6, <1>10, <1>11, <1>12, <1>14, <1>15 DEF KexStoreInv

\* With the clock, entries only grow older, and Redis drops the session on time.
LEMMA MomentPreserves ==
    ASSUME KexStoreInv, MomentPasses
    PROVE  KexStoreInv'
<1>0. /\ moment \in Nat /\ redisExpiry \in Nat /\ taken \in Seq(KexEntry)
      /\ shared \in KexSession /\ kexCall \in [KexServers -> KexCall]
  BY DEF KexStoreInv, KexTypeOK
<1>1. /\ moment' = moment + 1
      /\ shared' = IF redisExpiry <= moment + 1 THEN Missing ELSE shared
      /\ UNCHANGED <<redisExpiry, kexCall, taken, delay, overlap, replayed>>
  BY DEF MomentPasses
<1>2. KexTypeOK'
  BY <1>0, <1>1, MissingTyped DEF KexStoreInv, KexTypeOK
<1>3. TimesPast'
  <2>1. Missing.created = 0 /\ shared.created \in Nat
    BY <1>0, MissingTyped DEF KexSession
  <2>2. shared'.created <= moment + 1
    <3> HIDE DEF Missing
    <3> QED
      BY <1>0, <1>1, <2>1 DEF KexStoreInv, TimesPast
  <2>3. \A s \in KexServers : kexCall[s].copy.created \in Nat /\ kexCall[s].read \in Nat
    BY <1>0 DEF KexCall, KexSession
  <2>4. \A s \in KexServers :
          kexCall[s].copy.created <= moment + 1 /\ kexCall[s].read <= moment + 1
    BY <1>0, <2>3 DEF KexStoreInv, TimesPast
  <2> QED
    BY <1>1, <2>2, <2>4 DEF TimesPast
<1>4. ExpiryFixed'
  <2> SUFFICES ASSUME shared' # Missing
               PROVE  redisExpiry' <= shared'.created + KexLimit + delay' /\ moment' < redisExpiry'
    BY DEF ExpiryFixed, Missing
  <2>1. shared' = shared /\ ~(redisExpiry <= moment + 1)
    BY <1>1
  <2> QED
    BY <1>0, <1>1, <2>1 DEF KexStoreInv, ExpiryFixed
<1>5. Sequential'
  <2> SUFFICES ASSUME overlap = FALSE
               PROVE  /\ Ordered(taken, moment + 1)
                      /\ \A s, t \in KexServers :
                            kexCall[s].at # "idle" /\ kexCall[t].at # "idle" => s = t
                      /\ shared' # Missing => Tracks(shared'.history, taken, moment + 1)
                      /\ \A s \in KexServers : kexCall[s].at = "write" => CallTracks(kexCall[s])'
    BY <1>1 DEF Sequential
  <2>1. Ordered(taken, moment + 1)
    <3>1. \A i \in 1 .. Len(taken) : taken[i] \in KexEntry
      BY <1>0
    <3>2. \A i \in 1 .. Len(taken) : taken[i].at \in Nat
      BY <3>1 DEF KexEntry
    <3> QED
      BY <1>0, <3>2 DEF KexStoreInv, Sequential, Ordered
  <2>2. moment + 1 \in Nat /\ moment <= moment + 1
    BY <1>0
  <2>3. ASSUME shared' # Missing PROVE Tracks(shared'.history, taken, moment + 1)
    <3>1. shared' = shared /\ shared # Missing
      BY <1>1, <2>3
    <3>2. PICK h \in Seq(KexEntry) : h = shared.history
      BY <1>0 DEF KexSession
    <3>3. Tracks(h, taken, moment)
      BY <3>1, <3>2 DEF KexStoreInv, Sequential
    <3> QED
      BY <1>0, <2>2, <3>1, <3>2, <3>3, TracksLater
  <2>4. ASSUME NEW s \in KexServers, kexCall[s].at = "write" PROVE CallTracks(kexCall[s])'
    <3>1. PICK c \in KexCall : c = kexCall[s]
      BY <1>0
    <3>2. CallTracks(c)
      BY <2>4, <3>1 DEF KexStoreInv, Sequential
    <3>3. PICK h \in Seq(KexEntry) : h = c.copy.history
      BY DEF KexCall, KexSession
    <3>4. ASSUME c.message = "none" PROVE Tracks(h, taken, moment + 1)
      BY <1>0, <2>2, <3>2, <3>3, <3>4, TracksLater DEF CallTracks
    <3>5. ASSUME c.message # "none"
          PROVE  Tracks(h, Append(taken, [message |-> c.message, at |-> c.read]), moment + 1)
      <4>1. PICK e \in KexEntry : e = [message |-> c.message, at |-> c.read]
        <5>1. c.message \in KexMessages /\ c.read \in Nat
          BY <3>5 DEF KexCall
        <5> QED
          BY <5>1 DEF KexEntry
      <4>2. PICK u \in Seq(KexEntry) : u = Append(taken, e)
        <5>1. Append(taken, e) \in Seq(KexEntry)
          BY <1>0
        <5> QED
          BY <5>1
      <4>3. Tracks(h, u, moment)
        BY <3>2, <3>3, <3>5, <4>1, <4>2 DEF CallTracks
      <4>4. Tracks(h, u, moment + 1)
        BY <1>0, <2>2, <4>3, TracksLater
      <4> QED
        BY <4>1, <4>2, <4>4
    <3>6. CallTracks(c)'
      BY <1>1, <3>2, <3>3, <3>4, <3>5 DEF CallTracks
    <3> QED
      BY <1>1, <3>1, <3>6 DEF CallTracks
  <2> QED
    BY <2>1, <2>3, <2>4 DEF KexStoreInv, Sequential
<1>6. CallsInTime'
  BY <1>1 DEF KexStoreInv, CallsInTime, LeftInTime
<1> QED
  BY <1>1, <1>2, <1>3, <1>4, <1>5, <1>6 DEF KexStoreInv

\* Every step keeps the invariant.
LEMMA KexStoreStepPreserves == KexStoreInv /\ [KexStoreNext]_kexStoreVars => KexStoreInv'
<1> SUFFICES ASSUME KexStoreInv, [KexStoreNext]_kexStoreVars PROVE KexStoreInv'
  OBVIOUS
<1>1. ASSUME NEW s \in KexServers, create_session(s) PROVE KexStoreInv'
  BY <1>1, CreateSessionPreserves
<1>2. ASSUME NEW s \in KexServers, complete_session(s) PROVE KexStoreInv'
  <2>1. "Completed" \in KexState /\ TRUE \in BOOLEAN
    BY DEF KexState
  <2> QED
    BY <1>2, <2>1, UpdatePreservesSession DEF complete_session
<1>3. ASSUME NEW s \in KexServers, remove_session(s) PROVE KexStoreInv'
  BY <1>3, RemoveSessionPreserves
<1>4. ASSUME NEW s \in KexServers, NEW state \in {"WaitForResponse", "Failed"},
             update_state(s, state)
      PROVE  KexStoreInv'
  <2>1. state \in KexState
    BY DEF KexState
  <2>2. PICK x \in KexSession, b \in BOOLEAN : x = shared /\ b = x.secret
    BY DEF KexStoreInv, KexTypeOK, KexSession
  <2>3. PICK copy : copy = [x EXCEPT !.state = state]
    OBVIOUS
  <2>4. copy = [x EXCEPT !.state = state, !.secret = b]
    BY <2>2, <2>3 DEF KexSession
  <2>5. get_session(s, copy, "none")
    BY <1>4, <2>2, <2>3 DEF update_state
  <2> QED
    BY <2>1, <2>2, <2>4, <2>5, UpdatePreservesSession
<1>5. ASSUME NEW s \in KexServers, NEW m \in KexMessages, check_and_add_message(s, m)
      PROVE  KexStoreInv'
  <2>1. PICK copy : copy = [shared EXCEPT !.history =
                              Remembered(Append(Recent(@), [message |-> m, at |-> moment]))]
    OBVIOUS
  <2>2. CASE ~Replay(m) /\ get_session(s, copy, m)
    BY <2>1, <2>2, NewMessagePreserves
  <2>3. CASE /\ overlap' = (overlap \/ Busy # {})
             /\ UNCHANGED <<shared, redisExpiry, kexCall, moment, taken, delay, replayed>>
    BY <2>3, ReplayPreserves
  <2> QED
    BY <1>5, <2>1, <2>2, <2>3 DEF check_and_add_message
<1>6. ASSUME NEW s \in KexServers, set_ex(s) PROVE KexStoreInv'
  BY <1>6, SetExPreserves
<1>7. ASSUME NEW s \in KexServers, set_fails(s) PROVE KexStoreInv'
  BY <1>7, SetFailsPreserves
<1>8. CASE MomentPasses
  BY <1>8, MomentPreserves
<1>9. CASE UNCHANGED kexStoreVars
  <2>1. UNCHANGED <<shared, redisExpiry, kexCall, moment, taken, delay, overlap, replayed>>
    BY <1>9 DEF kexStoreVars
  <2> QED
    BY <2>1 DEF KexStoreInv, KexTypeOK, TimesPast, ExpiryFixed, CallsInTime, LeftInTime,
                  Sequential, CallTracks
<1> QED
  BY <1>1, <1>2, <1>3, <1>4, <1>5, <1>6, <1>7, <1>8, <1>9 DEF KexStoreNext

\* What the invariant says of a session that Redis still holds.
LEMMA KexStoreInvSound == KexStoreInv => KexSessionsSound
<1> SUFFICES ASSUME KexStoreInv PROVE KexSessionsSound
  OBVIOUS
<1>1. ASSUME shared # Missing
      PROVE  moment < shared.created + SessionTtl * PerSecond + (PerSecond - 1) + delay
  <2>1. PICK cr \in Nat, d \in Nat, e \in Nat, now \in Nat :
           cr = shared.created /\ d = delay /\ e = redisExpiry /\ now = moment
    BY DEF KexStoreInv, KexTypeOK, KexSession
  <2>2. PICK p \in Nat, n \in Nat \ {0} : p = SessionTtl * PerSecond /\ n = PerSecond
    BY KexConstants
  <2>3. e <= cr + (p + (n - 1)) + d /\ now < e
    BY <1>1, <2>1, <2>2 DEF KexStoreInv, ExpiryFixed, KexLimit
  <2>4. now < cr + p + (n - 1) + d
    BY <2>3
  <2> QED
    BY <2>1, <2>2, <2>4
<1> QED
  BY <1>1 DEF KexStoreInv, KexSessionsSound, ReplaysCaught, SessionsEnd


\* Servers that share keys and key exchange sessions through Redis, with any
\* number of them, of keys and of messages, and any failures of Redis: no answer
\* comes from a cached entry, a stale one heals within its time to live, a
\* replay needs an overlap, and no session outlives its time by more than a part
\* of a second and the way of its last write.
THEOREM RedisStaysSound == RedisSpec => []RedisSound
<1>1. RedisInit => CachedInv /\ KexStoreInv
  BY CachedInitEstablishes, KexStoreInitEstablishes DEF RedisInit
<1>2. CachedInv /\ KexStoreInv /\ [RedisNext]_redisVars => (CachedInv /\ KexStoreInv)'
  <2> SUFFICES ASSUME CachedInv, KexStoreInv, [RedisNext]_redisVars
               PROVE  CachedInv' /\ KexStoreInv'
    OBVIOUS
  <2>1. [CachedNext]_cachedVars /\ [KexStoreNext]_kexStoreVars
    BY DEF RedisNext, redisVars
  <2> QED
    BY <2>1, CachedStepPreserves, KexStoreStepPreserves
<1>3. CachedInv /\ KexStoreInv => RedisSound
  BY CachedInvSound, KexStoreInvSound DEF RedisSound
<1> QED
  BY <1>1, <1>2, <1>3, PTL DEF RedisSpec


(***************************************************************************)
(* The managers of versions.  The lock of the SM9 managers makes the call  *)
(* under way own the newest version of its line: nobody advances the line  *)
(* and nobody else registers in it, until the call has written the         *)
(* registry or given up.  Sm9Inv says so.  SecretInv says that the         *)
(* versions of a secret count down from the number that were drawn.        *)
(***************************************************************************)

Sm9Version == 1 .. LastSm9Version
Sm9Entry == [tenant : Sm9Tenants, type : Types, version : Nat]
Sm9Line == [current : Nat, until : [Sm9Version -> Nat]]
AdapterCall == [at : {"idle", "rotate", "encrypt", "update"}, key : Sm9Keys \cup {"none"},
                entry : Sm9Entry \cup {NoKeyEntry}]

Sm9TypeOK ==
    /\ manager \in [Sm9Tenants -> [Types -> Sm9Line]]
    /\ registry \in [Sm9Keys -> Sm9Entry \cup {NoKeyEntry}]
    /\ adapterCall \in [Sm9Callers -> AdapterCall]
    /\ sm9Time \in Nat

Owns(c) == adapterCall[c].at \in {"encrypt", "update"}
InLine(e, f) == e.tenant = f.tenant /\ e.type = f.type

LockHeld == \A c \in Sm9Callers : Owns(c) => managersLock = c

\* A call is about a key of the registry and its line, or about a new one.
CallsNamed ==
    \A c \in Sm9Callers :
        LET a == adapterCall[c]
        IN  /\ a.at # "idle" => a.key \in Sm9Keys /\ a.entry \in Sm9Entry
            /\ a.at = "rotate" => registry[a.key] \in Sm9Entry /\ InLine(registry[a.key], a.entry)
            /\ Owns(c) => \/ registry[a.key] = NoKeyEntry
                          \/ registry[a.key] \in Sm9Entry /\ InLine(registry[a.key], a.entry)

\* Its version is the newest of the line, and no key's yet.
OwnNewest ==
    \A c \in Sm9Callers : Owns(c) =>
        LET e == adapterCall[c].entry
        IN  /\ e.version = current_version(e.tenant, e.type)
            /\ \A k \in OfLine(e.tenant, e.type) : registry[k].version < e.version
            /\ e.version > 0

\* The newest version of a line has its key, or a call that owns it or gave it up.
HeldLine(t, y) ==
    \/ <<t, y>> \in unregistered
    \/ \E c \in Sm9Callers : Owns(c) /\ adapterCall[c].entry.tenant = t /\ adapterCall[c].entry.type = y
    \/ current_version(t, y) = 0
    \/ \E k \in OfLine(t, y) : registry[k].version = current_version(t, y)
NewestHeld == \A t \in Sm9Tenants, y \in Types : HeldLine(t, y)

GraceBounded ==
    \A t \in Sm9Tenants, y \in Types :
        /\ current_version(t, y) <= LastSm9Version
        /\ \A v \in Sm9Version : v < current_version(t, y) => Line(t, y).until[v] <= sm9Time + GracePeriod

Sm9Inv == Sm9TypeOK /\ LockHeld /\ CallsNamed /\ OwnNewest /\ VersionsApart /\ NewestHeld /\ GraceBounded

SecretVersion == [version : Nat, expires : Nat, active : BOOLEAN]
SecretTypeOK ==
    /\ config \in SecretConfigs \cup {NoConfig}
    /\ secrets \in Seq(SecretVersion)
    /\ lastRotation \in [old : Nat, new : Nat, failed : BOOLEAN]
    /\ secretTime \in Nat /\ drawn \in Nat /\ numbersReset \in BOOLEAN
KeptSize == config # NoConfig => Len(secrets) <= (IF config.keep = 0 THEN 1 ELSE config.keep)
CountDown ==
    numbersReset = FALSE => \A i \in DOMAIN secrets : secrets[i].version + i = drawn + 1

SecretInv == SecretTypeOK /\ OneInUse /\ KeptSize /\ CountDown

\* What the managers are configured with, and entries that are none.
LEMMA Sm9Constants ==
    /\ GracePeriod \in Nat /\ LastSm9Version \in Nat /\ LastSm9Time \in Nat
    /\ "none" \notin Sm9Callers
    /\ NoKeyEntry \notin Sm9Entry /\ NoKeyEntry.type \notin Types
    /\ NoAdapterCall \in AdapterCall /\ NoAdapterCall.at = "idle"
<1>1. NoKeyEntry \notin Sm9Entry /\ NoKeyEntry.type \notin Types
  BY DEF NoKeyEntry, Sm9Entry, Types
<1>2. NoAdapterCall \in AdapterCall /\ NoAdapterCall.at = "idle"
  BY DEF NoAdapterCall, AdapterCall
<1> QED
  BY <1>1, <1>2, Sm9Assumption

\* At first there is no version of anything.
LEMMA Sm9InitEstablishes == Sm9Init => Sm9Inv
<1> SUFFICES ASSUME Sm9Init PROVE Sm9Inv
  OBVIOUS
<1>1. /\ \A k \in Sm9Keys : registry[k] = NoKeyEntry
      /\ \A c \in Sm9Callers : adapterCall[c] = NoAdapterCall /\ adapterCall[c].at = "idle"
      /\ sm9Time = 0
  BY Sm9Constants DEF Sm9Init
<1>2. PICK l \in Sm9Line : l = [current |-> 0, until |-> [v \in 1..LastSm9Version |-> 0]] /\ l.current = 0
  <2>1. [v \in 1..LastSm9Version |-> 0] \in [Sm9Version -> Nat]
    BY DEF Sm9Version
  <2>2. [current |-> 0, until |-> [v \in 1..LastSm9Version |-> 0]] \in Sm9Line
    BY <2>1 DEF Sm9Line
  <2> QED
    BY <2>2
<1>3. manager = [t \in Sm9Tenants |-> [y \in Types |-> l]]
  BY <1>2 DEF Sm9Init
<1>4. /\ manager \in [Sm9Tenants -> [Types -> Sm9Line]]
      /\ \A t \in Sm9Tenants, y \in Types : manager[t][y] = l
  BY <1>3
<1>5. \A t \in Sm9Tenants, y \in Types : current_version(t, y) = 0
  BY <1>2, <1>4 DEF current_version, Line
<1>6. \A t \in Sm9Tenants, y \in Types : OfLine(t, y) = {}
  BY <1>1, Sm9Constants DEF OfLine
<1>7. Sm9TypeOK
  <2>1. registry \in [Sm9Keys -> Sm9Entry \cup {NoKeyEntry}]
    BY DEF Sm9Init
  <2>2. adapterCall \in [Sm9Callers -> AdapterCall]
    BY Sm9Constants DEF Sm9Init
  <2> QED
    BY <1>1, <1>4, <2>1, <2>2 DEF Sm9TypeOK
<1>8. \A c \in Sm9Callers : ~Owns(c)
  BY <1>1 DEF Owns
<1>9. LockHeld /\ OwnNewest
  BY <1>8 DEF LockHeld, OwnNewest
<1>10. CallsNamed
  BY <1>1, <1>8 DEF CallsNamed
<1>11. VersionsApart /\ NewestHeld
  BY <1>5, <1>6 DEF VersionsApart, NewestHeld, HeldLine
<1>12. GraceBounded
  BY <1>5, Sm9Constants DEF GraceBounded, Sm9Version
<1> QED
  BY <1>7, <1>9, <1>10, <1>11, <1>12 DEF Sm9Inv

\* The next version of a line is one more, and the one before ends in time.
LEMMA NextVersionLine ==
    ASSUME Sm9Inv, NEW t \in Sm9Tenants, NEW y \in Types, Advance(t, y)
    PROVE  /\ manager' \in [Sm9Tenants -> [Types -> Sm9Line]]
           /\ manager'[t][y].current = current_version(t, y) + 1
           /\ current_version(t, y) \in Nat /\ current_version(t, y) + 1 <= LastSm9Version
           /\ \A v \in Sm9Version : v < current_version(t, y) + 1 =>
                 manager'[t][y].until[v] <= sm9Time + GracePeriod
           /\ \A a \in Sm9Tenants, b \in Types : a # t \/ b # y => manager'[a][b] = manager[a][b]
<1>1. manager \in [Sm9Tenants -> [Types -> Sm9Line]] /\ sm9Time \in Nat
  BY DEF Sm9Inv, Sm9TypeOK
<1>2. PICK m \in Sm9Line : m = manager[t][y]
  BY <1>1
<1>3. PICK n \in Nat : n = m.current /\ n = current_version(t, y)
  BY <1>2 DEF Sm9Line, current_version, Line
<1>4. n < LastSm9Version
  BY <1>3 DEF Advance
<1>5. m.until \in [Sm9Version -> Nat]
  BY DEF Sm9Line
<1>6. PICK f \in [Sm9Version -> Nat] :
        f = [v \in 1..LastSm9Version |->
               IF v = n + 1 THEN Forever ELSE IF v = n THEN sm9Time + GracePeriod ELSE m.until[v]]
  <2>1. Forever \in Nat /\ sm9Time + GracePeriod \in Nat
    BY <1>1, Sm9Constants DEF Forever
  <2>2. [v \in 1..LastSm9Version |->
           IF v = n + 1 THEN Forever ELSE IF v = n THEN sm9Time + GracePeriod ELSE m.until[v]]
        \in [Sm9Version -> Nat]
    BY <1>5, <2>1 DEF Sm9Version
  <2> QED
    BY <2>2
<1>7. PICK l \in Sm9Line : l = [current |-> n + 1, until |-> f] /\ l.current = n + 1 /\ l.until = f
  <2>1. [current |-> n + 1, until |-> f] \in Sm9Line
    BY DEF Sm9Line
  <2> QED
    BY <2>1
<1>8. NextVersion(t, y) = l
  BY <1>2, <1>3, <1>6, <1>7 DEF NextVersion, Line
<1>9. manager' = [manager EXCEPT ![t][y] = l]
  BY <1>8 DEF Advance
<1>10. PICK r \in [Types -> Sm9Line] : r = [manager[t] EXCEPT ![y] = l]
  BY <1>1
<1>11. manager' = [manager EXCEPT ![t] = r]
  BY <1>9, <1>10
<1>12. r[y] = l /\ \A b \in Types : b # y => r[b] = manager[t][b]
  BY <1>1, <1>10
<1>13. /\ manager' \in [Sm9Tenants -> [Types -> Sm9Line]]
       /\ manager'[t] = r /\ \A a \in Sm9Tenants : a # t => manager'[a] = manager[a]
  BY <1>1, <1>11
<1>14. ASSUME NEW v \in Sm9Version, v < n + 1 PROVE f[v] <= sm9Time + GracePeriod
  <2>0. v \in Nat
    BY DEF Sm9Version
  <2>1. CASE v = n
    BY <1>1, <1>6, <2>1, Sm9Constants DEF Sm9Version
  <2>2. CASE v # n
    <3>1. v < n /\ v # n + 1
      BY <1>14, <2>0, <2>2
    <3>2. f[v] = m.until[v]
      BY <1>6, <2>2, <3>1 DEF Sm9Version
    <3>3. m.until[v] <= sm9Time + GracePeriod
      BY <1>2, <1>3, <3>1 DEF Sm9Inv, GraceBounded, Line
    <3> QED
      BY <3>2, <3>3
  <2> QED
    BY <2>1, <2>2
<1>15. manager'[t][y] = l
  BY <1>12, <1>13
<1>16. n + 1 <= LastSm9Version
  BY <1>4, Sm9Constants
<1> QED
  BY <1>3, <1>7, <1>12, <1>13, <1>14, <1>15, <1>16

\* A registration or a rotation takes the lock with the next version of a line.
LEMMA LockedPreserves ==
    ASSUME Sm9Inv, NEW c \in Sm9Callers, NEW k \in Sm9Keys, NEW t \in Sm9Tenants, NEW y \in Types,
           Advance(t, y), Locked(c, k, t, y), UNCHANGED <<registry, sm9Time, unregistered>>,
           registry[k] = NoKeyEntry \/
             (registry[k] \in Sm9Entry /\ registry[k].tenant = t /\ registry[k].type = y)
    PROVE  Sm9Inv'
<1>1. PICK n \in Nat : n = current_version(t, y) /\ n + 1 <= LastSm9Version
  BY NextVersionLine
<1>2. /\ manager' \in [Sm9Tenants -> [Types -> Sm9Line]]
      /\ manager'[t][y].current = n + 1
      /\ \A v \in Sm9Version : v < n + 1 => manager'[t][y].until[v] <= sm9Time + GracePeriod
      /\ \A a \in Sm9Tenants, b \in Types : a # t \/ b # y => manager'[a][b] = manager[a][b]
  BY <1>1, NextVersionLine
<1>3. \A d \in Sm9Callers : ~Owns(d)
  BY Sm9Constants DEF Locked, Sm9Inv, LockHeld
<1>4. PICK e \in Sm9Entry : /\ e = [tenant |-> t, type |-> y, version |-> n + 1]
                            /\ e.tenant = t /\ e.type = y /\ e.version = n + 1
  <2>1. [tenant |-> t, type |-> y, version |-> n + 1] \in Sm9Entry
    BY DEF Sm9Entry
  <2> QED
    BY <2>1
<1>5. PICK a \in AdapterCall : /\ a = [at |-> "encrypt", key |-> k, entry |-> e]
                               /\ a.at = "encrypt" /\ a.key = k /\ a.entry = e
  <2>1. [at |-> "encrypt", key |-> k, entry |-> e] \in AdapterCall
    BY DEF AdapterCall
  <2> QED
    BY <2>1
<1>6. adapterCall' = [adapterCall EXCEPT ![c] = a] /\ managersLock' = c
  BY <1>1, <1>4, <1>5 DEF Locked
<1>7. /\ adapterCall' \in [Sm9Callers -> AdapterCall] /\ adapterCall'[c] = a
      /\ \A d \in Sm9Callers : d # c => adapterCall'[d] = adapterCall[d]
  BY <1>6 DEF Sm9Inv, Sm9TypeOK
<1>8. \A d \in Sm9Callers : Owns(d)' => d = c
  BY <1>3, <1>7 DEF Owns
<1>9. Sm9TypeOK'
  BY <1>2, <1>7 DEF Sm9Inv, Sm9TypeOK
<1>10. LockHeld'
  BY <1>6, <1>8 DEF LockHeld
<1>11. CallsNamed'
  <2> SUFFICES ASSUME NEW d \in Sm9Callers
               PROVE  /\ adapterCall'[d].at # "idle" =>
                            adapterCall'[d].key \in Sm9Keys /\ adapterCall'[d].entry \in Sm9Entry
                      /\ adapterCall'[d].at = "rotate" =>
                            /\ registry[adapterCall'[d].key] \in Sm9Entry
                            /\ InLine(registry[adapterCall'[d].key], adapterCall'[d].entry)
                      /\ Owns(d)' =>
                            \/ registry[adapterCall'[d].key] = NoKeyEntry
                            \/ /\ registry[adapterCall'[d].key] \in Sm9Entry
                               /\ InLine(registry[adapterCall'[d].key], adapterCall'[d].entry)
    BY DEF CallsNamed
  <2>1. CASE d = c
    BY <1>4, <1>5, <1>7, <2>1 DEF InLine
  <2>2. CASE d # c
    BY <1>7, <1>8, <2>2 DEF Sm9Inv, CallsNamed
  <2> QED
    BY <2>1, <2>2
<1>12. OwnNewest'
  <2> SUFFICES ASSUME NEW d \in Sm9Callers, Owns(d)'
               PROVE  /\ adapterCall'[d].entry.version =
                           manager'[adapterCall'[d].entry.tenant][adapterCall'[d].entry.type].current
                      /\ \A o \in OfLine(adapterCall'[d].entry.tenant, adapterCall'[d].entry.type) :
                           registry[o].version < adapterCall'[d].entry.version
                      /\ adapterCall'[d].entry.version > 0
    BY DEF OwnNewest, current_version, Line, OfLine
  <2>1. adapterCall'[d].entry = e
    BY <1>5, <1>7, <1>8
  <2>2. ASSUME NEW o \in OfLine(t, y) PROVE registry[o].version < n + 1
    <3>1. registry[o].version \in 1 .. n
      BY <1>1 DEF Sm9Inv, VersionsApart
    <3> QED
      BY <3>1
  <2> QED
    BY <1>2, <1>4, <2>1, <2>2
<1>13. VersionsApart'
  <2> SUFFICES ASSUME NEW a1 \in Sm9Tenants, NEW b1 \in Types, NEW o \in OfLine(a1, b1)
               PROVE  /\ registry[o].version \in 1 .. manager'[a1][b1].current
                      /\ \A p \in OfLine(a1, b1) \ {o} : registry[p].version # registry[o].version
    BY DEF VersionsApart, current_version, Line, OfLine
  <2>1. /\ registry[o].version \in 1 .. manager[a1][b1].current
        /\ \A p \in OfLine(a1, b1) \ {o} : registry[p].version # registry[o].version
    BY DEF Sm9Inv, VersionsApart, current_version, Line
  <2>2. CASE a1 = t /\ b1 = y
    <3>1. registry[o].version \in 1 .. n
      BY <1>1, <2>1, <2>2 DEF current_version, Line
    <3> QED
      BY <1>2, <2>1, <2>2, <3>1
  <2>3. CASE a1 # t \/ b1 # y
    BY <1>2, <2>1, <2>3
  <2> QED
    BY <2>2, <2>3
<1>14. NewestHeld'
  <2>0. \A a1, b1 : OfLine(a1, b1)' = OfLine(a1, b1)
    BY DEF OfLine
  <2> SUFFICES ASSUME NEW a1 \in Sm9Tenants, NEW b1 \in Types
               PROVE  \/ <<a1, b1>> \in unregistered
                      \/ \E d \in Sm9Callers : /\ Owns(d)' /\ adapterCall'[d].entry.tenant = a1
                                               /\ adapterCall'[d].entry.type = b1
                      \/ manager'[a1][b1].current = 0
                      \/ \E o \in OfLine(a1, b1) : registry[o].version = manager'[a1][b1].current
    BY <2>0 DEF NewestHeld, HeldLine, current_version, Line
  <2>1. CASE a1 = t /\ b1 = y
    <3>1. Owns(c)'
      BY <1>5, <1>7 DEF Owns
    <3> QED
      BY <1>4, <1>5, <1>7, <2>1, <3>1
  <2>2. CASE a1 # t \/ b1 # y
    <3>1. manager'[a1][b1] = manager[a1][b1]
      BY <1>2, <2>2
    <3> QED
      BY <1>3, <3>1 DEF Sm9Inv, NewestHeld, HeldLine, current_version, Line
  <2> QED
    BY <2>1, <2>2
<1>15. GraceBounded'
  <2> SUFFICES ASSUME NEW a1 \in Sm9Tenants, NEW b1 \in Types
               PROVE  /\ manager'[a1][b1].current <= LastSm9Version
                      /\ \A v \in Sm9Version : v < manager'[a1][b1].current =>
                            manager'[a1][b1].until[v] <= sm9Time + GracePeriod
    BY DEF GraceBounded, current_version, Line
  <2>1. CASE a1 = t /\ b1 = y
    BY <1>1, <1>2, <2>1
  <2>2. CASE a1 # t \/ b1 # y
    BY <1>2, <2>2 DEF Sm9Inv, GraceBounded, current_version, Line
  <2> QED
    BY <2>1, <2>2
<1> QED
  BY <1>9, <1>10, <1>11, <1>12, <1>13, <1>14, <1>15 DEF Sm9Inv

\* Nothing but the calls and the clock changes: what is left of the invariant
\* speaks of the same managers and the same registry.
LEMMA RegistryKept ==
    ASSUME Sm9Inv, UNCHANGED <<manager, registry>>
    PROVE  /\ VersionsApart' /\ \A t, y : OfLine(t, y)' = OfLine(t, y)
           /\ \A t, y : current_version(t, y)' = current_version(t, y)
<1>1. \A t, y : OfLine(t, y)' = OfLine(t, y)
  BY DEF OfLine
<1>2. \A t, y : current_version(t, y)' = current_version(t, y)
  BY DEF current_version, Line
<1>3. VersionsApart'
  BY <1>1, <1>2 DEF Sm9Inv, VersionsApart
<1> QED
  BY <1>1, <1>2, <1>3

\* A rotation begins with the entry of its key.
LEMMA GetEntryPreserves ==
    ASSUME Sm9Inv, NEW c \in Sm9Callers, NEW k \in Sm9Keys, NEW y \in Types, get_entry(c, k, y)
    PROVE  Sm9Inv'
<1>1. /\ adapterCall[c].at = "idle" /\ registry[k].type = y
      /\ UNCHANGED <<manager, registry, managersLock, sm9Time, unregistered>>
  BY DEF get_entry
<1>2. PICK e \in Sm9Entry : e = registry[k]
  <2>1. registry[k] \in Sm9Entry \cup {NoKeyEntry}
    BY DEF Sm9Inv, Sm9TypeOK
  <2> QED
    BY <1>1, <2>1, Sm9Constants
<1>3. PICK a \in AdapterCall : /\ a = [at |-> "rotate", key |-> k, entry |-> e]
                               /\ a.at = "rotate" /\ a.key = k /\ a.entry = e
  <2>1. [at |-> "rotate", key |-> k, entry |-> e] \in AdapterCall
    BY DEF AdapterCall
  <2> QED
    BY <2>1
<1>4. adapterCall' = [adapterCall EXCEPT ![c] = a]
  BY <1>2, <1>3 DEF get_entry
<1>5. /\ adapterCall' \in [Sm9Callers -> AdapterCall] /\ adapterCall'[c] = a
      /\ \A d \in Sm9Callers : d # c => adapterCall'[d] = adapterCall[d]
  BY <1>4 DEF Sm9Inv, Sm9TypeOK
<1>6. \A d \in Sm9Callers : (Owns(d)' <=> Owns(d)) /\ (Owns(d) => adapterCall'[d] = adapterCall[d])
  BY <1>1, <1>3, <1>5 DEF Owns
<1>7. Sm9TypeOK' /\ LockHeld'
  BY <1>1, <1>5, <1>6 DEF Sm9Inv, Sm9TypeOK, LockHeld
<1>8. CallsNamed'
  <2> SUFFICES ASSUME NEW d \in Sm9Callers
               PROVE  /\ adapterCall'[d].at # "idle" =>
                            adapterCall'[d].key \in Sm9Keys /\ adapterCall'[d].entry \in Sm9Entry
                      /\ adapterCall'[d].at = "rotate" =>
                            /\ registry[adapterCall'[d].key] \in Sm9Entry
                            /\ InLine(registry[adapterCall'[d].key], adapterCall'[d].entry)
                      /\ Owns(d)' =>
                            \/ registry[adapterCall'[d].key] = NoKeyEntry
                            \/ /\ registry[adapterCall'[d].key] \in Sm9Entry
                               /\ InLine(registry[adapterCall'[d].key], adapterCall'[d].entry)
    BY <1>1 DEF CallsNamed
  <2>1. CASE d = c
    BY <1>2, <1>3, <1>5, <2>1 DEF InLine
  <2>2. CASE d # c
    BY <1>5, <1>6, <2>2 DEF Sm9Inv, CallsNamed
  <2> QED
    BY <2>1, <2>2
<1>9. /\ VersionsApart' /\ (\A t, b : OfLine(t, b)' = OfLine(t, b))
      /\ \A t, b : current_version(t, b)' = current_version(t, b)
  BY <1>1, RegistryKept
<1>10. OwnNewest'
  BY <1>1, <1>6, <1>9 DEF Sm9Inv, OwnNewest
<1>11. NewestHeld'
  BY <1>1, <1>6, <1>9 DEF Sm9Inv, NewestHeld, HeldLine
<1>12. GraceBounded'
  BY <1>1 DEF Sm9Inv, GraceBounded, current_version, Line
<1> QED
  BY <1>7, <1>8, <1>9, <1>10, <1>11, <1>12 DEF Sm9Inv

\* Once the new key is encrypted the call still owns its version.
LEMMA EncryptedPreserves ==
    ASSUME Sm9Inv, NEW c \in Sm9Callers, adapterCall[c].at = "encrypt",
           adapterCall' = [adapterCall EXCEPT ![c].at = "update"],
           UNCHANGED <<manager, registry, managersLock, sm9Time, unregistered>>
    PROVE  Sm9Inv'
<1>1. PICK b \in AdapterCall : b = adapterCall[c]
  BY DEF Sm9Inv, Sm9TypeOK
<1>2. PICK a \in AdapterCall : /\ a = [b EXCEPT !.at = "update"]
                               /\ a.at = "update" /\ a.key = b.key /\ a.entry = b.entry
  <2>1. [b EXCEPT !.at = "update"] \in AdapterCall
    BY DEF AdapterCall
  <2> QED
    BY <2>1 DEF AdapterCall
<1>3. adapterCall' = [adapterCall EXCEPT ![c] = a]
  BY <1>1, <1>2
<1>4. /\ adapterCall' \in [Sm9Callers -> AdapterCall] /\ adapterCall'[c] = a
      /\ \A d \in Sm9Callers : d # c => adapterCall'[d] = adapterCall[d]
  BY <1>3 DEF Sm9Inv, Sm9TypeOK
<1>5. \A d \in Sm9Callers : /\ Owns(d)' <=> Owns(d)
                            /\ adapterCall'[d].key = adapterCall[d].key
                            /\ adapterCall'[d].entry = adapterCall[d].entry
                            /\ adapterCall'[d].at = "idle" <=> adapterCall[d].at = "idle"
                            /\ adapterCall'[d].at = "rotate" <=> adapterCall[d].at = "rotate"
  BY <1>1, <1>2, <1>4 DEF Owns
<1>6. Sm9TypeOK' /\ LockHeld'
  BY <1>4, <1>5 DEF Sm9Inv, Sm9TypeOK, LockHeld
<1>7. CallsNamed'
  BY <1>5 DEF Sm9Inv, CallsNamed
<1>8. /\ VersionsApart' /\ (\A t, y : OfLine(t, y)' = OfLine(t, y))
      /\ \A t, y : current_version(t, y)' = current_version(t, y)
  BY RegistryKept
<1>9. OwnNewest'
  BY <1>5, <1>8 DEF Sm9Inv, OwnNewest
<1>10. NewestHeld'
  <2> SUFFICES ASSUME NEW t \in Sm9Tenants, NEW y \in Types PROVE HeldLine(t, y)'
    BY DEF NewestHeld
  <2>1. HeldLine(t, y)
    BY DEF Sm9Inv, NewestHeld
  <2>2. CASE \E d \in Sm9Callers :
               Owns(d) /\ adapterCall[d].entry.tenant = t /\ adapterCall[d].entry.type = y
    BY <1>5, <2>2 DEF HeldLine
  <2>3. CASE \/ <<t, y>> \in unregistered \/ current_version(t, y) = 0
             \/ \E k \in OfLine(t, y) : registry[k].version = current_version(t, y)
    BY <1>8, <2>3 DEF HeldLine
  <2> QED
    BY <2>1, <2>2, <2>3 DEF HeldLine
<1>11. GraceBounded'
  BY DEF Sm9Inv, GraceBounded, current_version, Line
<1> QED
  BY <1>6, <1>7, <1>8, <1>9, <1>10, <1>11 DEF Sm9Inv

\* A call that gives up its version leaves the line without its newest key.
LEMMA CallEndsPreserves ==
    ASSUME Sm9Inv, NEW c \in Sm9Callers,
           adapterCall' = [adapterCall EXCEPT ![c] = NoAdapterCall], Unlock(c),
           unregistered \subseteq unregistered',
           Owns(c) => <<adapterCall[c].entry.tenant, adapterCall[c].entry.type>> \in unregistered',
           UNCHANGED <<manager, registry, sm9Time>>
    PROVE  Sm9Inv'
<1>1. /\ adapterCall' \in [Sm9Callers -> AdapterCall] /\ adapterCall'[c] = NoAdapterCall
      /\ \A d \in Sm9Callers : d # c => adapterCall'[d] = adapterCall[d]
  BY Sm9Constants DEF Sm9Inv, Sm9TypeOK
<1>2. adapterCall'[c].at = "idle"
  BY <1>1, Sm9Constants
<1>3. \A d \in Sm9Callers : Owns(d)' => d # c /\ Owns(d) /\ adapterCall'[d] = adapterCall[d]
  BY <1>1, <1>2 DEF Owns
<1>4. Sm9TypeOK'
  BY <1>1 DEF Sm9Inv, Sm9TypeOK
<1>5. LockHeld'
  BY <1>3 DEF Sm9Inv, LockHeld, Unlock
<1>6. CallsNamed'
  <2> SUFFICES ASSUME NEW d \in Sm9Callers
               PROVE  /\ adapterCall'[d].at # "idle" =>
                            adapterCall'[d].key \in Sm9Keys /\ adapterCall'[d].entry \in Sm9Entry
                      /\ adapterCall'[d].at = "rotate" =>
                            /\ registry[adapterCall'[d].key] \in Sm9Entry
                            /\ InLine(registry[adapterCall'[d].key], adapterCall'[d].entry)
                      /\ Owns(d)' =>
                            \/ registry[adapterCall'[d].key] = NoKeyEntry
                            \/ /\ registry[adapterCall'[d].key] \in Sm9Entry
                               /\ InLine(registry[adapterCall'[d].key], adapterCall'[d].entry)
    BY DEF CallsNamed
  <2>1. CASE d = c
    BY <1>2, <1>3, <2>1
  <2>2. CASE d # c
    BY <1>1, <1>3, <2>2 DEF Sm9Inv, CallsNamed
  <2> QED
    BY <2>1, <2>2
<1>7. /\ VersionsApart' /\ (\A t, y : OfLine(t, y)' = OfLine(t, y))
      /\ \A t, y : current_version(t, y)' = current_version(t, y)
  BY RegistryKept
<1>8. OwnNewest'
  BY <1>3, <1>7 DEF Sm9Inv, OwnNewest
<1>9. NewestHeld'
  <2> SUFFICES ASSUME NEW t \in Sm9Tenants, NEW y \in Types PROVE HeldLine(t, y)'
    BY DEF NewestHeld
  <2>1. HeldLine(t, y)
    BY DEF Sm9Inv, NewestHeld
  <2>2. ASSUME NEW d \in Sm9Callers, Owns(d), adapterCall[d].entry.tenant = t,
               adapterCall[d].entry.type = y
        PROVE  HeldLine(t, y)'
    <3>1. CASE d = c
      BY <2>2, <3>1 DEF HeldLine
    <3>2. CASE d # c
      <4>1. Owns(d)' /\ adapterCall'[d] = adapterCall[d]
        BY <1>1, <2>2, <3>2 DEF Owns
      <4> QED
        BY <2>2, <4>1 DEF HeldLine
    <3> QED
      BY <3>1, <3>2
  <2>3. CASE \/ <<t, y>> \in unregistered \/ current_version(t, y) = 0
             \/ \E k \in OfLine(t, y) : registry[k].version = current_version(t, y)
    BY <1>7, <2>3 DEF HeldLine
  <2> QED
    BY <2>1, <2>2, <2>3 DEF HeldLine
<1>10. GraceBounded'
  BY DEF Sm9Inv, GraceBounded, current_version, Line
<1> QED
  BY <1>4, <1>5, <1>6, <1>7, <1>8, <1>9, <1>10 DEF Sm9Inv

\* The call writes the registry: the newest version of the line has its key.
LEMMA RegistryUpdatePreserves ==
    ASSUME Sm9Inv, NEW c \in Sm9Callers, update_registry_version(c)
    PROVE  Sm9Inv'
<1>1. PICK b \in AdapterCall : b = adapterCall[c]
  BY DEF Sm9Inv, Sm9TypeOK
<1>2. /\ b.at = "update" /\ Unlock(c) /\ registry' = [registry EXCEPT ![b.key] = b.entry]
      /\ adapterCall' = [adapterCall EXCEPT ![c] = NoAdapterCall]
      /\ UNCHANGED <<manager, sm9Time, unregistered>>
  BY <1>1 DEF update_registry_version
<1>3. Owns(c) /\ b.at # "idle"
  BY <1>1, <1>2 DEF Owns
<1>4. PICK k \in Sm9Keys, e \in Sm9Entry : k = b.key /\ e = b.entry
  BY <1>1, <1>3 DEF Sm9Inv, CallsNamed
<1>5. PICK t \in Sm9Tenants, y \in Types, n \in Nat : t = e.tenant /\ y = e.type /\ n = e.version
  BY DEF Sm9Entry
<1>6. registry[k] = NoKeyEntry \/ (registry[k] \in Sm9Entry /\ InLine(registry[k], e))
  BY <1>1, <1>3, <1>4 DEF Sm9Inv, CallsNamed
<1>7. /\ n = current_version(t, y) /\ n > 0
      /\ \A o \in OfLine(t, y) : registry[o].version < n
  BY <1>1, <1>3, <1>4, <1>5 DEF Sm9Inv, OwnNewest
<1>8. /\ registry' \in [Sm9Keys -> Sm9Entry \cup {NoKeyEntry}] /\ registry'[k] = e
      /\ \A o \in Sm9Keys : o # k => registry'[o] = registry[o]
  BY <1>2, <1>4 DEF Sm9Inv, Sm9TypeOK
<1>9. /\ adapterCall' \in [Sm9Callers -> AdapterCall] /\ adapterCall'[c] = NoAdapterCall
      /\ \A d \in Sm9Callers : d # c => adapterCall'[d] = adapterCall[d]
  BY <1>2, Sm9Constants DEF Sm9Inv, Sm9TypeOK
<1>10. adapterCall'[c].at = "idle"
  BY <1>9, Sm9Constants
<1>11. \A d \in Sm9Callers : ~Owns(d)'
  <2> SUFFICES ASSUME NEW d \in Sm9Callers, Owns(d)' PROVE FALSE
    OBVIOUS
  <2>1. d # c
    BY <1>10 DEF Owns
  <2>2. Owns(d)
    BY <1>9, <2>1 DEF Owns
  <2> QED
    BY <1>3, <2>1, <2>2 DEF Sm9Inv, LockHeld
<1>12. \A a1 \in Sm9Tenants, b1 \in Types : current_version(a1, b1)' = current_version(a1, b1)
  BY <1>2 DEF current_version, Line
<1>13. /\ k \in OfLine(t, y)'
       /\ \A a1 \in Sm9Tenants, b1 \in Types : \A o \in OfLine(a1, b1)' :
             \/ o = k /\ a1 = t /\ b1 = y
             \/ o # k /\ o \in OfLine(a1, b1) /\ registry'[o] = registry[o]
  BY <1>5, <1>8 DEF OfLine
<1>14. \A a1 \in Sm9Tenants, b1 \in Types : a1 # t \/ b1 # y => k \notin OfLine(a1, b1)
  BY <1>5, <1>6, Sm9Constants DEF OfLine, InLine
<1>15. Sm9TypeOK'
  BY <1>2, <1>8, <1>9 DEF Sm9Inv, Sm9TypeOK
<1>16. LockHeld' /\ OwnNewest'
  BY <1>11 DEF LockHeld, OwnNewest
<1>17. CallsNamed'
  <2> SUFFICES ASSUME NEW d \in Sm9Callers
               PROVE  /\ adapterCall'[d].at # "idle" =>
                            adapterCall'[d].key \in Sm9Keys /\ adapterCall'[d].entry \in Sm9Entry
                      /\ adapterCall'[d].at = "rotate" =>
                            /\ registry'[adapterCall'[d].key] \in Sm9Entry
                            /\ InLine(registry'[adapterCall'[d].key], adapterCall'[d].entry)
    BY <1>11 DEF CallsNamed
  <2>1. CASE d = c
    BY <1>10, <2>1
  <2>2. CASE d # c
    <3>1. adapterCall'[d] = adapterCall[d]
      BY <1>9, <2>2
    <3>2. adapterCall[d].at # "idle" =>
             adapterCall[d].key \in Sm9Keys /\ adapterCall[d].entry \in Sm9Entry
      BY DEF Sm9Inv, CallsNamed
    <3>3. ASSUME adapterCall[d].at = "rotate"
          PROVE  /\ registry'[adapterCall[d].key] \in Sm9Entry
                 /\ InLine(registry'[adapterCall[d].key], adapterCall[d].entry)
      <4>1. /\ adapterCall[d].key \in Sm9Keys /\ registry[adapterCall[d].key] \in Sm9Entry
            /\ InLine(registry[adapterCall[d].key], adapterCall[d].entry)
        BY <3>2, <3>3 DEF Sm9Inv, CallsNamed
      <4>2. CASE adapterCall[d].key = k
        BY <1>6, <1>8, <4>1, <4>2, Sm9Constants DEF InLine
      <4>3. CASE adapterCall[d].key # k
        BY <1>8, <4>1, <4>3
      <4> QED
        BY <4>2, <4>3
    <3> QED
      BY <3>1, <3>2, <3>3
  <2> QED
    BY <2>1, <2>2
<1>18. VersionsApart'
  <2> SUFFICES ASSUME NEW a1 \in Sm9Tenants, NEW b1 \in Types, NEW o \in OfLine(a1, b1)'
               PROVE  /\ registry'[o].version \in 1 .. current_version(a1, b1)
                      /\ \A p \in OfLine(a1, b1)' \ {o} : registry'[p].version # registry'[o].version
    BY <1>12 DEF VersionsApart
  <2>1. ASSUME NEW p \in OfLine(t, y)', p # k PROVE registry'[p].version < n
    BY <1>7, <1>13, <2>1
  <2>2. CASE o = k
    <3>1. a1 = t /\ b1 = y /\ registry'[o].version = n
      BY <1>5, <1>8, <1>13, <2>2
    <3>2. ASSUME NEW p \in OfLine(t, y)', p # k PROVE registry'[p].version # n
      <4>1. registry'[p].version \in 1 .. n
        BY <1>7, <1>13, <3>2 DEF Sm9Inv, VersionsApart
      <4> QED
        BY <2>1, <3>2, <4>1
    <3> QED
      BY <1>7, <2>2, <3>1, <3>2
  <2>3. CASE o # k
    <3>1. o \in OfLine(a1, b1) /\ registry'[o] = registry[o]
      BY <1>13, <2>3
    <3>2. /\ registry[o].version \in 1 .. current_version(a1, b1)
          /\ \A p \in OfLine(a1, b1) \ {o} : registry[p].version # registry[o].version
      BY <3>1 DEF Sm9Inv, VersionsApart
    <3>3. ASSUME NEW p \in OfLine(a1, b1)', p # o PROVE registry'[p].version # registry[o].version
      <4>1. CASE p = k
        <5>1. a1 = t /\ b1 = y /\ registry'[p].version = n
          BY <1>5, <1>8, <1>13, <4>1
        <5>2. registry[o].version < n /\ registry[o].version \in 1 .. n
          BY <1>7, <3>1, <3>2, <5>1
        <5> QED
          BY <5>1, <5>2
      <4>2. CASE p # k
        BY <1>13, <3>2, <3>3, <4>2
      <4> QED
        BY <4>1, <4>2
    <3> QED
      BY <3>1, <3>2, <3>3
  <2> QED
    BY <2>2, <2>3
<1>19. NewestHeld'
  <2> SUFFICES ASSUME NEW a1 \in Sm9Tenants, NEW b1 \in Types PROVE HeldLine(a1, b1)'
    BY DEF NewestHeld
  <2>0. HeldLine(a1, b1) /\ current_version(a1, b1)' = current_version(a1, b1)
    BY <1>12 DEF Sm9Inv, NewestHeld
  <2>1. CASE a1 = t /\ b1 = y
    <3>1. registry'[k].version = current_version(a1, b1)'
      BY <1>5, <1>7, <1>8, <2>0, <2>1
    <3> QED
      BY <1>13, <2>1, <3>1 DEF HeldLine
  <2>2. CASE a1 # t \/ b1 # y
    <3>1. ~ \E d \in Sm9Callers : /\ Owns(d) /\ adapterCall[d].entry.tenant = a1
                                  /\ adapterCall[d].entry.type = b1
      <4> SUFFICES ASSUME NEW d \in Sm9Callers, Owns(d), adapterCall[d].entry.tenant = a1,
                          adapterCall[d].entry.type = b1
                   PROVE  FALSE
        OBVIOUS
      <4>1. d = c
        BY <1>3 DEF Sm9Inv, LockHeld
      <4> QED
        BY <1>1, <1>4, <1>5, <2>2, <4>1
    <3>2. ASSUME NEW o \in OfLine(a1, b1), registry[o].version = current_version(a1, b1)
          PROVE  HeldLine(a1, b1)'
      <4>1. o # k
        BY <1>14, <2>2
      <4>2. o \in OfLine(a1, b1)' /\ registry'[o] = registry[o]
        BY <1>8, <4>1 DEF OfLine
      <4> QED
        BY <2>0, <3>2, <4>2 DEF HeldLine
    <3>3. CASE <<a1, b1>> \in unregistered \/ current_version(a1, b1) = 0
      BY <1>2, <2>0, <3>3 DEF HeldLine
    <3> QED
      BY <2>0, <3>1, <3>2, <3>3 DEF HeldLine
  <2> QED
    BY <2>1, <2>2
<1>20. GraceBounded'
  BY <1>2 DEF Sm9Inv, GraceBounded, current_version, Line
<1> QED
  BY <1>15, <1>16, <1>17, <1>18, <1>19, <1>20 DEF Sm9Inv

\* Every step keeps the invariant.
LEMMA Sm9StepPreserves == Sm9Inv /\ [Sm9Next]_sm9Vars => Sm9Inv'
<1> SUFFICES ASSUME Sm9Inv, [Sm9Next]_sm9Vars PROVE Sm9Inv'
  OBVIOUS
<1>0. "sign" \in Types /\ "enc" \in Types
  BY DEF Types
<1>1. ASSUME NEW c \in Sm9Callers, NEW k \in Sm9Keys, NEW t \in Sm9Tenants, NEW y \in Types,
             register(c, k, t, y)
      PROVE  Sm9Inv'
  BY <1>1, LockedPreserves DEF register
<1>2. ASSUME NEW c \in Sm9Callers, NEW k \in Sm9Keys, NEW y \in Types, get_entry(c, k, y)
      PROVE  Sm9Inv'
  BY <1>2, GetEntryPreserves
<1>3. ASSUME NEW c \in Sm9Callers, NEW y \in Types, rotate(c, y) PROVE Sm9Inv'
  <2>1. adapterCall[c].at = "rotate" /\ adapterCall[c].at # "idle"
    BY <1>3 DEF rotate
  <2>2. PICK k \in Sm9Keys, e \in Sm9Entry : k = adapterCall[c].key /\ e = adapterCall[c].entry
    BY <2>1 DEF Sm9Inv, CallsNamed
  <2>3. PICK t \in Sm9Tenants : t = e.tenant
    BY DEF Sm9Entry
  <2>4. /\ e.type = y /\ Advance(t, y) /\ Locked(c, k, t, y)
        /\ UNCHANGED <<registry, sm9Time, unregistered>>
    BY <1>3, <2>2, <2>3 DEF rotate
  <2>5. registry[k] \in Sm9Entry /\ registry[k].tenant = t /\ registry[k].type = y
    BY <2>1, <2>2, <2>3, <2>4 DEF Sm9Inv, CallsNamed, InLine
  <2> QED
    BY <2>4, <2>5, LockedPreserves
<1>4. ASSUME NEW c \in Sm9Callers, encrypt_key(c) PROVE Sm9Inv'
  <2>0. adapterCall[c].at = "encrypt" /\ UNCHANGED <<manager, registry, sm9Time>>
    BY <1>4 DEF encrypt_key
  <2>1. CASE /\ adapterCall' = [adapterCall EXCEPT ![c].at = "update"]
             /\ UNCHANGED <<managersLock, unregistered>>
    BY <2>0, <2>1, EncryptedPreserves
  <2>2. CASE /\ adapterCall' = [adapterCall EXCEPT ![c] = NoAdapterCall]
             /\ unregistered' = unregistered \cup {<<adapterCall[c].entry.tenant, adapterCall[c].entry.type>>}
             /\ Unlock(c)
    BY <2>0, <2>2, CallEndsPreserves
  <2> QED
    BY <1>4, <2>1, <2>2 DEF encrypt_key
<1>5. ASSUME NEW c \in Sm9Callers, update_registry_version(c) PROVE Sm9Inv'
  BY <1>5, RegistryUpdatePreserves
<1>6. ASSUME NEW c \in Sm9Callers, drop_adapter_call(c) PROVE Sm9Inv'
  <2>1. /\ adapterCall' = [adapterCall EXCEPT ![c] = NoAdapterCall] /\ Unlock(c)
        /\ UNCHANGED <<manager, registry, sm9Time>>
        /\ unregistered' = IF adapterCall[c].at = "rotate" THEN unregistered
                           ELSE unregistered \cup {<<adapterCall[c].entry.tenant, adapterCall[c].entry.type>>}
    BY <1>6 DEF drop_adapter_call
  <2>2. unregistered \subseteq unregistered'
    BY <2>1
  <2>3. Owns(c) => <<adapterCall[c].entry.tenant, adapterCall[c].entry.type>> \in unregistered'
    BY <2>1 DEF Owns
  <2> QED
    BY <2>1, <2>2, <2>3, CallEndsPreserves
<1>7. CASE Sm9Tick
  <2>1. sm9Time' = sm9Time + 1 /\ UNCHANGED <<manager, registry, managersLock, adapterCall, unregistered>>
    BY <1>7 DEF Sm9Tick
  <2>2. sm9Time \in Nat /\ manager \in [Sm9Tenants -> [Types -> Sm9Line]]
    BY DEF Sm9Inv, Sm9TypeOK
  <2>3. GraceBounded'
    <3> SUFFICES ASSUME NEW t \in Sm9Tenants, NEW y \in Types
                 PROVE  /\ manager[t][y].current <= LastSm9Version
                        /\ \A v \in Sm9Version : v < manager[t][y].current =>
                              manager[t][y].until[v] <= sm9Time + 1 + GracePeriod
      BY <2>1 DEF GraceBounded, current_version, Line
    <3>1. /\ manager[t][y].current <= LastSm9Version
          /\ \A v \in Sm9Version : v < manager[t][y].current =>
                manager[t][y].until[v] <= sm9Time + GracePeriod
      BY DEF Sm9Inv, GraceBounded, current_version, Line
    <3>2. \A v \in Sm9Version : manager[t][y].until[v] \in Nat
      BY <2>2 DEF Sm9Line
    <3> QED
      BY <2>2, <3>1, <3>2, Sm9Constants
  <2>4. Sm9TypeOK'
    BY <2>1, <2>2 DEF Sm9Inv, Sm9TypeOK
  <2> QED
    BY <2>1, <2>3, <2>4 DEF Sm9Inv, LockHeld, Owns, CallsNamed, OwnNewest, VersionsApart,
         NewestHeld, HeldLine, OfLine, current_version, Line
<1>8. CASE UNCHANGED sm9Vars
  BY <1>8 DEF sm9Vars, Sm9Inv, Sm9TypeOK, LockHeld, Owns, CallsNamed, OwnNewest, VersionsApart,
       NewestHeld, HeldLine, GraceBounded, OfLine, current_version, Line
<1> QED
  BY <1>0, <1>1, <1>2, <1>3, <1>4, <1>5, <1>6, <1>7, <1>8
     DEF Sm9Next, register_sign_key, register_enc_key, rotate_sign_key, rotate_enc_key

\* What the invariant says of the registry when nobody owns a version.
LEMMA Sm9InvSound == Sm9Inv => Sm9RegistrySound
<1> SUFFICES ASSUME Sm9Inv PROVE NewestRegistered /\ GraceEnds
  BY DEF Sm9Inv, Sm9RegistrySound
<1>0. manager \in [Sm9Tenants -> [Types -> Sm9Line]] /\ sm9Time \in Nat
  BY DEF Sm9Inv, Sm9TypeOK
<1>1. NewestRegistered
  <2> SUFFICES ASSUME NEW t \in Sm9Tenants, NEW y \in Types, <<t, y>> \notin unregistered,
                      \A c \in Sm9Callers : adapterCall[c].at \in {"idle", "rotate"}
               PROVE  current_version(t, y) = Max({0} \cup {registry[k].version : k \in OfLine(t, y)})
    BY DEF NewestRegistered
  <2>1. \A c \in Sm9Callers : ~Owns(c)
    BY DEF Owns
  <2>2. PICK n \in Nat : n = current_version(t, y)
    BY <1>0 DEF current_version, Line, Sm9Line
  <2>3. PICK S : S = {0} \cup {registry[k].version : k \in OfLine(t, y)}
    OBVIOUS
  <2>4. \A x \in S : x \in Nat /\ x <= n
    <3>1. \A k \in OfLine(t, y) : registry[k].version \in 1 .. n
      BY <2>2 DEF Sm9Inv, VersionsApart
    <3>2. ASSUME NEW x \in S PROVE x = 0 \/ \E k \in OfLine(t, y) : x = registry[k].version
      BY <2>3
    <3>3. ASSUME NEW x \in S PROVE x \in 0 .. n
      BY <3>1, <3>2
    <3> QED
      BY <3>3
  <2>5. n \in S
    BY <2>1, <2>2, <2>3 DEF Sm9Inv, NewestHeld, HeldLine
  <2>6. \A x \in S : (\A z \in S : x >= z) => x = n
    BY <2>4, <2>5
  <2>7. \A z \in S : n >= z
    BY <2>4
  <2>8. Max(S) = n
    BY <2>5, <2>6, <2>7 DEF Max
  <2> QED
    BY <2>2, <2>3, <2>8
<1>2. GraceEnds
  <2> SUFFICES ASSUME NEW t \in Sm9Tenants, NEW y \in Types
               PROVE  /\ current_version(t, y) > 0 => current_version(t, y) \in valid_versions(t, y)
                      /\ \A v \in valid_versions(t, y) \ {current_version(t, y)} :
                            Line(t, y).until[v] <= sm9Time + GracePeriod
    BY DEF GraceEnds
  <2>1. PICK n \in Nat : n = current_version(t, y) /\ n <= LastSm9Version
    BY <1>0 DEF current_version, Line, Sm9Line, Sm9Inv, GraceBounded
  <2>2. n > 0 => n \in valid_versions(t, y)
    BY <2>1 DEF valid_versions, is_key_valid
  <2>3. \A v \in valid_versions(t, y) \ {n} : v \in Sm9Version /\ v < n
    BY <2>1, Sm9Constants DEF valid_versions, Sm9Version
  <2> QED
    BY <2>1, <2>2, <2>3 DEF Sm9Inv, GraceBounded
<1> QED
  BY <1>1, <1>2

\* A sequence with an element put before it, cut to its first n.
LEMMA PrependedPrefix ==
    ASSUME NEW S, NEW s \in Seq(S), NEW v \in S, NEW n \in 0 .. Len(s) + 1
    PROVE  /\ SubSeq(<<v>> \o s, 1, n) \in Seq(S) /\ Len(SubSeq(<<v>> \o s, 1, n)) = n
           /\ \A i \in 1 .. n : SubSeq(<<v>> \o s, 1, n)[i] = IF i = 1 THEN v ELSE s[i - 1]
<1>1. PICK l \in Nat : l = Len(s) /\ n \in Nat /\ n <= l + 1
  OBVIOUS
<1>2. PICK u \in Seq(S) : u = <<v>> \o s /\ Len(u) = l + 1
  <2>1. <<v>> \in Seq(S) /\ Len(<<v>>) = 1
    OBVIOUS
  <2>2. <<v>> \o s \in Seq(S) /\ Len(<<v>> \o s) = l + 1
    BY <1>1, <2>1
  <2> QED
    BY <2>2
<1>3. \A i \in 1 .. l + 1 : u[i] = IF i = 1 THEN v ELSE s[i - 1]
  BY <1>1, <1>2
<1>4. SubSeq(u, 1, n) \in Seq(S) /\ Len(SubSeq(u, 1, n)) = n
  BY <1>1, <1>2
<1>5. \A i \in 1 .. n : SubSeq(u, 1, n)[i] = u[i]
  BY <1>1, <1>2
<1>6. \A i \in 1 .. n : i \in 1 .. l + 1
  BY <1>1
<1>7. PICK w \in Seq(S) : w = SubSeq(u, 1, n)
  BY <1>4
<1>8. Len(w) = n /\ \A i \in 1 .. n : w[i] = IF i = 1 THEN v ELSE s[i - 1]
  BY <1>3, <1>4, <1>5, <1>6, <1>7
<1> QED
  BY <1>2, <1>7, <1>8

\* The version in use has a number, if there is one.
LEMMA GetActiveTyped ==
    ASSUME SecretInv
    PROVE  get_active \in Nat /\ (get_active # None => secrets # <<>>)
<1>1. secrets \in Seq(SecretVersion)
  BY DEF SecretInv, SecretTypeOK
<1>2. PICK live : live = Indices(Live)
  OBVIOUS
<1>3. live \subseteq DOMAIN secrets
  BY <1>2 DEF Indices
<1>4. get_active = IF live = {} THEN None ELSE secrets[CHOOSE i \in live : \A j \in live : i <= j].version
  BY <1>2 DEF get_active
<1>5. ASSUME live # {}
      PROVE  /\ (CHOOSE i \in live : \A j \in live : i <= j) \in DOMAIN secrets
             /\ secrets # <<>>
  <2>1. live \in SUBSET Nat
    BY <1>1, <1>3
  <2>2. \E i \in live : \A j \in live : i <= j
    BY <1>5, <2>1, LeastNatural
  <2> QED
    BY <1>1, <1>3, <1>5, <2>2
<1>6. \A i \in DOMAIN secrets : secrets[i].version \in Nat
  <2>1. \A i \in DOMAIN secrets : secrets[i] \in SecretVersion
    BY <1>1
  <2> QED
    BY <2>1 DEF SecretVersion
<1> QED
  BY <1>4, <1>5, <1>6 DEF None

\* The versions out of use are the same versions.
LEMMA DeactivatedParts ==
    ASSUME NEW s \in Seq(SecretVersion)
    PROVE  \E d \in Seq(SecretVersion) :
             /\ d = Deactivated(s) /\ Len(d) = Len(s) /\ DOMAIN d = DOMAIN s
             /\ \A i \in DOMAIN s : d[i].version = s[i].version /\ d[i].active = FALSE
<1>1. PICK n \in Nat : n = Len(s) /\ DOMAIN s = 1 .. n
  OBVIOUS
<1>2. \A i \in 1 .. n : s[i] \in SecretVersion
  BY <1>1
<1>3. \A i \in 1 .. n : /\ [s[i] EXCEPT !.active = FALSE] \in SecretVersion
                        /\ [s[i] EXCEPT !.active = FALSE].version = s[i].version
                        /\ [s[i] EXCEPT !.active = FALSE].active = FALSE
  BY <1>2 DEF SecretVersion
<1>4. PICK d : d = [i \in 1 .. n |-> [s[i] EXCEPT !.active = FALSE]]
  OBVIOUS
<1>5. d \in [1 .. n -> SecretVersion]
  BY <1>3, <1>4
<1>6. d \in Seq(SecretVersion) /\ Len(d) = n /\ DOMAIN d = 1 .. n
  BY <1>1, <1>5
<1>7. d = Deactivated(s)
  BY <1>1, <1>4 DEF Deactivated
<1>8. \A i \in 1 .. n : d[i].version = s[i].version /\ d[i].active = FALSE
  BY <1>3, <1>4
<1> QED
  BY <1>1, <1>6, <1>7, <1>8

\* At first there is no secret.
LEMMA SecretInitEstablishes == SecretInit => SecretInv
<1> SUFFICES ASSUME SecretInit PROVE SecretInv
  OBVIOUS
<1>1. <<>> \in Seq(SecretVersion) /\ DOMAIN secrets = {} /\ secrets = <<>>
  BY DEF SecretInit
<1>2. NoRotation \in [old : Nat, new : Nat, failed : BOOLEAN]
  BY DEF NoRotation, None
<1>3. SecretTypeOK
  BY <1>1, <1>2 DEF SecretInit, SecretTypeOK
<1>4. OneInUse
  BY <1>1 DEF OneInUse
<1> QED
  BY <1>1, <1>3, <1>4 DEF SecretInit, SecretInv, KeptSize, CountDown

\* One version is in use when one index is active and has the number named.
LEMMA OneInUseFrom ==
    ASSUME NEW i \in DOMAIN secrets', secrets'[i].active = TRUE,
           \A j \in DOMAIN secrets' : j # i => secrets'[j].active = FALSE,
           secrets'[i].version = IF lastRotation'.new = None THEN 1 ELSE lastRotation'.new
    PROVE  OneInUse'
<1>1. \A j \in DOMAIN secrets' : secrets'[j].active <=> j = i
  <2> SUFFICES ASSUME NEW j \in DOMAIN secrets' PROVE secrets'[j].active <=> j = i
    OBVIOUS
  <2>1. CASE j = i
    BY <2>1
  <2>2. CASE j # i
    <3>1. secrets'[j].active = FALSE
      BY <2>2
    <3> QED
      BY <2>2, <3>1
  <2> QED
    BY <2>1, <2>2
<1>2. {j \in DOMAIN secrets' : secrets'[j].active} = {i}
  BY <1>1
<1>3. Indices(InUse)' = {i}
  BY <1>2 DEF Indices, InUse
<1> QED
  BY <1>3 DEF OneInUse, None

\* A registration begins with one version, in use.
LEMMA RegisterSecretPreserves ==
    ASSUME SecretInv, register_secret PROVE SecretInv'
<1>1. secretTime \in Nat
  BY DEF SecretInv, SecretTypeOK
<1>2. PICK c \in SecretConfigs : config' = c /\ secrets' = <<Version(1, c)>>
  BY DEF register_secret
<1>3. c.ttl \in Nat /\ c.keep \in Nat
  BY SecretAssumption
<1>4. PICK v \in SecretVersion : v = Version(1, c) /\ v.version = 1 /\ v.active = TRUE
  <2>1. Version(1, c) \in SecretVersion
    BY <1>1, <1>3 DEF Version, SecretVersion
  <2> QED
    BY <2>1 DEF Version
<1>5. /\ secrets' \in Seq(SecretVersion) /\ Len(secrets') = 1
      /\ DOMAIN secrets' = {1} /\ secrets'[1] = v
  BY <1>2, <1>4
<1>6. /\ drawn' = 1 /\ lastRotation' = NoRotation /\ numbersReset' = FALSE
      /\ UNCHANGED secretTime
  BY DEF register_secret
<1>7. NoRotation \in [old : Nat, new : Nat, failed : BOOLEAN] /\ NoRotation.new = None
  BY DEF NoRotation, None
<1>8. SecretTypeOK'
  BY <1>1, <1>2, <1>5, <1>6, <1>7 DEF SecretTypeOK
<1>9. OneInUse'
  BY <1>4, <1>5, <1>6, <1>7, OneInUseFrom
<1>10. KeptSize'
  <2>1. 1 <= (IF c.keep = 0 THEN 1 ELSE c.keep)
    BY <1>3
  <2> QED
    BY <1>2, <1>5, <2>1 DEF KeptSize
<1>11. CountDown'
  BY <1>4, <1>5, <1>6 DEF CountDown
<1> QED
  BY <1>8, <1>9, <1>10, <1>11 DEF SecretInv

\* A rotation puts a version before the others, which are out of use, or none.
LEMMA RotateSecretPreserves ==
    ASSUME SecretInv, rotate_secret PROVE SecretInv'
<1>1. /\ secretTime \in Nat /\ drawn \in Nat /\ numbersReset \in BOOLEAN
      /\ secrets \in Seq(SecretVersion)
      /\ lastRotation \in [old : Nat, new : Nat, failed : BOOLEAN]
  BY DEF SecretInv, SecretTypeOK
<1>2. config \in SecretConfigs /\ config # NoConfig /\ UNCHANGED <<config, secretTime>>
  BY DEF SecretInv, SecretTypeOK, rotate_secret
<1>3. config.ttl \in Nat /\ config.keep \in Nat
  BY <1>2, SecretAssumption
<1>4. PICK g \in Nat : g = get_active /\ (g # None => secrets # <<>>)
  BY GetActiveTyped
<1>5. PICK d \in Seq(SecretVersion) :
         /\ d = Deactivated(secrets) /\ Len(d) = Len(secrets) /\ DOMAIN d = DOMAIN secrets
         /\ \A i \in DOMAIN secrets : d[i].version = secrets[i].version /\ d[i].active = FALSE
  BY <1>1, DeactivatedParts
<1>6. /\ numbersReset' \in BOOLEAN
      /\ numbersReset' = FALSE => numbersReset = FALSE /\ g = drawn /\ g # None
  <2>1. numbersReset' = (numbersReset \/ g = None \/ g # drawn)
    BY <1>4 DEF rotate_secret
  <2> QED
    BY <1>1, <2>1, Zenon
<1>7. CASE /\ secrets' = AddVersion(Deactivated(secrets), Version(get_active + 1, config))
           /\ lastRotation' = [old |-> get_active, new |-> get_active + 1, failed |-> FALSE]
           /\ drawn' = drawn + 1
  <2>1. PICK v \in SecretVersion : /\ v = Version(g + 1, config)
                                   /\ v.version = g + 1 /\ v.active = TRUE
    <3>1. Version(g + 1, config) \in SecretVersion
      BY <1>1, <1>3 DEF Version, SecretVersion
    <3> QED
      BY <3>1 DEF Version
  <2>2. PICK l \in Nat : l = Len(d) /\ DOMAIN d = 1 .. l
    OBVIOUS
  <2>3. Len(<<v>> \o d) = l + 1
    BY <2>2
  <2>4. PICK n \in 0 .. l + 1 : n = (IF l + 1 < config.keep THEN l + 1 ELSE config.keep)
    BY <1>3
  <2>5. secrets' = SubSeq(<<v>> \o d, 1, n)
    BY <1>4, <1>5, <1>7, <2>1, <2>3, <2>4 DEF AddVersion, Trimmed
  <2>6. PICK w \in Seq(SecretVersion) :
          /\ w = SubSeq(<<v>> \o d, 1, n) /\ Len(w) = n
          /\ \A i \in 1 .. n : w[i] = IF i = 1 THEN v ELSE d[i - 1]
    <3>1. n \in 0 .. Len(d) + 1
      BY <2>2
    <3>2. /\ SubSeq(<<v>> \o d, 1, n) \in Seq(SecretVersion)
          /\ Len(SubSeq(<<v>> \o d, 1, n)) = n
          /\ \A i \in 1 .. n : SubSeq(<<v>> \o d, 1, n)[i] = IF i = 1 THEN v ELSE d[i - 1]
      BY <3>1, PrependedPrefix
    <3> QED
      BY <3>2
  <2>7. secrets' = w /\ DOMAIN secrets' = 1 .. n /\ Len(secrets') = n /\ n <= config.keep
    BY <1>3, <2>4, <2>5, <2>6
  <2>8. /\ lastRotation' \in [old : Nat, new : Nat, failed : BOOLEAN]
        /\ lastRotation'.new = g + 1 /\ lastRotation'.new # None
    BY <1>4, <1>7 DEF None
  <2>9. \A i \in 1 .. n : i # 1 => i - 1 \in 1 .. l
    BY <2>4
  <2>10. \A i \in 1 .. n : i # 1 => w[i].active = FALSE /\ w[i].version = secrets[i - 1].version
    <3> SUFFICES ASSUME NEW i \in 1 .. n, i # 1
                 PROVE  w[i].active = FALSE /\ w[i].version = secrets[i - 1].version
      OBVIOUS
    <3>1. i - 1 \in DOMAIN secrets /\ w[i] = d[i - 1]
      BY <1>5, <2>2, <2>6, <2>9
    <3> QED
      BY <1>5, <3>1
  <2>11. SecretTypeOK'
    <3>1. drawn' \in Nat /\ secrets' \in Seq(SecretVersion) /\ secretTime' \in Nat
      BY <1>1, <1>2, <1>7, <2>7
    <3> QED
      BY <1>2, <1>6, <2>8, <3>1 DEF SecretTypeOK
  <2>12. OneInUse'
    <3>1. CASE n = 0
      <4>1. secrets' = <<>>
        BY <2>6, <2>7, <3>1
      <4> QED
        BY <4>1 DEF OneInUse
    <3>2. CASE n # 0
      <4>1. 1 \in DOMAIN secrets' /\ secrets'[1] = v
        BY <2>4, <2>6, <2>7, <3>2
      <4>2. \A j \in DOMAIN secrets' : j # 1 => secrets'[j].active = FALSE
        BY <2>7, <2>10
      <4> QED
        BY <2>1, <2>8, <4>1, <4>2, OneInUseFrom
    <3> QED
      BY <3>1, <3>2
  <2>13. KeptSize'
    <3>1. n <= (IF config.keep = 0 THEN 1 ELSE config.keep)
      BY <1>3, <2>4, <2>7
    <3> QED
      BY <1>2, <2>7, <3>1 DEF KeptSize
  <2>14. CountDown'
    <3> SUFFICES ASSUME numbersReset' = FALSE, NEW i \in 1 .. n
                 PROVE  w[i].version + i = (drawn + 1) + 1
      BY <1>7, <2>7 DEF CountDown
    <3>1. numbersReset = FALSE /\ g = drawn
      BY <1>6
    <3>2. CASE i = 1
      BY <1>1, <2>1, <2>6, <3>1, <3>2
    <3>3. CASE i # 1
      <4>1. PICK j \in 1 .. l : j = i - 1 /\ i = j + 1
        BY <2>9, <3>3
      <4>2. j \in DOMAIN secrets /\ secrets[j].version + j = drawn + 1
        BY <1>5, <2>2, <3>1 DEF SecretInv, CountDown
      <4>3. secrets[j] \in SecretVersion
        BY <1>1, <4>2
      <4>4. PICK x \in Nat : x = secrets[j].version
        BY <4>3 DEF SecretVersion
      <4>5. w[i].version = x /\ x + j = drawn + 1
        BY <2>10, <3>3, <4>1, <4>2, <4>4
      <4>6. x + (j + 1) = (drawn + 1) + 1
        BY <1>1, <2>2, <4>5
      <4> QED
        BY <4>1, <4>5, <4>6
    <3> QED
      BY <3>2, <3>3
  <2> QED
    BY <2>11, <2>12, <2>13, <2>14 DEF SecretInv
<1>8. CASE /\ secrets' = Deactivated(secrets)
           /\ lastRotation' = [lastRotation EXCEPT !.failed = TRUE] /\ UNCHANGED drawn
  <2>1. secrets' = d
    BY <1>5, <1>8
  <2>2. /\ lastRotation' \in [old : Nat, new : Nat, failed : BOOLEAN]
        /\ lastRotation'.failed = TRUE
    BY <1>1, <1>8
  <2>3. SecretTypeOK'
    BY <1>1, <1>2, <1>6, <1>8, <2>1, <2>2 DEF SecretTypeOK
  <2>4. OneInUse'
    BY <2>2 DEF OneInUse
  <2>5. KeptSize' /\ CountDown'
    BY <1>2, <1>5, <1>6, <1>8, <2>1 DEF SecretInv, KeptSize, CountDown
  <2> QED
    BY <2>3, <2>4, <2>5 DEF SecretInv
<1> QED
  BY <1>7, <1>8 DEF rotate_secret

\* A rollback puts one of the versions in use and the others out of it.
LEMMA RollbackPreserves ==
    ASSUME SecretInv, NEW n \in 1 .. MaxSecretCalls, rollback(n) PROVE SecretInv'
<1>1. /\ secretTime \in Nat /\ drawn \in Nat /\ numbersReset \in BOOLEAN
      /\ secrets \in Seq(SecretVersion) /\ n \in Nat /\ n # 0
  BY SecretAssumption DEF SecretInv, SecretTypeOK
<1>2. PICK d \in Seq(SecretVersion) :
         /\ d = Deactivated(secrets) /\ Len(d) = Len(secrets) /\ DOMAIN d = DOMAIN secrets
         /\ \A i \in DOMAIN secrets : d[i].version = secrets[i].version /\ d[i].active = FALSE
  BY <1>1, DeactivatedParts
<1>3. PICK i \in DOMAIN secrets :
         secrets[i].version = n /\ secrets' = [d EXCEPT ![i].active = TRUE]
  BY <1>2 DEF rollback
<1>4. /\ lastRotation' = [old |-> None, new |-> n, failed |-> FALSE]
      /\ numbersReset' = (numbersReset \/ n # drawn)
      /\ UNCHANGED <<config, secretTime, drawn>>
  BY DEF rollback
<1>5. d[i] \in SecretVersion
  BY <1>2
<1>6. PICK v \in SecretVersion : v = [d[i] EXCEPT !.active = TRUE] /\ v.version = n /\ v.active = TRUE
  <2>1. /\ [d[i] EXCEPT !.active = TRUE] \in SecretVersion
        /\ [d[i] EXCEPT !.active = TRUE].version = d[i].version
        /\ [d[i] EXCEPT !.active = TRUE].active = TRUE
    BY <1>5 DEF SecretVersion
  <2> QED
    BY <1>2, <1>3, <2>1
<1>7. secrets' = [d EXCEPT ![i] = v]
  BY <1>3, <1>6
<1>8. /\ secrets' \in Seq(SecretVersion) /\ DOMAIN secrets' = DOMAIN secrets
      /\ Len(secrets') = Len(secrets) /\ secrets'[i] = v
      /\ \A j \in DOMAIN secrets : j # i => secrets'[j] = d[j]
  BY <1>2, <1>7
<1>9. \A j \in DOMAIN secrets : secrets'[j].version = secrets[j].version
  BY <1>2, <1>3, <1>6, <1>8
<1>10. numbersReset' \in BOOLEAN /\ (numbersReset' = FALSE => numbersReset = FALSE)
  BY <1>1, <1>4, Zenon
<1>11. lastRotation' \in [old : Nat, new : Nat, failed : BOOLEAN] /\ lastRotation'.new = n
  BY <1>1, <1>4 DEF None
<1>12. SecretTypeOK'
  BY <1>4, <1>8, <1>10, <1>11 DEF SecretInv, SecretTypeOK
<1>13. OneInUse'
  <2>1. \A j \in DOMAIN secrets' : j # i => secrets'[j].active = FALSE
    BY <1>2, <1>8
  <2> QED
    BY <1>1, <1>6, <1>8, <1>11, <2>1, OneInUseFrom DEF None
<1>14. KeptSize' /\ CountDown'
  BY <1>4, <1>8, <1>9, <1>10 DEF SecretInv, KeptSize, CountDown
<1> QED
  BY <1>12, <1>13, <1>14 DEF SecretInv

\* Every step keeps the invariant.
LEMMA SecretStepPreserves == SecretInv /\ [SecretNext]_secretVars => SecretInv'
<1> SUFFICES ASSUME SecretInv, [SecretNext]_secretVars PROVE SecretInv'
  OBVIOUS
<1>1. CASE register_secret
  BY <1>1, RegisterSecretPreserves
<1>2. CASE rotate_secret
  BY <1>2, RotateSecretPreserves
<1>3. CASE SecretTick
  <2>1. /\ secretTime' = secretTime + 1
        /\ UNCHANGED <<config, secrets, lastRotation, drawn, numbersReset>>
    BY <1>3 DEF SecretTick
  <2>2. SecretTypeOK'
    BY <2>1 DEF SecretInv, SecretTypeOK
  <2> QED
    BY <2>1, <2>2 DEF SecretInv, OneInUse, Indices, InUse, KeptSize, CountDown
<1>4. ASSUME NEW n \in 1 .. MaxSecretCalls, rollback(n) PROVE SecretInv'
  BY <1>4, RollbackPreserves
<1>5. CASE UNCHANGED secretVars
  BY <1>5 DEF secretVars, SecretInv, SecretTypeOK, OneInUse, Indices, InUse, KeptSize, CountDown
<1> QED
  BY <1>1, <1>2, <1>3, <1>4, <1>5 DEF SecretNext

\* Versions that count down are told apart by their numbers.
LEMMA SecretInvSound == SecretInv => SecretsSound
<1> SUFFICES ASSUME SecretInv, numbersReset = FALSE, NEW i \in DOMAIN secrets,
                    NEW j \in DOMAIN secrets, i < j
             PROVE  secrets[i].version = secrets[j].version + (j - i)
  BY DEF SecretInv, SecretTypeOK, KeptSize, SecretsSound, NumbersName
<1>1. secrets \in Seq(SecretVersion) /\ drawn \in Nat
  BY DEF SecretInv, SecretTypeOK
<1>2. i \in Nat /\ j \in Nat /\ secrets[i] \in SecretVersion /\ secrets[j] \in SecretVersion
  BY <1>1
<1>3. secrets[i].version \in Nat /\ secrets[j].version \in Nat
  BY <1>2 DEF SecretVersion
<1>4. secrets[i].version + i = drawn + 1 /\ secrets[j].version + j = drawn + 1
  BY DEF SecretInv, CountDown
<1>5. PICK a \in Nat, b \in Nat, d \in Nat :
         a = secrets[i].version /\ b = secrets[j].version /\ d = drawn
  BY <1>1, <1>3
<1>6. a + i = d + 1 /\ b + j = d + 1
  BY <1>4, <1>5
<1>7. a = b + (j - i)
  BY <1>2, <1>6
<1> QED
  BY <1>5, <1>7

\* The managers of versions, for any number of callers, tenants, keys, versions
\* and configurations: no two keys are at one version, the newest one has its
\* key or a call that gave it up, a grace period ends, and of a secret's versions
\* one is in use and the numbers tell them apart.
THEOREM VersionsStaySound == VersionsSpec => []VersionsSound
<1>1. VersionsInit => Sm9Inv /\ SecretInv
  BY Sm9InitEstablishes, SecretInitEstablishes DEF VersionsInit
<1>2. Sm9Inv /\ SecretInv /\ [VersionsNext]_versionVars => (Sm9Inv /\ SecretInv)'
  <2> SUFFICES ASSUME Sm9Inv, SecretInv, [VersionsNext]_versionVars
               PROVE  Sm9Inv' /\ SecretInv'
    OBVIOUS
  <2>1. [Sm9Next]_sm9Vars /\ [SecretNext]_secretVars
    BY DEF VersionsNext, versionVars
  <2> QED
    BY <2>1, Sm9StepPreserves, SecretStepPreserves
<1>3. Sm9Inv /\ SecretInv => VersionsSound
  BY Sm9InvSound, SecretInvSound DEF VersionsSound
<1> QED
  BY <1>1, <1>2, <1>3, PTL DEF VersionsSpec

-----------------------------------------------------------------------------
(* The second factor.  A wrong TOTP code is looked at, counted and, at the *)
(* limit, answered with the lock in three steps: the invariant counts the  *)
(* requests that are between them.                                         *)

MfaSteps == {"idle", "lock", "check", "clear", "count", "set_lock",
             "usage", "load", "save", "reset", "record"}
MfaRequest == [at : MfaSteps, right : BOOLEAN, code : BackupCodes \cup {"guess", "none"},
               list : SUBSET BackupCodes]

\* How many requests are at one of some steps.
CountAt(held, steps) == Cardinality({v \in Verifiers : held[v].at \in steps})
FailsAhead == CountAt(verifying, {"lock", "check", "count"})   \* may add a failed attempt
LooksAhead == CountAt(verifying, {"lock", "check"})            \* may look at a wrong code
UsesAhead == CountAt(verifying, {"usage", "load", "record"})     \* may add a use of a backup code
Pending == CountAt(verifying, {"count", "set_lock"})         \* looked at a wrong code not yet answered for
Checking == CountAt(verifying, {"check"})                    \* past the look at the lock

MfaShape ==
    /\ verifying \in [Verifiers -> MfaRequest]
    /\ accepted \in [BackupCodes -> Nat]
    /\ codes \in SUBSET BackupCodes
    /\ failed \in Nat /\ usage \in Nat /\ guesses \in Nat
    /\ mfaCalls \in 0..MaxMfaCalls /\ mfaFaults \in Nat /\ escaped \in Nat
NoListWithoutEnrolment == enrolled \/ codes = {}

\* What was counted, or may be, came with a request.
CallsAccount ==
    /\ failed + FailsAhead <= mfaCalls
    /\ guesses + LooksAhead <= mfaCalls
    /\ usage + UsesAhead <= mfaCalls

\* While the lock is off, a wrong code that was looked at counted as a failed
\* attempt, is about to, or was lost; while it is on, who may still look at one
\* had passed the lock before.
CountedFails == IF failed < MaxTotpAttempts THEN failed ELSE MaxTotpAttempts - 1
Lost == escaped + mfaFaults
GuessesOff == ~locked => guesses <= CountedFails + Pending + Lost
GuessesOn == locked => guesses + Checking <= MaxTotpAttempts + (Cardinality(Verifiers) - 1) + Lost

\* A code that is being taken is on the list that was read, of an enrolment.
TakenFromList == \A v \in Verifiers : In(v, "save") => enrolled /\ verifying[v].code \in verifying[v].list
\* Without a lost write and an overlap one request holds the list, and no code
\* that was accepted is on the list or will be.
Alone == ~overlapped /\ mfaFaults = 0
OneHolder == Alone => \A v, w \in Verifiers : In(v, "save") /\ In(w, "save") => v = w
AcceptedGone ==
    Alone => \A c \in BackupCodes :
               /\ accepted[c] <= 1
               /\ accepted[c] > 0 => c \notin codes /\ \A v \in Verifiers : In(v, "save") => c \notin verifying[v].list

ManagerInv ==
    /\ MfaShape /\ NoListWithoutEnrolment /\ CallsAccount /\ GuessesOff /\ GuessesOn
    /\ TakenFromList /\ OneHolder /\ AcceptedGone /\ AbuseLocksKey

Here(at, steps) == IF at \in steps THEN 1 ELSE 0

\* How the requests at some steps are counted anew when one moves.
LEMMA RequestMoves ==
    ASSUME NEW held \in [Verifiers -> MfaRequest], NEW v \in Verifiers, NEW r \in MfaRequest, NEW steps
    PROVE  /\ CountAt(held, steps) \in Nat /\ CountAt([held EXCEPT ![v] = r], steps) \in Nat
           /\ CountAt([held EXCEPT ![v] = r], steps)
                = CountAt(held, steps) - Here(held[v].at, steps) + Here(r.at, steps)
<1> DEFINE A == {u \in Verifiers : held[u].at \in steps}
           B == {u \in Verifiers : [held EXCEPT ![v] = r][u].at \in steps}
           C == {u \in Verifiers \ {v} : held[u].at \in steps}
<1>1. IsFiniteSet(C) /\ v \notin C
  <2>1. C \in SUBSET Verifiers
    OBVIOUS
  <2> QED
    BY <2>1, MfaAssumption, FS_Subset
<1>2. A = IF held[v].at \in steps THEN C \cup {v} ELSE C
  OBVIOUS
<1>3. B = IF r.at \in steps THEN C \cup {v} ELSE C
  OBVIOUS
<1>4. Cardinality(C) \in Nat /\ Cardinality(C \cup {v}) = Cardinality(C) + 1
  <2> HIDE DEF C
  <2> QED
    BY <1>1, FS_CardinalityType, FS_AddElement
<1>5. CountAt(held, steps) = Cardinality(A) /\ CountAt([held EXCEPT ![v] = r], steps) = Cardinality(B)
  BY DEF CountAt
<1> HIDE DEF A, B, C
<1> QED
  BY <1>2, <1>3, <1>4, <1>5 DEF Here

\* The five counts are numbers; those who still may look and those who looked are
\* different requests, and no more than there are.
LEMMA CountsAre ==
    ASSUME verifying \in [Verifiers -> MfaRequest]
    PROVE  /\ FailsAhead \in Nat /\ LooksAhead \in Nat /\ UsesAhead \in Nat /\ Pending \in Nat /\ Checking \in Nat
           /\ Cardinality(Verifiers) \in Nat /\ Checking + Pending <= Cardinality(Verifiers)
           /\ \A v \in Verifiers : verifying[v].at # "check" => Checking <= Cardinality(Verifiers) - 1
<1> DEFINE C == {v \in Verifiers : verifying[v].at \in {"check"}}
           P == {v \in Verifiers : verifying[v].at \in {"count", "set_lock"}}
<1>1. \A S \in SUBSET Verifiers : IsFiniteSet(S) /\ Cardinality(S) \in Nat /\ Cardinality(S) <= Cardinality(Verifiers)
  BY MfaAssumption, FS_Subset, FS_CardinalityType
<1>2. FailsAhead \in Nat /\ LooksAhead \in Nat /\ UsesAhead \in Nat
  BY <1>1 DEF FailsAhead, LooksAhead, UsesAhead, CountAt
<1>3. Checking = Cardinality(C) /\ Pending = Cardinality(P)
  BY DEF Checking, Pending, CountAt
<1>4. C \in SUBSET Verifiers /\ P \in SUBSET Verifiers /\ C \cap P = {} /\ C \cup P \in SUBSET Verifiers
  OBVIOUS
<1>5. ASSUME NEW v \in Verifiers, verifying[v].at # "check" PROVE C \in SUBSET (Verifiers \ {v})
  BY <1>5
<1> HIDE DEF C, P
<1>6. Cardinality(C \cup P) = Cardinality(C) + Cardinality(P)
  <2>1. IsFiniteSet(C) /\ IsFiniteSet(P) /\ Cardinality(C) \in Nat /\ Cardinality(P) \in Nat
    BY <1>1, <1>4
  <2>2. Cardinality(C \cup P) = Cardinality(C) + Cardinality(P) - Cardinality(C \cap P)
    BY <2>1, FS_Union
  <2>3. Cardinality(C \cap P) = 0
    BY <1>4, FS_EmptySet
  <2> QED
    BY <2>1, <2>2, <2>3
<1>7. ASSUME NEW v \in Verifiers, verifying[v].at # "check" PROVE Cardinality(C) <= Cardinality(Verifiers) - 1
  <2>1. IsFiniteSet(Verifiers \ {v}) /\ Cardinality(Verifiers \ {v}) = Cardinality(Verifiers) - 1
    BY MfaAssumption, FS_RemoveElement
  <2> QED
    BY <1>5, <1>7, <2>1, FS_Subset
<1>8. Cardinality(Verifiers) \in Nat
  BY MfaAssumption, FS_CardinalityType
<1> QED
  BY <1>1, <1>2, <1>3, <1>4, <1>6, <1>7, <1>8

\* The five counts when one request moves.
LEMMA CountsMove ==
    ASSUME verifying \in [Verifiers -> MfaRequest], NEW v \in Verifiers, NEW r \in MfaRequest,
           verifying' = [verifying EXCEPT ![v] = r]
    PROVE  /\ verifying' \in [Verifiers -> MfaRequest] /\ verifying'[v] = r
           /\ \A u \in Verifiers \ {v} : verifying'[u] = verifying[u]
           /\ FailsAhead' \in Nat /\ LooksAhead' \in Nat /\ UsesAhead' \in Nat /\ Pending' \in Nat /\ Checking' \in Nat
           /\ FailsAhead' = FailsAhead - Here(verifying[v].at, {"lock", "check", "count"})
                              + Here(r.at, {"lock", "check", "count"})
           /\ LooksAhead' = LooksAhead - Here(verifying[v].at, {"lock", "check"}) + Here(r.at, {"lock", "check"})
           /\ UsesAhead' = UsesAhead - Here(verifying[v].at, {"usage", "load", "record"})
                             + Here(r.at, {"usage", "load", "record"})
           /\ Pending' = Pending - Here(verifying[v].at, {"count", "set_lock"}) + Here(r.at, {"count", "set_lock"})
           /\ Checking' = Checking - Here(verifying[v].at, {"check"}) + Here(r.at, {"check"})
<1>1. FailsAhead' = CountAt([verifying EXCEPT ![v] = r], {"lock", "check", "count"})
  BY DEF FailsAhead, CountAt
<1>2. LooksAhead' = CountAt([verifying EXCEPT ![v] = r], {"lock", "check"})
  BY DEF LooksAhead, CountAt
<1>3. UsesAhead' = CountAt([verifying EXCEPT ![v] = r], {"usage", "load", "record"})
  BY DEF UsesAhead, CountAt
<1>4. Pending' = CountAt([verifying EXCEPT ![v] = r], {"count", "set_lock"})
  BY DEF Pending, CountAt
<1>5. Checking' = CountAt([verifying EXCEPT ![v] = r], {"check"})
  BY DEF Checking, CountAt
<1>6. /\ verifying' \in [Verifiers -> MfaRequest] /\ verifying'[v] = r
      /\ \A u \in Verifiers \ {v} : verifying'[u] = verifying[u]
  OBVIOUS
<1>7. FailsAhead' = FailsAhead - Here(verifying[v].at, {"lock", "check", "count"})
                      + Here(r.at, {"lock", "check", "count"})
  BY <1>1, RequestMoves DEF FailsAhead
<1>8. LooksAhead' = LooksAhead - Here(verifying[v].at, {"lock", "check"}) + Here(r.at, {"lock", "check"})
  BY <1>2, RequestMoves DEF LooksAhead
<1>9. UsesAhead' = UsesAhead - Here(verifying[v].at, {"usage", "load", "record"})
                     + Here(r.at, {"usage", "load", "record"})
  BY <1>3, RequestMoves DEF UsesAhead
<1>10. Pending' = Pending - Here(verifying[v].at, {"count", "set_lock"}) + Here(r.at, {"count", "set_lock"})
  BY <1>4, RequestMoves DEF Pending
<1>11. Checking' = Checking - Here(verifying[v].at, {"check"}) + Here(r.at, {"check"})
  BY <1>5, RequestMoves DEF Checking
<1>12. FailsAhead' \in Nat /\ LooksAhead' \in Nat /\ UsesAhead' \in Nat /\ Pending' \in Nat /\ Checking' \in Nat
  BY <1>1, <1>2, <1>3, <1>4, <1>5, RequestMoves
<1> QED
  BY <1>6, <1>7, <1>8, <1>9, <1>10, <1>11, <1>12

\* A request that goes on, and one that is answered.
LEMMA VerifyingIs ==
    ASSUME verifying \in [Verifiers -> MfaRequest], NEW v \in Verifiers, NEW at \in MfaSteps, Verifying(v, at)
    PROVE  \E r \in MfaRequest : /\ r.at = at /\ r.code = verifying[v].code /\ r.list = verifying[v].list
                                 /\ verifying' = [verifying EXCEPT ![v] = r]
<1>1. PICK q \in MfaRequest : q = verifying[v]
  OBVIOUS
<1>2. PICK r : r = [q EXCEPT !.at = at]
  OBVIOUS
<1>3. r \in MfaRequest /\ r.at = at /\ r.code = q.code /\ r.list = q.list
  BY <1>2 DEF MfaRequest
<1>4. verifying' = [verifying EXCEPT ![v] = r]
  BY <1>1, <1>2 DEF Verifying
<1> QED
  BY <1>1, <1>3, <1>4

\* An answer leaves the slot of the request empty.
LEMMA AnsweredIs ==
    ASSUME NEW v \in Verifiers, Answered(v)
    PROVE  /\ NoRequest \in MfaRequest /\ NoRequest.at = "idle"
           /\ verifying' = [verifying EXCEPT ![v] = NoRequest]
  BY DEF Answered, NoRequest, MfaRequest, MfaSteps

\* A query that works or fails.
LEMMA FaultsGrow ==
    ASSUME MfaShape, Works \/ Fails
    PROVE  mfaFaults' \in Nat /\ mfaFaults' \in {mfaFaults, mfaFaults + 1} /\ (mfaFaults' = 0 => mfaFaults = 0)
  BY DEF MfaShape, Works, Fails

\* The lists and the codes where no request takes hold of a list.
LEMMA ListsStay ==
    ASSUME ManagerInv, NEW v \in Verifiers, NEW r \in MfaRequest, verifying' = [verifying EXCEPT ![v] = r],
           r.at # "save", UNCHANGED <<enrolled, codes, accepted, overlapped>>, mfaFaults' = 0 => mfaFaults = 0
    PROVE  TakenFromList' /\ OneHolder' /\ AcceptedGone'
<1>1. \A u \in Verifiers : In(u, "save")' => In(u, "save") /\ verifying'[u] = verifying[u]
  BY CountsMove DEF ManagerInv, MfaShape, In
<1>2. Alone' => Alone
  BY Zenon DEF Alone
<1>3. TakenFromList'
  BY <1>1 DEF ManagerInv, TakenFromList
<1>4. OneHolder'
  BY <1>1, <1>2, Zenon DEF ManagerInv, OneHolder
<1>5. AcceptedGone'
  BY <1>1, <1>2 DEF ManagerInv, AcceptedGone
<1> QED
  BY <1>3, <1>4, <1>5

LockStays == UNCHANGED locked
OffKept == ~locked => guesses' - guesses <= (CountedFails' - CountedFails) + (Pending' - Pending) + (Lost' - Lost)
OnKept == locked => (guesses' + Checking') - (guesses + Checking) <= Lost' - Lost

\* The lock stays as it is: what was looked at is still accounted for.
LEMMA GuessesStay ==
    ASSUME ManagerInv, LockStays, OffKept, OnKept,
           /\ guesses' \in Int /\ CountedFails' \in Int /\ Pending' \in Int /\ Lost' \in Int /\ Checking' \in Int,
           /\ CountedFails \in Int /\ Pending \in Int /\ Lost \in Int /\ Checking \in Int
    PROVE  GuessesOff' /\ GuessesOn'
<1>1. PICK g \in Int, h \in Int : g = guesses /\ h = guesses'
  BY DEF ManagerInv, MfaShape
<1>2. PICK c \in Int, d \in Int : c = CountedFails /\ d = CountedFails'
  OBVIOUS
<1>3. PICK p \in Int, q \in Int : p = Pending /\ q = Pending'
  OBVIOUS
<1>4. PICK l \in Int, k \in Int : l = Lost /\ k = Lost'
  OBVIOUS
<1>5. PICK x \in Int, y \in Int : x = Checking /\ y = Checking'
  OBVIOUS
<1>6. PICK m \in Int : m = MaxTotpAttempts + (Cardinality(Verifiers) - 1)
  <2>1. Cardinality(Verifiers) \in Int /\ MaxTotpAttempts \in Int
    BY CountsAre, MfaAssumption DEF ManagerInv, MfaShape
  <2> QED
    BY <2>1
<1>7. g <= c + p + l /\ h - g <= (d - c) + (q - p) + (k - l) => h <= d + q + k
  OBVIOUS
<1>8. g + x <= m + l /\ (h + y) - (g + x) <= k - l => h + y <= m + k
  OBVIOUS
<1>9. GuessesOff'
  BY <1>1, <1>2, <1>3, <1>4, <1>7, Zenon DEF ManagerInv, GuessesOff, OffKept, LockStays
<1>10. GuessesOn'
  BY <1>1, <1>4, <1>5, <1>6, <1>8, Zenon DEF ManagerInv, GuessesOn, OnKept, LockStays
<1> QED
  BY <1>9, <1>10

\* Who has used up the codes stays found out.
LEMMA AbuseStays ==
    ASSUME ManagerInv, usage' \in {usage, 0}, keyLocked => keyLocked', UNCHANGED durable
    PROVE  AbuseLocksKey'
<1>1. UsedUp(usage)' => UsedUp(usage)
  BY MfaAssumption DEF UsedUp, ManagerInv, MfaShape
<1> QED
  BY <1>1, Zenon DEF ManagerInv, AbuseLocksKey
\* What was counted and what may be, where a step adds no more than a request
\* gives up.
LEMMA AddsUp ==
    ASSUME NEW a \in Nat, NEW b \in Nat, NEW c \in Nat, NEW d \in Nat, NEW e \in Nat, NEW x \in Nat, NEW y \in Nat,
           NEW more \in Nat, NEW f \in Nat, a + b <= c, f + y <= more + x, d = b - x + y, e <= a + f
    PROVE  e + d <= c + more
  OBVIOUS


\* What a step that moves one request adds to what was counted is covered by the
\* request moving on, or by a new request.
LEMMA CallsMove ==
    ASSUME ManagerInv, NEW v \in Verifiers, NEW r \in MfaRequest, verifying' = [verifying EXCEPT ![v] = r],
           codes' \in SUBSET BackupCodes, accepted' \in [BackupCodes -> Nat],
           mfaFaults' \in {mfaFaults, mfaFaults + 1}, escaped' \in {escaped, escaped + 1},
           NEW more \in {0, 1}, mfaCalls' = mfaCalls + more, mfaCalls + more \in 0..MaxMfaCalls,
           NEW f \in {0, 1}, failed' \in {0, failed + f},
           f + Here(r.at, {"lock", "check", "count"}) <= more + Here(verifying[v].at, {"lock", "check", "count"}),
           NEW g \in {0, 1}, guesses' \in {0, guesses + g},
           g + Here(r.at, {"lock", "check"}) <= more + Here(verifying[v].at, {"lock", "check"}),
           NEW u \in {0, 1}, usage' \in {0, usage + u},
           u + Here(r.at, {"usage", "load", "record"}) <= more + Here(verifying[v].at, {"usage", "load", "record"})
    PROVE  MfaShape' /\ CallsAccount'
<1>1. MfaShape'
  <2>1. failed \in Nat /\ guesses \in Nat /\ usage \in Nat /\ mfaFaults \in Nat /\ escaped \in Nat
    BY DEF ManagerInv, MfaShape
  <2>2. /\ failed' \in Nat /\ guesses' \in Nat /\ usage' \in Nat /\ mfaFaults' \in Nat /\ escaped' \in Nat
    BY <2>1
  <2>3. verifying' \in [Verifiers -> MfaRequest]
    BY CountsMove DEF ManagerInv, MfaShape
  <2> QED
    BY <2>2, <2>3 DEF MfaShape
<1>2. \A at, steps : Here(at, steps) \in Nat
  BY DEF Here
<1>3. PICK c \in Nat : c = mfaCalls
  BY MfaAssumption DEF ManagerInv, MfaShape
<1>4. verifying \in [Verifiers -> MfaRequest]
  BY DEF ManagerInv, MfaShape
<1>5. failed' + FailsAhead' <= mfaCalls'
  <2>1. PICK a \in Nat, b \in Nat : a = failed /\ b = FailsAhead
    BY <1>4, CountsAre DEF ManagerInv, MfaShape
  <2>2. PICK x \in Nat, y \in Nat : /\ x = Here(verifying[v].at, {"lock", "check", "count"})
                                    /\ y = Here(r.at, {"lock", "check", "count"})
    BY <1>2
  <2>7. FailsAhead' \in Nat /\ FailsAhead' = b - x + y
    BY <1>4, <2>1, <2>2, CountsMove
  <2>3. PICK d \in Nat : d = FailsAhead' /\ d = b - x + y
    BY <2>7
  <2>8. f \in Nat /\ more \in Nat
    OBVIOUS
  <2>4. PICK e \in Nat : e = failed' /\ e <= a + f
    BY <2>1, <2>8
  <2>5. a + b <= c /\ f + y <= more + x
    BY <1>3, <2>1, <2>2 DEF ManagerInv, CallsAccount
  <2>9. a + b <= c
    BY <2>5
  <2>10. f + y <= more + x
    BY <2>5
  <2>11. d = b - x + y
    BY <2>3
  <2>12. e <= a + f
    BY <2>4
  <2>6. e + d <= c + more
    BY <2>8, <2>9, <2>10, <2>11, <2>12, AddsUp
  <2> QED
    BY <1>3, <2>3, <2>4, <2>6
<1>6. guesses' + LooksAhead' <= mfaCalls'
  <2>1. PICK a \in Nat, b \in Nat : a = guesses /\ b = LooksAhead
    BY <1>4, CountsAre DEF ManagerInv, MfaShape
  <2>2. PICK x \in Nat, y \in Nat : /\ x = Here(verifying[v].at, {"lock", "check"})
                                    /\ y = Here(r.at, {"lock", "check"})
    BY <1>2
  <2>7. LooksAhead' \in Nat /\ LooksAhead' = b - x + y
    BY <1>4, <2>1, <2>2, CountsMove
  <2>3. PICK d \in Nat : d = LooksAhead' /\ d = b - x + y
    BY <2>7
  <2>8. g \in Nat /\ more \in Nat
    OBVIOUS
  <2>4. PICK e \in Nat : e = guesses' /\ e <= a + g
    BY <2>1, <2>8
  <2>5. a + b <= c /\ g + y <= more + x
    BY <1>3, <2>1, <2>2 DEF ManagerInv, CallsAccount
  <2>9. a + b <= c
    BY <2>5
  <2>10. g + y <= more + x
    BY <2>5
  <2>11. d = b - x + y
    BY <2>3
  <2>12. e <= a + g
    BY <2>4
  <2>6. e + d <= c + more
    BY <2>8, <2>9, <2>10, <2>11, <2>12, AddsUp
  <2> QED
    BY <1>3, <2>3, <2>4, <2>6
<1>7. usage' + UsesAhead' <= mfaCalls'
  <2>1. PICK a \in Nat, b \in Nat : a = usage /\ b = UsesAhead
    BY <1>4, CountsAre DEF ManagerInv, MfaShape
  <2>2. PICK x \in Nat, y \in Nat : /\ x = Here(verifying[v].at, {"usage", "load", "record"})
                                    /\ y = Here(r.at, {"usage", "load", "record"})
    BY <1>2
  <2>7. UsesAhead' \in Nat /\ UsesAhead' = b - x + y
    BY <1>4, <2>1, <2>2, CountsMove
  <2>3. PICK d \in Nat : d = UsesAhead' /\ d = b - x + y
    BY <2>7
  <2>8. u \in Nat /\ more \in Nat
    OBVIOUS
  <2>4. PICK e \in Nat : e = usage' /\ e <= a + u
    BY <2>1, <2>8
  <2>5. a + b <= c /\ u + y <= more + x
    BY <1>3, <2>1, <2>2 DEF ManagerInv, CallsAccount
  <2>9. a + b <= c
    BY <2>5
  <2>10. u + y <= more + x
    BY <2>5
  <2>11. d = b - x + y
    BY <2>3
  <2>12. e <= a + u
    BY <2>4
  <2>6. e + d <= c + more
    BY <2>8, <2>9, <2>10, <2>11, <2>12, AddsUp
  <2> QED
    BY <1>3, <2>3, <2>4, <2>6
<1> QED
  BY <1>1, <1>5, <1>6, <1>7 DEF CallsAccount

OffAllows(n) == ~locked => 0 <= n
OnAllows(n) == locked => 0 <= n

\* A slack that is there anyway.
LEMMA SlackAllows ==
    ASSUME NEW n, 0 <= n
    PROVE  OffAllows(n) /\ OnAllows(n)
  BY Zenon DEF OffAllows, OnAllows

\* A step that moves one request and leaves the lock looks at no more wrong codes
\* than it accounts for.
LEMMA GuessesMove ==
    ASSUME ManagerInv, NEW v \in Verifiers, NEW r \in MfaRequest, verifying' = [verifying EXCEPT ![v] = r],
           LockStays,
           NEW l \in {0, 1}, NEW k \in {0, 1}, mfaFaults' = mfaFaults + l, escaped' = escaped + k,
           NEW f \in {0, 1}, failed' = failed + f, NEW g \in {0, 1}, guesses' = guesses + g,
           NEW off \in Int, OffAllows(off),
           off + g + Here(verifying[v].at, {"count", "set_lock"})
             <= Here(r.at, {"count", "set_lock"}) + l + k + (IF failed + f < MaxTotpAttempts THEN f ELSE 0),
           NEW on \in Int, OnAllows(on),
           on + g + Here(r.at, {"check"}) <= l + k + Here(verifying[v].at, {"check"})
    PROVE  GuessesOff' /\ GuessesOn'
<1>1. PICK a \in Nat, m \in Nat \ {0} : a = failed /\ m = MaxTotpAttempts
  BY MfaAssumption DEF ManagerInv, MfaShape
<1>2. PICK c \in Int, d \in Int : /\ c = CountedFails /\ d = CountedFails'
                                  /\ c + (IF a + f < m THEN f ELSE 0) <= d
  <2>1. PICK c \in Int : c = CountedFails /\ c = IF a < m THEN a ELSE m - 1
    BY <1>1 DEF CountedFails
  <2>2. PICK d \in Int : d = CountedFails' /\ d = IF a + f < m THEN a + f ELSE m - 1
    BY <1>1 DEF CountedFails
  <2>3. c + (IF a + f < m THEN f ELSE 0) <= d
    BY <2>1, <2>2
  <2> QED
    BY <2>1, <2>2, <2>3
<1>3. \A at, steps : Here(at, steps) \in Nat
  BY DEF Here
<1>4. PICK x \in Nat, y \in Nat : x = Here(verifying[v].at, {"count", "set_lock"}) /\ y = Here(r.at, {"count", "set_lock"})
  BY <1>3
<1>5. PICK w \in Nat, z \in Nat : w = Here(verifying[v].at, {"check"}) /\ z = Here(r.at, {"check"})
  BY <1>3
<1>6. verifying \in [Verifiers -> MfaRequest] /\ guesses \in Nat /\ mfaFaults \in Nat /\ escaped \in Nat
  BY DEF ManagerInv, MfaShape
<1>7. PICK p \in Nat, q \in Nat : p = Pending /\ q = Pending' /\ q = p - x + y
  <2>1. Pending \in Nat /\ Pending' \in Nat /\ Pending' = Pending - x + y
    BY <1>4, <1>6, CountsAre, CountsMove
  <2> QED
    BY <2>1
<1>8. PICK s \in Nat, t \in Nat : s = Checking /\ t = Checking' /\ t = s - w + z
  <2>1. Checking \in Nat /\ Checking' \in Nat /\ Checking' = Checking - w + z
    BY <1>5, <1>6, CountsAre, CountsMove
  <2> QED
    BY <2>1
<1>9. PICK b \in Nat, e \in Nat : b = Lost /\ e = Lost' /\ e = b + l + k
  <2>1. PICK i \in Nat, j \in Nat : i = mfaFaults /\ j = escaped
    BY <1>6
  <2>2. Lost = j + i /\ Lost' = (j + k) + (i + l)
    BY <2>1 DEF Lost
  <2>3. (j + k) + (i + l) = (j + i) + l + k
    OBVIOUS
  <2> QED
    BY <2>2, <2>3
<1>10. PICK n \in Nat : n = guesses
  BY <1>6
<1>11. 0 <= off => (n + g) - n <= (d - c) + (q - p) + (e - b)
  BY <1>1, <1>2, <1>4, <1>7, <1>9
<1>12. 0 <= on => ((n + g) + t) - (n + s) <= e - b
  BY <1>5, <1>8, <1>9
<1>13. OffKept
  BY <1>2, <1>7, <1>9, <1>10, <1>11, Zenon DEF OffKept, OffAllows
<1>14. OnKept
  BY <1>8, <1>9, <1>10, <1>12, Zenon DEF OnKept, OnAllows
<1>15. /\ guesses' \in Int /\ CountedFails' \in Int /\ Pending' \in Int /\ Lost' \in Int /\ Checking' \in Int
       /\ CountedFails \in Int /\ Pending \in Int /\ Lost \in Int /\ Checking \in Int
  BY <1>2, <1>7, <1>8, <1>9, <1>10
<1> QED
  BY <1>13, <1>14, <1>15, GuessesStay

\* What a step that moves one request and leaves the lock keeps, once what it adds
\* is covered.
LEMMA OneMoves ==
    ASSUME ManagerInv, NEW v \in Verifiers, NEW r \in MfaRequest, verifying' = [verifying EXCEPT ![v] = r],
           LockStays, UNCHANGED <<durable, enrolled>>,
           codes' \in SUBSET BackupCodes, enrolled \/ codes' = {}, accepted' \in [BackupCodes -> Nat],
           NEW l \in {0, 1}, NEW k \in {0, 1}, mfaFaults' = mfaFaults + l, escaped' = escaped + k,
           NEW more \in {0, 1}, mfaCalls' = mfaCalls + more, mfaCalls + more \in 0..MaxMfaCalls,
           NEW f \in {0, 1}, failed' = failed + f,
           f + Here(r.at, {"lock", "check", "count"}) <= more + Here(verifying[v].at, {"lock", "check", "count"}),
           NEW g \in {0, 1}, guesses' = guesses + g,
           g + Here(r.at, {"lock", "check"}) <= more + Here(verifying[v].at, {"lock", "check"}),
           NEW u \in {0, 1}, usage' \in {0, usage + u},
           u + Here(r.at, {"usage", "load", "record"}) <= more + Here(verifying[v].at, {"usage", "load", "record"}),
           NEW off \in Int, OffAllows(off),
           off + g + Here(verifying[v].at, {"count", "set_lock"})
             <= Here(r.at, {"count", "set_lock"}) + l + k + (IF failed + f < MaxTotpAttempts THEN f ELSE 0),
           NEW on \in Int, OnAllows(on),
           on + g + Here(r.at, {"check"}) <= l + k + Here(verifying[v].at, {"check"})
    PROVE  MfaShape' /\ NoListWithoutEnrolment' /\ CallsAccount' /\ GuessesOff' /\ GuessesOn'
<1>1. GuessesOff' /\ GuessesOn'
  BY GuessesMove
<1>2. /\ mfaFaults' \in {mfaFaults, mfaFaults + 1} /\ escaped' \in {escaped, escaped + 1}
      /\ failed' \in {0, failed + f} /\ guesses' \in {0, guesses + g}
  BY DEF ManagerInv, MfaShape
<1>3. MfaShape' /\ CallsAccount'
  BY <1>2, CallsMove
<1>4. NoListWithoutEnrolment'
  BY Zenon DEF NoListWithoutEnrolment
<1> QED
  BY <1>1, <1>3, <1>4

\* A query that works leaves no fault, one that fails one more.
LEMMA FaultsAre ==
    ASSUME MfaShape
    PROVE  /\ Works => mfaFaults' = mfaFaults + 0
           /\ Fails => mfaFaults' = mfaFaults + 1
           /\ Works \/ Fails => \E l \in {0, 1} : mfaFaults' = mfaFaults + l
  BY DEF MfaShape, Works, Fails

\* What the numbers are.
LEMMA NumbersAre ==
    ASSUME ManagerInv
    PROVE  /\ failed \in Nat /\ usage \in Nat /\ guesses \in Nat /\ mfaCalls \in Nat /\ mfaFaults \in Nat /\ escaped \in Nat
           /\ failed + 0 = failed /\ usage + 0 = usage /\ guesses + 0 = guesses /\ escaped + 0 = escaped
           /\ mfaCalls + 0 = mfaCalls /\ mfaCalls + 0 \in 0..MaxMfaCalls
           /\ MaxTotpAttempts \in Nat \ {0} /\ MaxBackupUses \in Nat \ {0}
           /\ 0 \in {0, 1} /\ 1 \in {0, 1} /\ 0 \in Int /\ OffAllows(0) /\ OnAllows(0)
<1>1. OffAllows(0) /\ OnAllows(0)
  BY SlackAllows
<1> QED
  BY <1>1, MfaAssumption DEF ManagerInv, MfaShape

\* A query that changes nothing but, where it fails, the count of the faults.
QuietQuery ==
    /\ UNCHANGED <<durable, enrolled, codes, failed, locked, usage, mfaCalls, keyLocked, guesses,
                   accepted, overlapped, escaped>>
    /\ Works \/ Fails

\* A request that goes on or is answered after such a query keeps the invariant.
LEMMA QuietMoves ==
    ASSUME ManagerInv, NEW v \in Verifiers, NEW r \in MfaRequest, verifying' = [verifying EXCEPT ![v] = r],
           QuietQuery, r.at # "save",
           \/ In(v, "lock") /\ r.at = "idle"
           \/ In(v, "lock") /\ r.at = "check" /\ (~locked \/ Fails)
           \/ In(v, "check") /\ r.at \in {"idle", "clear"}
           \/ In(v, "clear") /\ r.at = "idle"
           \/ In(v, "count") /\ r.at = "idle" /\ Fails
           \/ In(v, "usage") /\ r.at \in {"idle", "load"}
           \/ In(v, "load") /\ r.at = "record"
           \/ In(v, "reset") /\ r.at = "idle"
           \/ In(v, "record") /\ r.at = "idle"
    PROVE  ManagerInv'
<1>1. PICK l \in {0, 1} : mfaFaults' = mfaFaults + l /\ (Fails => l = 1)
  BY FaultsAre DEF ManagerInv, QuietQuery, MfaShape
<1>2. /\ 0 + Here(r.at, {"lock", "check", "count"}) <= 0 + Here(verifying[v].at, {"lock", "check", "count"})
      /\ 0 + Here(r.at, {"lock", "check"}) <= 0 + Here(verifying[v].at, {"lock", "check"})
      /\ 0 + Here(r.at, {"usage", "load", "record"}) <= 0 + Here(verifying[v].at, {"usage", "load", "record"})
  BY DEF Here, In
<1>3. 0 + 0 + Here(verifying[v].at, {"count", "set_lock"})
        <= Here(r.at, {"count", "set_lock"}) + l + 0 + (IF failed + 0 < MaxTotpAttempts THEN 0 ELSE 0)
  BY <1>1 DEF Here, In
<1>4. \E on \in Int : OnAllows(on) /\ on + 0 + Here(r.at, {"check"}) <= l + 0 + Here(verifying[v].at, {"check"})
  <2>1. CASE locked \/ ~(In(v, "lock") /\ r.at = "check")
    <3>1. 0 + 0 + Here(r.at, {"check"}) <= l + 0 + Here(verifying[v].at, {"check"})
      BY <1>1, <2>1 DEF Here, In
    <3> QED
      BY <3>1, NumbersAre
  <2>2. CASE ~locked /\ In(v, "lock") /\ r.at = "check"
    <3>1. -1 \in Int /\ -1 + 0 + Here(r.at, {"check"}) <= l + 0 + Here(verifying[v].at, {"check"})
      BY <1>1, <2>2 DEF Here, In
    <3>2. OnAllows(-1)
      BY <2>2, Zenon DEF OnAllows
    <3> QED
      BY <3>1, <3>2
  <2> QED
    BY <2>1, <2>2
<1>5. /\ UNCHANGED <<durable, enrolled, codes, failed, locked, usage, mfaCalls, keyLocked, guesses,
                     accepted, overlapped, escaped>>
      /\ LockStays
  BY DEF QuietQuery, LockStays
<1>6. /\ codes \in SUBSET BackupCodes /\ (enrolled \/ codes = {}) /\ accepted \in [BackupCodes -> Nat]
  BY DEF ManagerInv, MfaShape, NoListWithoutEnrolment
<1>7. PICK on \in Int : OnAllows(on) /\ on + 0 + Here(r.at, {"check"}) <= l + 0 + Here(verifying[v].at, {"check"})
  BY <1>4
<1>8. MfaShape' /\ NoListWithoutEnrolment' /\ CallsAccount' /\ GuessesOff' /\ GuessesOn'
  <2>1. /\ failed' = failed + 0 /\ guesses' = guesses + 0 /\ usage' \in {0, usage + 0} /\ mfaCalls' = mfaCalls + 0
        /\ escaped' = escaped + 0
    BY <1>5, NumbersAre
  <2>2. codes' \in SUBSET BackupCodes /\ (enrolled \/ codes' = {}) /\ accepted' \in [BackupCodes -> Nat]
    BY <1>5, <1>6, Zenon
  <2>3. UNCHANGED <<durable, enrolled>>
    BY <1>5
  <2> QED
    BY <1>1, <1>2, <1>3, <1>5, <1>7, <2>1, <2>2, <2>3, NumbersAre, OneMoves
<1>9. mfaFaults' = 0 => mfaFaults = 0
  BY <1>1, NumbersAre
<1>10. TakenFromList' /\ OneHolder' /\ AcceptedGone'
  BY <1>5, <1>9, ListsStay
<1>11. AbuseLocksKey'
  BY <1>5, AbuseStays
<1> QED
  BY <1>8, <1>10, <1>11 DEF ManagerInv

\* A request that was only read for, and is answered or goes on.
LEMMA QuietVerifying ==
    ASSUME ManagerInv, NEW v \in Verifiers, NEW at \in MfaSteps, Verifying(v, at), QuietQuery, at # "save",
           \/ In(v, "lock") /\ at = "check" /\ (~locked \/ Fails)
           \/ In(v, "check") /\ at = "clear"
           \/ In(v, "usage") /\ at = "load"
           \/ In(v, "load") /\ at = "record"
    PROVE  ManagerInv'
<1>1. PICK r \in MfaRequest : r.at = at /\ verifying' = [verifying EXCEPT ![v] = r]
  BY VerifyingIs DEF ManagerInv, MfaShape
<1> QED
  BY <1>1, QuietMoves

\* The same for an answer.
LEMMA QuietAnswer ==
    ASSUME ManagerInv, NEW v \in Verifiers, Answered(v), QuietQuery,
           \/ In(v, "lock") \/ In(v, "check") \/ In(v, "clear") \/ (In(v, "count") /\ Fails)
           \/ In(v, "usage") \/ In(v, "reset") \/ In(v, "record")
    PROVE  ManagerInv'
<1>1. PICK r \in MfaRequest : r.at = "idle" /\ verifying' = [verifying EXCEPT ![v] = r]
  BY AnsweredIs
<1> QED
  BY <1>1, QuietMoves

\* The look at the lock.
LEMMA LookAtLock ==
    ASSUME ManagerInv, NEW v \in Verifiers, is_locked_out(v)
    PROVE  ManagerInv'
<1>1. QuietQuery /\ In(v, "lock")
  BY DEF is_locked_out, QuietQuery
<1>2. \/ Answered(v)
      \/ Verifying(v, "check") /\ (~locked \/ Fails)
  BY Zenon DEF is_locked_out
<1>3. "check" \in MfaSteps
  BY DEF MfaSteps
<1>4. ASSUME Answered(v) PROVE ManagerInv'
  BY <1>1, <1>4, QuietAnswer
<1>5. ASSUME Verifying(v, "check"), ~locked \/ Fails PROVE ManagerInv'
  BY <1>1, <1>3, <1>5, QuietVerifying
<1> QED
  BY <1>2, <1>4, <1>5

\* The look at the count of the backup codes.
LEMMA LookAtUsage ==
    ASSUME ManagerInv, NEW v \in Verifiers, backup_code_usage_count(v)
    PROVE  ManagerInv'
<1>1. QuietQuery /\ In(v, "usage")
  BY DEF backup_code_usage_count, QuietQuery
<1>2. Answered(v) \/ Verifying(v, "load")
  BY Zenon DEF backup_code_usage_count
<1>3. "load" \in MfaSteps
  BY DEF MfaSteps
<1> QED
  BY <1>1, <1>2, <1>3, QuietAnswer, QuietVerifying

\* A wrong code that was looked at waits to be counted.
LEMMA WrongTotpKeeps ==
    ASSUME ManagerInv, NEW v \in Verifiers, In(v, "check"), Works, Verifying(v, "count"), guesses' = guesses + 1,
           UNCHANGED <<durable, enrolled, codes, failed, locked, usage, mfaCalls, keyLocked, accepted,
                       overlapped, escaped>>
    PROVE  ManagerInv'
<1>1. "count" \in MfaSteps /\ LockStays
  BY DEF MfaSteps, LockStays
<1>2. PICK r \in MfaRequest : r.at = "count" /\ verifying' = [verifying EXCEPT ![v] = r]
  BY <1>1, VerifyingIs DEF ManagerInv, MfaShape
<1>3. mfaFaults' = mfaFaults + 0 /\ (mfaFaults' = 0 => mfaFaults = 0)
  BY NumbersAre DEF Works
<1>4. /\ 0 + Here(r.at, {"lock", "check", "count"}) <= 0 + Here(verifying[v].at, {"lock", "check", "count"})
      /\ 1 + Here(r.at, {"lock", "check"}) <= 0 + Here(verifying[v].at, {"lock", "check"})
      /\ 0 + Here(r.at, {"usage", "load", "record"}) <= 0 + Here(verifying[v].at, {"usage", "load", "record"})
      /\ 0 + 1 + Here(verifying[v].at, {"count", "set_lock"})
           <= Here(r.at, {"count", "set_lock"}) + 0 + 0 + (IF failed + 0 < MaxTotpAttempts THEN 0 ELSE 0)
      /\ 0 + 1 + Here(r.at, {"check"}) <= 0 + 0 + Here(verifying[v].at, {"check"})
  BY <1>2 DEF Here, In
<1>5. MfaShape' /\ NoListWithoutEnrolment' /\ CallsAccount' /\ GuessesOff' /\ GuessesOn'
  <2>1. /\ failed' = failed + 0 /\ guesses' = guesses + 1 /\ usage' \in {0, usage + 0} /\ mfaCalls' = mfaCalls + 0
        /\ escaped' = escaped + 0 /\ UNCHANGED <<durable, enrolled>>
    BY NumbersAre
  <2>2. codes' \in SUBSET BackupCodes /\ (enrolled \/ codes' = {}) /\ accepted' \in [BackupCodes -> Nat]
    BY DEF ManagerInv, MfaShape, NoListWithoutEnrolment
  <2> QED
    BY <1>1, <1>2, <1>3, <1>4, <2>1, <2>2, NumbersAre, OneMoves
<1>6. TakenFromList' /\ OneHolder' /\ AcceptedGone'
  BY <1>2, <1>3, ListsStay
<1>7. AbuseLocksKey'
  BY AbuseStays
<1> QED
  BY <1>5, <1>6, <1>7 DEF ManagerInv

\* The look at a TOTP code.
LEMMA TotpChecks ==
    ASSUME ManagerInv, NEW v \in Verifiers, verify_totp(v)
    PROVE  ManagerInv'
<1>1. In(v, "check") /\ "clear" \in MfaSteps
  BY DEF verify_totp, MfaSteps
<1>2. CASE Works /\ Verifying(v, "count") /\ guesses' = guesses + 1
  <2>1. UNCHANGED <<durable, enrolled, codes, failed, locked, usage, mfaCalls, keyLocked, accepted,
                    overlapped, escaped>>
    BY DEF verify_totp
  <2> QED
    BY <1>1, <1>2, <2>1, WrongTotpKeeps
<1>3. CASE (Answered(v) \/ Verifying(v, "clear")) /\ (Works \/ Fails) /\ UNCHANGED guesses
  <2>1. QuietQuery
    BY <1>3 DEF verify_totp, QuietQuery
  <2>2. ASSUME Answered(v) PROVE ManagerInv'
    BY <1>1, <2>1, <2>2, QuietAnswer
  <2>3. ASSUME Verifying(v, "clear") PROVE ManagerInv'
    BY <1>1, <2>1, <2>3, QuietVerifying
  <2> QED
    BY <1>3, <2>2, <2>3
<1>4. \/ Works /\ Verifying(v, "count") /\ guesses' = guesses + 1
      \/ (Answered(v) \/ Verifying(v, "clear")) /\ (Works \/ Fails) /\ UNCHANGED guesses
  BY Zenon DEF verify_totp
<1> QED
  BY <1>2, <1>3, <1>4

\* A wrong code is counted; at the limit the request goes on to the lock.
LEMMA FailureCounts ==
    ASSUME ManagerInv, NEW v \in Verifiers, count_failure(v)
    PROVE  ManagerInv'
<1>1. In(v, "count")
  BY DEF count_failure
<1>2. CASE Fails /\ Answered(v) /\ UNCHANGED failed
  <2>1. QuietQuery
    BY <1>2 DEF count_failure, QuietQuery
  <2> QED
    BY <1>1, <1>2, <2>1, QuietAnswer
<1>3. CASE Works /\ failed' = failed + 1 /\ (IF AtLimit(failed + 1) THEN Verifying(v, "set_lock") ELSE Answered(v))
  <2>1. "set_lock" \in MfaSteps /\ LockStays
    BY DEF MfaSteps, LockStays, count_failure
  <2>2. PICK r \in MfaRequest : /\ verifying' = [verifying EXCEPT ![v] = r]
                                /\ r.at = IF failed + 1 >= MaxTotpAttempts THEN "set_lock" ELSE "idle"
    BY <1>3, <2>1, VerifyingIs, AnsweredIs DEF ManagerInv, MfaShape, AtLimit
  <2>3. mfaFaults' = mfaFaults + 0 /\ (mfaFaults' = 0 => mfaFaults = 0)
    BY <1>3, NumbersAre DEF Works
  <2>4. /\ 1 + Here(r.at, {"lock", "check", "count"}) <= 0 + Here(verifying[v].at, {"lock", "check", "count"})
        /\ 0 + Here(r.at, {"lock", "check"}) <= 0 + Here(verifying[v].at, {"lock", "check"})
        /\ 0 + Here(r.at, {"usage", "load", "record"}) <= 0 + Here(verifying[v].at, {"usage", "load", "record"})
        /\ 0 + 0 + Here(r.at, {"check"}) <= 0 + 0 + Here(verifying[v].at, {"check"})
    BY <1>1, <2>2 DEF Here, In
  <2>5. 0 + 0 + Here(verifying[v].at, {"count", "set_lock"})
          <= Here(r.at, {"count", "set_lock"}) + 0 + 0 + (IF failed + 1 < MaxTotpAttempts THEN 1 ELSE 0)
    BY <1>1, <2>2, NumbersAre DEF Here, In
  <2>6. MfaShape' /\ NoListWithoutEnrolment' /\ CallsAccount' /\ GuessesOff' /\ GuessesOn'
    <3>1. /\ failed' = failed + 1 /\ guesses' = guesses + 0 /\ usage' \in {0, usage + 0} /\ mfaCalls' = mfaCalls + 0
          /\ escaped' = escaped + 0 /\ UNCHANGED <<durable, enrolled>>
      BY <1>3, NumbersAre DEF count_failure
    <3>2. codes' \in SUBSET BackupCodes /\ (enrolled \/ codes' = {}) /\ accepted' \in [BackupCodes -> Nat]
      BY DEF ManagerInv, MfaShape, NoListWithoutEnrolment, count_failure
    <3> QED
      BY <2>1, <2>2, <2>3, <2>4, <2>5, <3>1, <3>2, NumbersAre, OneMoves
  <2>7. UNCHANGED <<durable, enrolled, codes, usage, keyLocked, accepted, overlapped>> /\ r.at # "save"
    BY <2>2 DEF count_failure
  <2>8. TakenFromList' /\ OneHolder' /\ AcceptedGone'
    BY <2>2, <2>3, <2>7, ListsStay
  <2>9. AbuseLocksKey'
    BY <2>7, AbuseStays
  <2> QED
    BY <2>6, <2>8, <2>9 DEF ManagerInv
<1> QED
  BY <1>2, <1>3, Zenon DEF count_failure

\* A used backup code is counted, and at the limit the API key is locked.
LEMMA UseCounts ==
    ASSUME ManagerInv, NEW v \in Verifiers, record_backup_code_usage(v)
    PROVE  ManagerInv'
<1>1. In(v, "record") /\ Answered(v)
  BY DEF record_backup_code_usage
<1>2. CASE Fails /\ UNCHANGED <<usage, keyLocked>>
  <2>1. QuietQuery
    BY <1>2 DEF record_backup_code_usage, QuietQuery
  <2> QED
    BY <1>1, <2>1, QuietAnswer
<1>3. CASE Works /\ usage' = usage + 1 /\ keyLocked' = (keyLocked \/ LocksKey(usage + 1))
  <2>1. PICK r \in MfaRequest : r.at = "idle" /\ verifying' = [verifying EXCEPT ![v] = r]
    BY <1>1, AnsweredIs
  <2>2. mfaFaults' = mfaFaults + 0 /\ (mfaFaults' = 0 => mfaFaults = 0)
    BY <1>3, NumbersAre DEF Works
  <2>3. /\ 0 + Here(r.at, {"lock", "check", "count"}) <= 0 + Here(verifying[v].at, {"lock", "check", "count"})
        /\ 0 + Here(r.at, {"lock", "check"}) <= 0 + Here(verifying[v].at, {"lock", "check"})
        /\ 1 + Here(r.at, {"usage", "load", "record"}) <= 0 + Here(verifying[v].at, {"usage", "load", "record"})
        /\ 0 + 0 + Here(verifying[v].at, {"count", "set_lock"})
             <= Here(r.at, {"count", "set_lock"}) + 0 + 0 + (IF failed + 0 < MaxTotpAttempts THEN 0 ELSE 0)
        /\ 0 + 0 + Here(r.at, {"check"}) <= 0 + 0 + Here(verifying[v].at, {"check"})
    BY <1>1, <2>1 DEF Here, In
  <2>4. UNCHANGED <<durable, enrolled, codes, failed, locked, mfaCalls, guesses, accepted, overlapped, escaped>>
    BY DEF record_backup_code_usage
  <2>5. MfaShape' /\ NoListWithoutEnrolment' /\ CallsAccount' /\ GuessesOff' /\ GuessesOn'
    <3>1. /\ failed' = failed + 0 /\ guesses' = guesses + 0 /\ usage' \in {0, usage + 1} /\ mfaCalls' = mfaCalls + 0
          /\ escaped' = escaped + 0 /\ UNCHANGED <<durable, enrolled>> /\ LockStays
      BY <1>3, <2>4, NumbersAre DEF LockStays
    <3>2. codes' \in SUBSET BackupCodes /\ (enrolled \/ codes' = {}) /\ accepted' \in [BackupCodes -> Nat]
      BY <2>4 DEF ManagerInv, MfaShape, NoListWithoutEnrolment
    <3> QED
      BY <2>1, <2>2, <2>3, <3>1, <3>2, NumbersAre, OneMoves
  <2>6. TakenFromList' /\ OneHolder' /\ AcceptedGone'
    BY <2>1, <2>2, <2>4, ListsStay
  <2>7. AbuseLocksKey'
    <3>1. UsedUp(usage)' => keyLocked'
      BY <1>3 DEF LocksKey, UsedUp
    <3> QED
      BY <3>1, Zenon DEF AbuseLocksKey
  <2> QED
    BY <2>5, <2>6, <2>7 DEF ManagerInv
<1> QED
  BY <1>2, <1>3, Zenon DEF record_backup_code_usage

\* A right backup code clears the count of the uses.
LEMMA UsesClear ==
    ASSUME ManagerInv, NEW v \in Verifiers, reset_backup_code_usage(v)
    PROVE  ManagerInv'
<1>1. In(v, "reset") /\ Answered(v)
  BY DEF reset_backup_code_usage
<1>2. CASE Fails /\ UNCHANGED usage
  <2>1. QuietQuery
    BY <1>2 DEF reset_backup_code_usage, QuietQuery
  <2> QED
    BY <1>1, <2>1, QuietAnswer
<1>3. CASE Works /\ usage' = 0
  <2>1. PICK r \in MfaRequest : r.at = "idle" /\ verifying' = [verifying EXCEPT ![v] = r]
    BY <1>1, AnsweredIs
  <2>2. mfaFaults' = mfaFaults + 0 /\ (mfaFaults' = 0 => mfaFaults = 0)
    BY <1>3, NumbersAre DEF Works
  <2>3. /\ 0 + Here(r.at, {"lock", "check", "count"}) <= 0 + Here(verifying[v].at, {"lock", "check", "count"})
        /\ 0 + Here(r.at, {"lock", "check"}) <= 0 + Here(verifying[v].at, {"lock", "check"})
        /\ 0 + Here(r.at, {"usage", "load", "record"}) <= 0 + Here(verifying[v].at, {"usage", "load", "record"})
        /\ 0 + 0 + Here(verifying[v].at, {"count", "set_lock"})
             <= Here(r.at, {"count", "set_lock"}) + 0 + 0 + (IF failed + 0 < MaxTotpAttempts THEN 0 ELSE 0)
        /\ 0 + 0 + Here(r.at, {"check"}) <= 0 + 0 + Here(verifying[v].at, {"check"})
    BY <1>1, <2>1 DEF Here, In
  <2>4. UNCHANGED <<durable, enrolled, codes, failed, locked, mfaCalls, keyLocked, guesses, accepted, overlapped, escaped>>
    BY DEF reset_backup_code_usage
  <2>5. MfaShape' /\ NoListWithoutEnrolment' /\ CallsAccount' /\ GuessesOff' /\ GuessesOn'
    <3>1. /\ failed' = failed + 0 /\ guesses' = guesses + 0 /\ usage' \in {0, usage + 0} /\ mfaCalls' = mfaCalls + 0
          /\ escaped' = escaped + 0 /\ UNCHANGED <<durable, enrolled>> /\ LockStays
      BY <1>3, <2>4, NumbersAre DEF LockStays
    <3>2. codes' \in SUBSET BackupCodes /\ (enrolled \/ codes' = {}) /\ accepted' \in [BackupCodes -> Nat]
      BY <2>4 DEF ManagerInv, MfaShape, NoListWithoutEnrolment
    <3> QED
      BY <2>1, <2>2, <2>3, <3>1, <3>2, NumbersAre, OneMoves
  <2>6. TakenFromList' /\ OneHolder' /\ AcceptedGone'
    BY <2>1, <2>2, <2>4, ListsStay
  <2>7. AbuseLocksKey'
    BY <1>3, <2>4, AbuseStays
  <2> QED
    BY <2>5, <2>6, <2>7 DEF ManagerInv
<1> QED
  BY <1>2, <1>3, Zenon DEF reset_backup_code_usage

\* A client hangs up: what it had not yet counted is one that got away.
LEMMA HangsUp ==
    ASSUME ManagerInv, NEW v \in Verifiers, MfaHangUp(v)
    PROVE  ManagerInv'
<1>1. ~In(v, "idle") /\ Answered(v)
  BY DEF MfaHangUp
<1>2. PICK r \in MfaRequest : r.at = "idle" /\ verifying' = [verifying EXCEPT ![v] = r]
  BY <1>1, AnsweredIs
<1>3. UNCHANGED <<durable, enrolled, codes, failed, locked, usage, mfaCalls, mfaFaults, keyLocked,
                  guesses, accepted, overlapped>>
  BY DEF MfaHangUp
<1>4. PICK k \in {0, 1} : escaped' = escaped + k /\ k = Here(verifying[v].at, {"count", "set_lock"})
  BY NumbersAre DEF MfaHangUp, Uncounted, Here
<1>5. /\ 0 + Here(r.at, {"lock", "check", "count"}) <= 0 + Here(verifying[v].at, {"lock", "check", "count"})
      /\ 0 + Here(r.at, {"lock", "check"}) <= 0 + Here(verifying[v].at, {"lock", "check"})
      /\ 0 + Here(r.at, {"usage", "load", "record"}) <= 0 + Here(verifying[v].at, {"usage", "load", "record"})
      /\ 0 + 0 + Here(r.at, {"check"}) <= 0 + k + Here(verifying[v].at, {"check"})
  BY <1>2 DEF Here
<1>6. 0 + 0 + Here(verifying[v].at, {"count", "set_lock"})
        <= Here(r.at, {"count", "set_lock"}) + 0 + k + (IF failed + 0 < MaxTotpAttempts THEN 0 ELSE 0)
  BY <1>2, <1>4 DEF Here
<1>7. MfaShape' /\ NoListWithoutEnrolment' /\ CallsAccount' /\ GuessesOff' /\ GuessesOn'
  <2>1. /\ failed' = failed + 0 /\ guesses' = guesses + 0 /\ usage' \in {0, usage + 0} /\ mfaCalls' = mfaCalls + 0
        /\ mfaFaults' = mfaFaults + 0 /\ UNCHANGED <<durable, enrolled>> /\ LockStays
    BY <1>3, NumbersAre DEF LockStays
  <2>2. codes' \in SUBSET BackupCodes /\ (enrolled \/ codes' = {}) /\ accepted' \in [BackupCodes -> Nat]
    BY <1>3 DEF ManagerInv, MfaShape, NoListWithoutEnrolment
  <2> QED
    BY <1>2, <1>4, <1>5, <1>6, <2>1, <2>2, NumbersAre, OneMoves
<1>8. TakenFromList' /\ OneHolder' /\ AcceptedGone'
  BY <1>2, <1>3, ListsStay
<1>9. AbuseLocksKey'
  BY <1>3, AbuseStays
<1> QED
  BY <1>7, <1>8, <1>9 DEF ManagerInv

\* A new request about the user.
LEMMA RequestComes ==
    ASSUME ManagerInv, NEW v \in Verifiers, NEW at \in {"lock", "usage"}, NEW right \in BOOLEAN,
           NEW code \in BackupCodes \cup {"guess", "none"}, Asks(v, at, right, code),
           UNCHANGED <<durable, enrolled, codes, failed, locked, usage, mfaFaults, keyLocked,
                       guesses, accepted, overlapped, escaped>>
    PROVE  ManagerInv'
<1>1. verifying[v].at = "idle" /\ mfaCalls < MaxMfaCalls /\ mfaCalls' = mfaCalls + 1
  BY DEF Asks
<1>2. PICK r : r = [NoRequest EXCEPT !.at = at, !.right = right, !.code = code]
  OBVIOUS
<1>3. r \in MfaRequest /\ r.at = at
  BY <1>2 DEF NoRequest, MfaRequest, MfaSteps
<1>4. verifying' = [verifying EXCEPT ![v] = r]
  BY <1>2 DEF Asks
<1>5. /\ 0 + Here(r.at, {"lock", "check", "count"}) <= 1 + Here(verifying[v].at, {"lock", "check", "count"})
      /\ 0 + Here(r.at, {"lock", "check"}) <= 1 + Here(verifying[v].at, {"lock", "check"})
      /\ 0 + Here(r.at, {"usage", "load", "record"}) <= 1 + Here(verifying[v].at, {"usage", "load", "record"})
      /\ 0 + 0 + Here(verifying[v].at, {"count", "set_lock"})
           <= Here(r.at, {"count", "set_lock"}) + 0 + 0 + (IF failed + 0 < MaxTotpAttempts THEN 0 ELSE 0)
      /\ 0 + 0 + Here(r.at, {"check"}) <= 0 + 0 + Here(verifying[v].at, {"check"})
  BY <1>1, <1>3 DEF Here
<1>6. MfaShape' /\ NoListWithoutEnrolment' /\ CallsAccount' /\ GuessesOff' /\ GuessesOn'
  <2>1. /\ failed' = failed + 0 /\ guesses' = guesses + 0 /\ usage' \in {0, usage + 0}
        /\ mfaCalls + 1 \in 0..MaxMfaCalls /\ escaped' = escaped + 0
        /\ mfaFaults' = mfaFaults + 0 /\ UNCHANGED <<durable, enrolled>> /\ LockStays
    BY <1>1, NumbersAre, MfaAssumption DEF LockStays
  <2>2. codes' \in SUBSET BackupCodes /\ (enrolled \/ codes' = {}) /\ accepted' \in [BackupCodes -> Nat]
    BY DEF ManagerInv, MfaShape, NoListWithoutEnrolment
  <2> QED
    BY <1>1, <1>3, <1>4, <1>5, <2>1, <2>2, NumbersAre, OneMoves
<1>7. TakenFromList' /\ OneHolder' /\ AcceptedGone'
  <2>1. r.at # "save"
    BY <1>3
  <2> QED
    BY <1>3, <1>4, <2>1, ListsStay
<1>8. AbuseLocksKey'
  BY AbuseStays
<1> QED
  BY <1>6, <1>7, <1>8 DEF ManagerInv

\* A request takes hold of the list its code is on.
LEMMA ListIsRead ==
    ASSUME ManagerInv, NEW v \in Verifiers, In(v, "load"), Works, enrolled, verifying[v].code \in codes,
           verifying' = [verifying EXCEPT ![v].at = "save", ![v].list = codes],
           overlapped' = (overlapped \/ Holding # {}),
           UNCHANGED <<durable, enrolled, codes, failed, locked, usage, mfaCalls, keyLocked, guesses,
                       accepted, escaped>>
    PROVE  ManagerInv'
<1>1. PICK q \in MfaRequest : q = verifying[v]
  BY DEF ManagerInv, MfaShape
<1>2. PICK r : r = [q EXCEPT !.at = "save", !.list = codes]
  OBVIOUS
<1>3. r \in MfaRequest /\ r.at = "save" /\ r.code = q.code /\ r.list = codes
  BY <1>2 DEF MfaRequest, MfaSteps, ManagerInv, MfaShape
<1>4. verifying' = [verifying EXCEPT ![v] = r]
  BY <1>1, <1>2 DEF ManagerInv, MfaShape
<1>5. mfaFaults' = mfaFaults + 0 /\ mfaFaults' = mfaFaults
  BY NumbersAre DEF Works
<1>6. /\ 0 + Here(r.at, {"lock", "check", "count"}) <= 0 + Here(verifying[v].at, {"lock", "check", "count"})
      /\ 0 + Here(r.at, {"lock", "check"}) <= 0 + Here(verifying[v].at, {"lock", "check"})
      /\ 0 + Here(r.at, {"usage", "load", "record"}) <= 0 + Here(verifying[v].at, {"usage", "load", "record"})
      /\ 0 + 0 + Here(verifying[v].at, {"count", "set_lock"})
           <= Here(r.at, {"count", "set_lock"}) + 0 + 0 + (IF failed + 0 < MaxTotpAttempts THEN 0 ELSE 0)
      /\ 0 + 0 + Here(r.at, {"check"}) <= 0 + 0 + Here(verifying[v].at, {"check"})
  BY <1>3 DEF Here, In
<1>7. MfaShape' /\ NoListWithoutEnrolment' /\ CallsAccount' /\ GuessesOff' /\ GuessesOn'
  <2>1. /\ failed' = failed + 0 /\ guesses' = guesses + 0 /\ usage' \in {0, usage + 0} /\ mfaCalls' = mfaCalls + 0
        /\ escaped' = escaped + 0 /\ UNCHANGED <<durable, enrolled>> /\ LockStays
    BY NumbersAre DEF LockStays
  <2>2. codes' \in SUBSET BackupCodes /\ (enrolled \/ codes' = {}) /\ accepted' \in [BackupCodes -> Nat]
    BY DEF ManagerInv, MfaShape, NoListWithoutEnrolment
  <2> QED
    BY <1>3, <1>4, <1>5, <1>6, <2>1, <2>2, NumbersAre, OneMoves
<1>8. verifying'[v] = r /\ \A u \in Verifiers \ {v} : verifying'[u] = verifying[u]
  BY <1>3, <1>4, CountsMove DEF ManagerInv, MfaShape
<1>9. TakenFromList'
  BY <1>1, <1>3, <1>8 DEF ManagerInv, TakenFromList, In
<1>10. Alone' => Alone /\ \A u \in Verifiers : ~In(u, "save")
  BY <1>5, Zenon DEF Alone, Holding
<1>11. OneHolder'
  BY <1>8, <1>10, Zenon DEF OneHolder, In
<1>12. AcceptedGone'
  BY <1>3, <1>8, <1>10 DEF ManagerInv, AcceptedGone, In
<1>13. AbuseLocksKey'
  BY AbuseStays
<1> QED
  BY <1>7, <1>9, <1>11, <1>12, <1>13 DEF ManagerInv

\* The look at the list.
LEMMA LookAtList ==
    ASSUME ManagerInv, NEW v \in Verifiers, load_backup_codes(v)
    PROVE  ManagerInv'
<1>1. In(v, "load") /\ "record" \in MfaSteps
  BY DEF load_backup_codes, MfaSteps
<1>2. CASE Verifying(v, "record") /\ UNCHANGED overlapped /\ (Works \/ Fails)
  <2>1. QuietQuery
    BY <1>2 DEF load_backup_codes, QuietQuery
  <2> QED
    BY <1>1, <1>2, <2>1, QuietVerifying
<1>3. CASE /\ Works /\ enrolled /\ verifying[v].code \in codes
           /\ verifying' = [verifying EXCEPT ![v].at = "save", ![v].list = codes]
           /\ overlapped' = (overlapped \/ Holding # {})
  <2>1. UNCHANGED <<durable, enrolled, codes, failed, locked, usage, mfaCalls, keyLocked, guesses,
                    accepted, escaped>>
    BY DEF load_backup_codes
  <2> QED
    BY <1>1, <1>3, <2>1, ListIsRead
<1> QED
  BY <1>2, <1>3, Zenon DEF load_backup_codes

\* The code is taken out of the list that was read, and the list is written.
LEMMA ListIsWritten ==
    ASSUME ManagerInv, NEW v \in Verifiers, save_backup_codes(v)
    PROVE  ManagerInv'
<1>1. In(v, "save") /\ "reset" \in MfaSteps
  BY DEF save_backup_codes, MfaSteps
<1>2. PICK q \in MfaRequest : q = verifying[v]
  BY DEF ManagerInv, MfaShape
<1>3. PICK r \in MfaRequest : r.at = "reset" /\ verifying' = [verifying EXCEPT ![v] = r]
  BY <1>1, VerifyingIs DEF ManagerInv, MfaShape, save_backup_codes
<1>4. PICK l \in {0, 1} : mfaFaults' = mfaFaults + l
  BY FaultsAre DEF ManagerInv, MfaShape, save_backup_codes
<1>5. enrolled /\ q.code \in q.list /\ q.list \in SUBSET BackupCodes /\ q.code \in BackupCodes
  BY <1>1, <1>2 DEF ManagerInv, TakenFromList, MfaRequest
<1>6. codes' \in {codes, q.list \ {q.code}} /\ (mfaFaults' = 0 => mfaFaults = 0 /\ codes' = q.list \ {q.code})
  BY <1>2, FaultsAre, NumbersAre DEF ManagerInv, MfaShape, save_backup_codes, Dropped, Fails
<1>7. UNCHANGED <<durable, enrolled, failed, locked, usage, mfaCalls, keyLocked, guesses, overlapped, escaped>>
  BY DEF save_backup_codes
<1>8. accepted' = [accepted EXCEPT ![q.code] = @ + 1] /\ accepted \in [BackupCodes -> Nat]
  BY <1>2 DEF save_backup_codes, ManagerInv, MfaShape
<1>9. verifying'[v] = r /\ \A u \in Verifiers \ {v} : verifying'[u] = verifying[u]
  BY <1>3, CountsMove DEF ManagerInv, MfaShape
<1>10. /\ 0 + Here(r.at, {"lock", "check", "count"}) <= 0 + Here(verifying[v].at, {"lock", "check", "count"})
       /\ 0 + Here(r.at, {"lock", "check"}) <= 0 + Here(verifying[v].at, {"lock", "check"})
       /\ 0 + Here(r.at, {"usage", "load", "record"}) <= 0 + Here(verifying[v].at, {"usage", "load", "record"})
       /\ 0 + 0 + Here(verifying[v].at, {"count", "set_lock"})
            <= Here(r.at, {"count", "set_lock"}) + l + 0 + (IF failed + 0 < MaxTotpAttempts THEN 0 ELSE 0)
       /\ 0 + 0 + Here(r.at, {"check"}) <= l + 0 + Here(verifying[v].at, {"check"})
  BY <1>1, <1>3 DEF Here, In
<1>11. MfaShape' /\ NoListWithoutEnrolment' /\ CallsAccount' /\ GuessesOff' /\ GuessesOn'
  <2>1. /\ failed' = failed + 0 /\ guesses' = guesses + 0 /\ usage' \in {0, usage + 0} /\ mfaCalls' = mfaCalls + 0
        /\ escaped' = escaped + 0 /\ UNCHANGED <<durable, enrolled>> /\ LockStays
    BY <1>7, NumbersAre DEF LockStays
  <2>2. codes' \in SUBSET BackupCodes
    BY <1>5, <1>6 DEF ManagerInv, MfaShape
  <2>3. accepted' \in [BackupCodes -> Nat]
    BY <1>5, <1>8
  <2> QED
    BY <1>3, <1>4, <1>5, <1>10, <2>1, <2>2, <2>3, NumbersAre, OneMoves
<1>12. \A u \in Verifiers : In(u, "save")' => In(u, "save") /\ u # v /\ verifying'[u] = verifying[u]
  BY <1>3, <1>9 DEF In
<1>13. TakenFromList'
  BY <1>7, <1>12 DEF ManagerInv, TakenFromList
<1>14. Alone' => Alone
  BY <1>6, <1>7, Zenon DEF Alone
<1>15. OneHolder'
  BY <1>12, <1>14, Zenon DEF ManagerInv, OneHolder
<1>16. AcceptedGone'
  <2>1. SUFFICES ASSUME Alone', NEW c \in BackupCodes
                 PROVE  /\ accepted'[c] <= 1
                        /\ accepted'[c] > 0 => c \notin codes' /\ \A u \in Verifiers : In(u, "save")' => c \notin verifying'[u].list
    BY Zenon DEF AcceptedGone
  <2>2. \A u \in Verifiers : ~In(u, "save")'
    BY <1>1, <1>12, <1>14, <2>1, Zenon DEF ManagerInv, OneHolder
  <2>3. codes' = q.list \ {q.code}
    BY <1>6, <2>1, Zenon DEF Alone
  <2>4. accepted[c] <= 1 /\ (accepted[c] > 0 => c \notin q.list)
    BY <1>1, <1>2, <1>14, <2>1 DEF ManagerInv, AcceptedGone
  <2>5. CASE c = q.code
    BY <1>5, <1>8, <2>2, <2>3, <2>4, <2>5
  <2>6. CASE c # q.code
    BY <1>8, <2>2, <2>3, <2>4, <2>6
  <2> QED
    BY <2>5, <2>6
<1>17. AbuseLocksKey'
  BY <1>7, AbuseStays
<1> QED
  BY <1>11, <1>13, <1>15, <1>16, <1>17 DEF ManagerInv

\* What is looked at from here on counts from nothing.
LEMMA GuessesStartOver ==
    ASSUME MfaShape', guesses' = 0, locked' => Checking' <= Cardinality(Verifiers) - 1
    PROVE  GuessesOff' /\ GuessesOn'
<1>1. verifying' \in [Verifiers -> MfaRequest] /\ failed' \in Nat /\ escaped' \in Nat /\ mfaFaults' \in Nat
  BY DEF MfaShape
<1>2. /\ Pending' \in Nat /\ Checking' \in Nat /\ Cardinality(Verifiers) \in Nat
  <2>1. \A S \in SUBSET Verifiers : IsFiniteSet(S) /\ Cardinality(S) \in Nat
    BY MfaAssumption, FS_Subset, FS_CardinalityType
  <2> QED
    BY <2>1 DEF Pending, Checking, CountAt
<1>3. PICK p \in Nat, x \in Nat, n \in Nat : p = Pending' /\ x = Checking' /\ n = Cardinality(Verifiers)
  BY <1>2
<1>4. PICK l \in Nat : l = Lost'
  <2>1. PICK i \in Nat, j \in Nat : i = escaped' /\ j = mfaFaults'
    BY <1>1
  <2>2. Lost' = i + j
    BY <2>1 DEF Lost
  <2> QED
    BY <2>2
<1>5. PICK m \in Nat \ {0} : m = MaxTotpAttempts
  BY MfaAssumption
<1>6. PICK d \in Nat : d = CountedFails'
  <2>1. CountedFails' \in Nat
    BY <1>1, MfaAssumption DEF CountedFails
  <2> QED
    BY <2>1
<1>7. 0 <= d + p + l
  OBVIOUS
<1>8. x <= n - 1 => 0 + x <= m + (n - 1) + l
  OBVIOUS
<1>9. GuessesOff'
  BY <1>3, <1>4, <1>6, <1>7, Zenon DEF GuessesOff
<1>10. GuessesOn'
  BY <1>3, <1>4, <1>5, <1>8, Zenon DEF GuessesOn
<1> QED
  BY <1>9, <1>10

\* A right TOTP code clears the counts, and lifts the lock of a row.
LEMMA FailuresClear ==
    ASSUME ManagerInv, NEW v \in Verifiers, clear_failed_attempts(v)
    PROVE  ManagerInv'
<1>1. In(v, "clear") /\ Answered(v)
  BY DEF clear_failed_attempts
<1>2. CASE Fails /\ UNCHANGED <<failed, usage, guesses, locked>>
  <2>1. QuietQuery
    BY <1>2 DEF clear_failed_attempts, QuietQuery
  <2> QED
    BY <1>1, <2>1, QuietAnswer
<1>3. CASE Works /\ failed' = 0 /\ usage' = 0 /\ guesses' = 0
  <2>1. PICK r \in MfaRequest : r.at = "idle" /\ verifying' = [verifying EXCEPT ![v] = r]
    BY <1>1, AnsweredIs
  <2>2. mfaFaults' = mfaFaults
    BY <1>3 DEF Works
  <2>3. UNCHANGED <<durable, enrolled, codes, mfaCalls, keyLocked, accepted, overlapped, escaped>>
    BY DEF clear_failed_attempts
  <2>4. /\ 0 + Here(r.at, {"lock", "check", "count"}) <= 0 + Here(verifying[v].at, {"lock", "check", "count"})
        /\ 0 + Here(r.at, {"lock", "check"}) <= 0 + Here(verifying[v].at, {"lock", "check"})
        /\ 0 + Here(r.at, {"usage", "load", "record"}) <= 0 + Here(verifying[v].at, {"usage", "load", "record"})
    BY <1>1, <2>1 DEF Here, In
  <2>5. MfaShape' /\ CallsAccount'
    <3>1. /\ codes' \in SUBSET BackupCodes /\ accepted' \in [BackupCodes -> Nat]
          /\ mfaFaults' \in {mfaFaults, mfaFaults + 1} /\ escaped' \in {escaped, escaped + 1}
      BY <2>2, <2>3 DEF ManagerInv, MfaShape
    <3>2. /\ failed' \in {0, failed + 0} /\ guesses' \in {0, guesses + 0} /\ usage' \in {0, usage + 0}
          /\ mfaCalls' = mfaCalls + 0
      BY <1>3, <2>3, NumbersAre
    <3> QED
      BY <2>1, <2>4, <3>1, <3>2, NumbersAre, CallsMove
  <2>6. Checking' <= Cardinality(Verifiers) - 1
    <3>1. verifying \in [Verifiers -> MfaRequest]
      BY DEF ManagerInv, MfaShape
    <3>2. Checking \in Nat /\ Checking <= Cardinality(Verifiers) - 1
      BY <1>1, <3>1, CountsAre DEF In
    <3>3. Checking' = Checking - Here(verifying[v].at, {"check"}) + Here(r.at, {"check"})
      BY <2>1, <3>1, CountsMove
    <3>4. Here(verifying[v].at, {"check"}) = 0 /\ Here(r.at, {"check"}) = 0
      BY <1>1, <2>1 DEF In, Here
    <3>5. Checking' = Checking
      BY <3>2, <3>3, <3>4
    <3> QED
      BY <3>2, <3>5
  <2>7. GuessesOff' /\ GuessesOn'
    BY <1>3, <2>5, <2>6, GuessesStartOver
  <2>8. NoListWithoutEnrolment'
    BY <2>3 DEF ManagerInv, NoListWithoutEnrolment
  <2>9. TakenFromList' /\ OneHolder' /\ AcceptedGone'
    BY <2>1, <2>2, <2>3, ListsStay
  <2>10. AbuseLocksKey'
    BY <1>3, <2>3, AbuseStays
  <2> QED
    BY <2>5, <2>7, <2>8, <2>9, <2>10 DEF ManagerInv
<1> QED
  BY <1>2, <1>3, Zenon DEF clear_failed_attempts

\* The lock is set: who may still look at a wrong code has passed it before.
LEMMA LockCloses ==
    ASSUME ManagerInv, locked', guesses' = guesses, Checking' = Checking, Lost' = Lost
    PROVE  GuessesOff' /\ GuessesOn'
<1>1. verifying \in [Verifiers -> MfaRequest] /\ failed \in Nat /\ guesses \in Nat /\ escaped \in Nat /\ mfaFaults \in Nat
  BY DEF ManagerInv, MfaShape
<1>2. PICK p \in Nat, x \in Nat, n \in Nat : p = Pending /\ x = Checking /\ n = Cardinality(Verifiers) /\ x + p <= n
  <2>1. Pending \in Nat /\ Checking \in Nat /\ Cardinality(Verifiers) \in Nat /\ Checking + Pending <= Cardinality(Verifiers)
    BY <1>1, CountsAre
  <2> QED
    BY <2>1
<1>3. PICK l \in Nat : l = Lost
  <2>1. Lost \in Nat
    BY <1>1 DEF Lost
  <2> QED
    BY <2>1
<1>4. PICK m \in Nat \ {0} : m = MaxTotpAttempts
  BY MfaAssumption
<1>5. PICK d \in Nat : d = CountedFails /\ d <= m - 1
  <2>1. CountedFails \in Nat /\ CountedFails <= m - 1
    BY <1>1, <1>4 DEF CountedFails
  <2> QED
    BY <2>1
<1>6. PICK g \in Nat : g = guesses
  BY <1>1
<1>7. g <= d + p + l => g + x <= m + (n - 1) + l
  BY <1>2, <1>5
<1>8. g + x <= m + (n - 1) + l
  BY <1>2, <1>3, <1>4, <1>5, <1>6, <1>7, Zenon DEF ManagerInv, GuessesOff, GuessesOn
<1>9. GuessesOff'
  BY Zenon DEF GuessesOff
<1>10. GuessesOn'
  BY <1>2, <1>3, <1>4, <1>6, <1>8, Zenon DEF GuessesOn
<1> QED
  BY <1>9, <1>10

\* The attempt at the limit sets the lock and locks the API key.
LEMMA LockIsSet ==
    ASSUME ManagerInv, NEW v \in Verifiers, set_lock(v)
    PROVE  ManagerInv'
<1>1. In(v, "set_lock") /\ Answered(v) /\ keyLocked'
  BY DEF set_lock
<1>2. PICK r \in MfaRequest : r.at = "idle" /\ verifying' = [verifying EXCEPT ![v] = r]
  BY <1>1, AnsweredIs
<1>3. UNCHANGED <<durable, enrolled, codes, failed, usage, mfaCalls, guesses, accepted, overlapped, escaped>>
  BY DEF set_lock
<1>4. /\ 0 + Here(r.at, {"lock", "check", "count"}) <= 0 + Here(verifying[v].at, {"lock", "check", "count"})
      /\ 0 + Here(r.at, {"lock", "check"}) <= 0 + Here(verifying[v].at, {"lock", "check"})
      /\ 0 + Here(r.at, {"usage", "load", "record"}) <= 0 + Here(verifying[v].at, {"usage", "load", "record"})
      /\ Here(verifying[v].at, {"check"}) = 0 /\ Here(r.at, {"check"}) = 0
      /\ Here(verifying[v].at, {"count", "set_lock"}) = 1 /\ Here(r.at, {"count", "set_lock"}) = 0
  BY <1>1, <1>2 DEF Here, In
<1>5. codes' \in SUBSET BackupCodes /\ (enrolled \/ codes' = {}) /\ accepted' \in [BackupCodes -> Nat]
  BY <1>3 DEF ManagerInv, MfaShape, NoListWithoutEnrolment
<1>6. /\ failed' = failed + 0 /\ guesses' = guesses + 0 /\ usage' \in {0, usage + 0} /\ mfaCalls' = mfaCalls + 0
      /\ escaped' = escaped + 0 /\ UNCHANGED <<durable, enrolled>>
  BY <1>3, NumbersAre
<1>7. MfaShape' /\ NoListWithoutEnrolment' /\ CallsAccount' /\ GuessesOff' /\ GuessesOn'
  <2>1. CASE Works /\ locked' = TRUE
    <3>1. mfaFaults' = mfaFaults
      BY <2>1 DEF Works
    <3>2. MfaShape' /\ CallsAccount'
      <4>1. /\ mfaFaults' \in {mfaFaults, mfaFaults + 1} /\ escaped' \in {escaped, escaped + 1}
            /\ failed' \in {0, failed + 0} /\ guesses' \in {0, guesses + 0}
        BY <1>3, <3>1, NumbersAre
      <4> QED
        BY <1>2, <1>4, <1>5, <1>6, <4>1, NumbersAre, CallsMove
    <3>3. Checking' = Checking
      <4>1. Checking \in Nat /\ Checking' = Checking - Here(verifying[v].at, {"check"}) + Here(r.at, {"check"})
        BY <1>2, CountsAre, CountsMove DEF ManagerInv, MfaShape
      <4> QED
        BY <1>4, <4>1
    <3>4. Lost' = Lost
      BY <1>3, <3>1 DEF Lost
    <3>5. GuessesOff' /\ GuessesOn'
      BY <1>3, <2>1, <3>3, <3>4, LockCloses
    <3>6. NoListWithoutEnrolment'
      BY <1>3 DEF ManagerInv, NoListWithoutEnrolment
    <3> QED
      BY <3>2, <3>5, <3>6
  <2>2. CASE Fails /\ UNCHANGED locked
    <3>1. mfaFaults' = mfaFaults + 1 /\ LockStays
      BY <2>2 DEF Fails, LockStays
    <3>2. /\ 0 + 0 + Here(verifying[v].at, {"count", "set_lock"})
               <= Here(r.at, {"count", "set_lock"}) + 1 + 0 + (IF failed + 0 < MaxTotpAttempts THEN 0 ELSE 0)
          /\ 0 + 0 + Here(r.at, {"check"}) <= 1 + 0 + Here(verifying[v].at, {"check"})
      BY <1>4
    <3> QED
      BY <1>2, <1>4, <1>5, <1>6, <3>1, <3>2, NumbersAre, OneMoves
  <2> QED
    BY <2>1, <2>2, Zenon DEF set_lock
<1>8. TakenFromList' /\ OneHolder' /\ AcceptedGone'
  <2>1. mfaFaults' = 0 => mfaFaults = 0
    BY FaultsGrow DEF ManagerInv, set_lock
  <2> QED
    BY <1>2, <1>3, <2>1, ListsStay
<1>9. AbuseLocksKey'
  BY <1>1, <1>3, AbuseStays
<1> QED
  BY <1>7, <1>8, <1>9 DEF ManagerInv

\* The room that is left only grows.
LEMMA StaysUnder ==
    ASSUME NEW i \in Nat, NEW j \in Nat, NEW o \in Nat, NEW m \in Nat, NEW n \in Nat, i <= j, j + o <= m, m <= n
    PROVE  i + o <= n
  OBVIOUS

\* No request moves: what was accounted for stays so.
LEMMA CallsStay ==
    ASSUME ManagerInv, verifying' = verifying, failed' \in {0, failed}, guesses' \in {0, guesses}, usage' = usage,
           mfaCalls' \in Nat, mfaCalls <= mfaCalls'
    PROVE  CallsAccount'
<1>1. FailsAhead' = FailsAhead /\ LooksAhead' = LooksAhead /\ UsesAhead' = UsesAhead
  BY DEF FailsAhead, LooksAhead, UsesAhead, CountAt
<1>2. PICK a \in Nat, b \in Nat, c \in Nat : a = FailsAhead /\ b = LooksAhead /\ c = UsesAhead
  <2>1. FailsAhead \in Nat /\ LooksAhead \in Nat /\ UsesAhead \in Nat
    BY CountsAre DEF ManagerInv, MfaShape
  <2> QED
    BY <2>1
<1>3. PICK m \in Nat, n \in Nat : m = mfaCalls /\ n = mfaCalls' /\ m <= n
  BY NumbersAre
<1>4. PICK f \in Nat, g \in Nat, u \in Nat : f = failed /\ g = guesses /\ u = usage
  BY NumbersAre
<1>5. f + a <= m /\ g + b <= m /\ u + c <= m
  BY <1>2, <1>3, <1>4 DEF ManagerInv, CallsAccount
<1>6. PICK h \in Nat, k \in Nat : h = failed' /\ k = guesses' /\ h <= f /\ k <= g
  BY <1>4
<1>7. h + a <= n /\ k + b <= n /\ u + c <= n
  <2>1. h + a <= n
    BY <1>3, <1>5, <1>6, StaysUnder
  <2>2. k + b <= n
    BY <1>3, <1>5, <1>6, StaysUnder
  <2>3. u + c <= n
    BY <1>3, <1>5, StaysUnder
  <2> QED
    BY <2>1, <2>2, <2>3
<1>8. failed' + FailsAhead' <= mfaCalls' /\ guesses' + LooksAhead' <= mfaCalls' /\ usage' + UsesAhead' <= mfaCalls'
  BY <1>1, <1>2, <1>3, <1>4, <1>6, <1>7
<1> QED
  BY <1>8 DEF CallsAccount

\* No request moves and the lock stays: only the faults may have grown.
LEMMA GuessesKept ==
    ASSUME ManagerInv, verifying' = verifying, UNCHANGED <<failed, locked, guesses, escaped>>,
           NEW l \in {0, 1}, mfaFaults' = mfaFaults + l
    PROVE  GuessesOff' /\ GuessesOn'
<1>1. Pending' = Pending /\ Checking' = Checking /\ CountedFails' = CountedFails
  BY DEF Pending, Checking, CountAt, CountedFails
<1>2. PICK p \in Nat, x \in Nat : p = Pending /\ x = Checking
  <2>1. Pending \in Nat /\ Checking \in Nat
    BY CountsAre DEF ManagerInv, MfaShape
  <2> QED
    BY <2>1
<1>3. PICK d \in Int : d = CountedFails
  <2>1. CountedFails \in Int
    BY NumbersAre DEF CountedFails
  <2> QED
    BY <2>1
<1>4. PICK b \in Nat, e \in Nat : b = Lost /\ e = Lost' /\ e = b + l
  <2>1. PICK i \in Nat, j \in Nat : i = escaped /\ j = mfaFaults
    BY NumbersAre
  <2>2. Lost = i + j /\ Lost' = i + (j + l)
    BY <2>1 DEF Lost
  <2> QED
    BY <2>2
<1>5. PICK g \in Nat : g = guesses
  BY NumbersAre
<1>6. g - g <= (d - d) + (p - p) + (e - b) /\ (g + x) - (g + x) <= e - b
  BY <1>4
<1>7. OffKept /\ OnKept
  BY <1>1, <1>2, <1>3, <1>4, <1>5, <1>6 DEF OffKept, OnKept
<1>8. /\ guesses' \in Int /\ CountedFails' \in Int /\ Pending' \in Int /\ Lost' \in Int /\ Checking' \in Int
      /\ CountedFails \in Int /\ Pending \in Int /\ Lost \in Int /\ Checking \in Int
  BY <1>1, <1>2, <1>3, <1>4, <1>5
<1> QED
  BY <1>7, <1>8, GuessesStay DEF LockStays

\* A new enrolment hands out new codes.
LEMMA Enrols ==
    ASSUME ManagerInv, store_totp_config
    PROVE  ManagerInv'
<1>1. /\ UNCHANGED <<durable, failed, locked, usage, verifying, keyLocked, guesses, overlapped, escaped>>
      /\ mfaCalls < MaxMfaCalls /\ mfaCalls' = mfaCalls + 1
  BY DEF store_totp_config
<1>2. PICK l \in {0, 1} : mfaFaults' = mfaFaults + l
  BY FaultsAre DEF ManagerInv, store_totp_config
<1>3. \/ enrolled' = TRUE /\ codes' = BackupCodes /\ accepted' = [c \in BackupCodes |-> 0]
      \/ UNCHANGED <<enrolled, codes, accepted>> /\ mfaFaults' # 0
  BY NumbersAre DEF store_totp_config, Fails
<1>4. MfaShape'
  <2>1. mfaCalls' \in 0..MaxMfaCalls /\ mfaFaults' \in Nat
    BY <1>1, <1>2, NumbersAre, MfaAssumption
  <2>2. codes' \in SUBSET BackupCodes /\ accepted' \in [BackupCodes -> Nat]
    BY <1>3 DEF ManagerInv, MfaShape
  <2> QED
    BY <1>1, <2>1, <2>2 DEF ManagerInv, MfaShape
<1>5. NoListWithoutEnrolment'
  BY <1>3 DEF ManagerInv, NoListWithoutEnrolment
<1>6. CallsAccount'
  <2>1. mfaCalls' \in Nat /\ mfaCalls <= mfaCalls'
    BY <1>1, NumbersAre
  <2> QED
    BY <1>1, <2>1, CallsStay
<1>7. GuessesOff' /\ GuessesOn'
  BY <1>1, <1>2, GuessesKept
<1>8. \A u \in Verifiers : In(u, "save")' = In(u, "save") /\ verifying'[u] = verifying[u]
  BY <1>1 DEF In
<1>9. Alone' => Alone
  <2>1. mfaFaults' = 0 => mfaFaults = 0
    BY <1>2, NumbersAre
  <2> QED
    BY <1>1, <2>1, Zenon DEF Alone
<1>10. TakenFromList'
  BY <1>3, <1>8 DEF ManagerInv, TakenFromList
<1>11. OneHolder'
  BY <1>8, <1>9 DEF ManagerInv, OneHolder
<1>12. AcceptedGone'
  <2>1. CASE accepted' = [c \in BackupCodes |-> 0]
    BY <2>1 DEF AcceptedGone
  <2>2. CASE UNCHANGED <<enrolled, codes, accepted>> /\ mfaFaults' # 0
    <3>1. ~Alone'
      BY <2>2, Zenon DEF Alone
    <3> QED
      BY <3>1, Zenon DEF AcceptedGone
  <2> QED
    BY <1>3, <2>1, <2>2
<1>13. AbuseLocksKey'
  BY <1>1, AbuseStays
<1> QED
  BY <1>4, <1>5, <1>6, <1>7, <1>10, <1>11, <1>12, <1>13 DEF ManagerInv

\* The lock is over.
LEMMA LockLapses ==
    ASSUME ManagerInv, LockoutLapses
    PROVE  ManagerInv'
<1>1. /\ UNCHANGED <<durable, enrolled, codes, failed, usage, verifying, mfaCalls, mfaFaults,
                     keyLocked, accepted, overlapped, escaped>>
      /\ ~locked' /\ guesses' = 0
  BY DEF LockoutLapses
<1>2. MfaShape' /\ NoListWithoutEnrolment'
  BY <1>1 DEF ManagerInv, MfaShape, NoListWithoutEnrolment
<1>3. CallsAccount'
  <2>1. mfaCalls' \in Nat /\ mfaCalls <= mfaCalls'
    BY <1>1, NumbersAre
  <2> QED
    BY <1>1, <2>1, CallsStay
<1>4. GuessesOff' /\ GuessesOn'
  BY <1>1, <1>2, GuessesStartOver
<1>5. \A u \in Verifiers : In(u, "save")' = In(u, "save") /\ verifying'[u] = verifying[u]
  BY <1>1 DEF In
<1>6. Alone' = Alone
  BY <1>1 DEF Alone
<1>7. TakenFromList' /\ OneHolder' /\ AcceptedGone'
  BY <1>1, <1>5, <1>6 DEF ManagerInv, TakenFromList, OneHolder, AcceptedGone
<1>8. AbuseLocksKey'
  BY <1>1, AbuseStays
<1> QED
  BY <1>2, <1>3, <1>4, <1>7, <1>8 DEF ManagerInv

\* Nobody is at a step nobody takes.
LEMMA NobodyThere ==
    ASSUME NEW held, NEW steps, \A v \in Verifiers : held[v].at \notin steps
    PROVE  CountAt(held, steps) = 0
<1>1. {v \in Verifiers : held[v].at \in steps} = {}
  OBVIOUS
<1>2. Cardinality({}) = 0
  BY FS_EmptySet
<1> QED
  BY <1>1, <1>2 DEF CountAt

\* Without a request nothing is counted that may come, and no list is held.
LEMMA NoRequests ==
    ASSUME verifying = [v \in Verifiers |-> NoRequest]
    PROVE  /\ verifying \in [Verifiers -> MfaRequest]
           /\ FailsAhead = 0 /\ LooksAhead = 0 /\ UsesAhead = 0 /\ Pending = 0 /\ Checking = 0
           /\ \A v \in Verifiers : ~In(v, "save")
<1>1. \A v \in Verifiers : verifying[v].at = "idle"
  BY DEF NoRequest
<1>2. verifying \in [Verifiers -> MfaRequest]
  BY DEF NoRequest, MfaRequest, MfaSteps
<1>3. FailsAhead = 0
  BY <1>1, NobodyThere DEF FailsAhead
<1>4. LooksAhead = 0
  BY <1>1, NobodyThere DEF LooksAhead
<1>5. UsesAhead = 0
  BY <1>1, NobodyThere DEF UsesAhead
<1>6. Pending = 0
  BY <1>1, NobodyThere DEF Pending
<1>7. Checking = 0
  BY <1>1, NobodyThere DEF Checking
<1> QED
  BY <1>1, <1>2, <1>3, <1>4, <1>5, <1>6, <1>7 DEF In

\* The empty manager.
LEMMA ManagerInitial ==
    ASSUME MfaInit
    PROVE  ManagerInv
<1>1. /\ enrolled = FALSE /\ codes = {} /\ failed = 0 /\ locked = FALSE /\ usage = 0
      /\ mfaCalls = 0 /\ mfaFaults = 0 /\ guesses = 0 /\ accepted = [c \in BackupCodes |-> 0] /\ escaped = 0
      /\ verifying = [v \in Verifiers |-> NoRequest]
  BY DEF MfaInit
<1>2. MfaShape
  BY <1>1, NoRequests, MfaAssumption DEF MfaShape
<1>3. NoListWithoutEnrolment
  BY <1>1 DEF NoListWithoutEnrolment
<1>4. CallsAccount
  BY <1>1, NoRequests DEF CallsAccount
<1>5. GuessesOff
  BY <1>1, NoRequests, MfaAssumption DEF GuessesOff, CountedFails, Lost
<1>6. GuessesOn
  BY <1>1 DEF GuessesOn
<1>7. TakenFromList /\ OneHolder /\ AcceptedGone
  BY <1>1, NoRequests DEF TakenFromList, OneHolder, AcceptedGone
<1>8. AbuseLocksKey
  BY <1>1, MfaAssumption DEF AbuseLocksKey, UsedUp
<1> QED
  BY <1>2, <1>3, <1>4, <1>5, <1>6, <1>7, <1>8 DEF ManagerInv

\* Every request is gone; a row of the database and its lock stay, and what was not
\* counted got away.
LEMMA ManagerRestarts ==
    ASSUME ManagerInv, MfaRestart
    PROVE  ManagerInv'
<1>1. /\ verifying' = [v \in Verifiers |-> NoRequest]
      /\ UNCHANGED <<durable, mfaCalls, mfaFaults, accepted, overlapped>> /\ enrolled
  BY DEF MfaRestart
<1>2. /\ verifying' \in [Verifiers -> MfaRequest]
      /\ FailsAhead' = 0 /\ LooksAhead' = 0 /\ UsesAhead' = 0 /\ Pending' = 0 /\ Checking' = 0
      /\ \A v \in Verifiers : ~In(v, "save")'
  <2>1. \A v \in Verifiers : verifying'[v].at = "idle"
    BY <1>1 DEF NoRequest
  <2>2. verifying' \in [Verifiers -> MfaRequest]
    BY <1>1 DEF NoRequest, MfaRequest, MfaSteps
  <2>3. /\ CountAt(verifying', {"lock", "check", "count"}) = 0 /\ CountAt(verifying', {"lock", "check"}) = 0
        /\ CountAt(verifying', {"usage", "load", "record"}) = 0 /\ CountAt(verifying', {"count", "set_lock"}) = 0
        /\ CountAt(verifying', {"check"}) = 0
    BY <2>1, NobodyThere
  <2>4. FailsAhead' = 0 /\ LooksAhead' = 0 /\ UsesAhead' = 0 /\ Pending' = 0 /\ Checking' = 0
    BY <2>3 DEF FailsAhead, LooksAhead, UsesAhead, Pending, Checking, CountAt
  <2> QED
    BY <2>1, <2>2, <2>4 DEF In
<1>3. TakenFromList' /\ OneHolder'
  BY <1>2 DEF TakenFromList, OneHolder
<1>4. verifying \in [Verifiers -> MfaRequest] /\ mfaCalls' = mfaCalls /\ mfaFaults' = mfaFaults
  BY <1>1 DEF ManagerInv, MfaShape
<1>5. PICK p \in Nat, x \in Nat : p = Pending /\ x = Checking
  <2>1. Pending \in Nat /\ Checking \in Nat
    BY <1>4, CountsAre
  <2> QED
    BY <2>1
<1>6. CASE durable
  <2>1. UNCHANGED <<enrolled, codes, failed, locked, usage, guesses>> /\ escaped' = escaped + p
    <3>1. Cardinality(Uncounted) = Pending
      BY DEF Uncounted, Pending, CountAt
    <3> QED
      BY <1>5, <1>6, <3>1 DEF MfaRestart
  <2>2. MfaShape' /\ NoListWithoutEnrolment'
    BY <1>1, <1>2, <2>1, NumbersAre DEF ManagerInv, MfaShape, NoListWithoutEnrolment
  <2>3. CallsAccount'
    <3>1. PICK a \in Nat, b \in Nat, c \in Nat : a = FailsAhead /\ b = LooksAhead /\ c = UsesAhead
      <4>1. FailsAhead \in Nat /\ LooksAhead \in Nat /\ UsesAhead \in Nat
        BY <1>4, CountsAre
      <4> QED
        BY <4>1
    <3>2. PICK f \in Nat, g \in Nat, u \in Nat, m \in Nat : f = failed /\ g = guesses /\ u = usage /\ m = mfaCalls
      BY NumbersAre
    <3>3. f + a <= m /\ g + b <= m /\ u + c <= m
      BY <3>1, <3>2 DEF ManagerInv, CallsAccount
    <3>4. f + 0 <= m /\ g + 0 <= m /\ u + 0 <= m
      BY <3>3
    <3> QED
      BY <1>2, <1>4, <2>1, <3>2, <3>4 DEF CallsAccount
  <2>4. GuessesOff' /\ GuessesOn'
    <3>1. PICK d \in Int : d = CountedFails
      <4>1. CountedFails \in Int
        BY NumbersAre DEF CountedFails
      <4> QED
        BY <4>1
    <3>2. CountedFails' = d
      BY <2>1, <3>1 DEF CountedFails
    <3>3. PICK b \in Nat, e \in Nat : b = Lost /\ e = Lost' /\ e = b + p
      <4>1. PICK i \in Nat, j \in Nat : i = escaped /\ j = mfaFaults
        BY NumbersAre
      <4>2. Lost = i + j /\ Lost' = (i + p) + j
        BY <1>1, <2>1, <4>1 DEF Lost
      <4> QED
        BY <4>2
    <3>4. PICK g \in Nat : g = guesses /\ guesses' = g
      BY <2>1, NumbersAre
    <3>5. g - g <= (d - d) + (0 - p) + (e - b) /\ (g + 0) - (g + x) <= e - b
      BY <3>3
    <3>6. OffKept /\ OnKept
      BY <1>2, <1>5, <3>1, <3>2, <3>3, <3>4, <3>5 DEF OffKept, OnKept
    <3>7. /\ guesses' \in Int /\ CountedFails' \in Int /\ Pending' \in Int /\ Lost' \in Int /\ Checking' \in Int
          /\ CountedFails \in Int /\ Pending \in Int /\ Lost \in Int /\ Checking \in Int
      BY <1>2, <1>5, <3>1, <3>2, <3>3, <3>4
    <3> QED
      BY <2>1, <3>6, <3>7, GuessesStay DEF LockStays
  <2>5. AcceptedGone'
    BY <1>1, <1>2, <2>1 DEF ManagerInv, AcceptedGone, Alone
  <2>6. AbuseLocksKey'
    BY <1>1, <1>6, Zenon DEF AbuseLocksKey
  <2> QED
    BY <1>3, <2>2, <2>3, <2>4, <2>5, <2>6 DEF ManagerInv
<1>7. CASE ~durable
  <2>1. /\ ~locked' /\ codes' = {} /\ failed' = 0 /\ usage' = 0 /\ guesses' = 0 /\ escaped' = 0
    BY <1>7 DEF MfaRestart
  <2>2. MfaShape' /\ NoListWithoutEnrolment'
    BY <1>1, <1>2, <2>1 DEF ManagerInv, MfaShape, NoListWithoutEnrolment
  <2>3. CallsAccount'
    <3>1. PICK m \in Nat : m = mfaCalls /\ 0 + 0 <= m
      BY NumbersAre
    <3> QED
      BY <1>2, <1>4, <2>1, <3>1 DEF CallsAccount
  <2>4. GuessesOff' /\ GuessesOn'
    BY <2>1, <2>2, GuessesStartOver
  <2>5. AcceptedGone'
    BY <1>1, <1>2, <2>1 DEF ManagerInv, AcceptedGone, Alone
  <2>6. AbuseLocksKey'
    <3>1. ~UsedUp(usage)'
      BY <2>1, NumbersAre DEF UsedUp
    <3> QED
      BY <3>1, Zenon DEF AbuseLocksKey
  <2> QED
    BY <1>3, <2>2, <2>3, <2>4, <2>5, <2>6 DEF ManagerInv
<1> QED
  BY <1>6, <1>7

\* Every step of the manager keeps the invariant.
LEMMA ManagerStep ==
    ASSUME ManagerInv, [MfaNext]_mfaVars
    PROVE  ManagerInv'
<1>1. CASE store_totp_config
  BY <1>1, Enrols
<1>2. ASSUME NEW v \in Verifiers,
             /\ \/ \E right \in BOOLEAN : Asks(v, "lock", right, "none")
                \/ \E c \in BackupCodes \cup {"guess"} : Asks(v, "usage", FALSE, c)
             /\ UNCHANGED <<durable, enrolled, codes, failed, locked, usage, mfaFaults, keyLocked,
                            guesses, accepted, overlapped, escaped>>
      PROVE  ManagerInv'
  BY <1>2, RequestComes
<1>3. ASSUME NEW v \in Verifiers,
             \/ is_locked_out(v) \/ verify_totp(v) \/ clear_failed_attempts(v)
             \/ count_failure(v) \/ set_lock(v)
      PROVE  ManagerInv'
  BY <1>3, LookAtLock, TotpChecks, FailuresClear, FailureCounts, LockIsSet
<1>4. ASSUME NEW v \in Verifiers,
             \/ backup_code_usage_count(v) \/ load_backup_codes(v) \/ save_backup_codes(v)
             \/ reset_backup_code_usage(v) \/ record_backup_code_usage(v) \/ MfaHangUp(v)
      PROVE  ManagerInv'
  BY <1>4, LookAtUsage, LookAtList, ListIsWritten, UsesClear, UseCounts, HangsUp
<1>5. CASE LockoutLapses
  BY <1>5, LockLapses
<1>6. CASE MfaRestart
  BY <1>6, ManagerRestarts
<1>7. CASE UNCHANGED mfaVars
  <2>1. UNCHANGED <<durable, enrolled, codes, failed, locked, usage, verifying, mfaCalls, mfaFaults,
                    keyLocked, guesses, accepted, overlapped, escaped>>
    BY <1>7 DEF mfaVars
  <2> QED
    BY <2>1 DEF ManagerInv, MfaShape, NoListWithoutEnrolment, CallsAccount, FailsAhead, LooksAhead,
       UsesAhead, Pending, Checking, CountAt, GuessesOff, GuessesOn, CountedFails, Lost, TakenFromList, In,
       OneHolder, Alone, AcceptedGone, AbuseLocksKey, UsedUp
<1> QED
  BY <1>1, <1>2, <1>3, <1>4, <1>5, <1>6, <1>7, Zenon DEF MfaNext

\* The invariant gives what the runs check.
LEMMA ManagerSound ==
    ASSUME ManagerInv
    PROVE  SecondFactorSound
<1>1. verifying \in [Verifiers -> MfaRequest]
  BY DEF ManagerInv, MfaShape
<1>2. PICK f \in Nat, g \in Nat, u \in Nat, m \in Nat :
        f = failed /\ g = guesses /\ u = usage /\ m = mfaCalls /\ m <= MaxMfaCalls
  BY MfaAssumption, NumbersAre DEF ManagerInv, MfaShape
<1>3. MfaTypeOK
  <2>1. PICK a \in Nat, b \in Nat, c \in Nat : a = FailsAhead /\ b = LooksAhead /\ c = UsesAhead
    <3>1. FailsAhead \in Nat /\ LooksAhead \in Nat /\ UsesAhead \in Nat
      BY <1>1, CountsAre
    <3> QED
      BY <3>1
  <2>2. f + a <= m /\ g + b <= m /\ u + c <= m
    BY <1>2, <2>1 DEF ManagerInv, CallsAccount
  <2>3. f <= MaxMfaCalls /\ g <= MaxMfaCalls /\ u <= MaxMfaCalls
    BY <1>2, <2>2, MfaAssumption
  <2>4. {failed, usage, guesses} \subseteq 0..MaxMfaCalls
    BY <1>2, <2>3, MfaAssumption
  <2>5. \A v \in Verifiers : verifying[v].list \subseteq BackupCodes
    BY <1>1 DEF MfaRequest
  <2> QED
    BY <2>4, <2>5 DEF ManagerInv, MfaShape, NoListWithoutEnrolment, MfaTypeOK
<1>4. GuessesBounded
  <2>1. PICK p \in Nat, x \in Nat, n \in Nat : p = Pending /\ x = Checking /\ n = Cardinality(Verifiers) /\ x + p <= n
    <3>1. Pending \in Nat /\ Checking \in Nat /\ Cardinality(Verifiers) \in Nat /\ Checking + Pending <= Cardinality(Verifiers)
      BY <1>1, CountsAre
    <3> QED
      BY <3>1
  <2>2. PICK i \in Nat, j \in Nat, k \in Nat \ {0} : i = escaped /\ j = mfaFaults /\ k = MaxTotpAttempts
    BY NumbersAre
  <2>3. Lost = i + j
    BY <2>2 DEF Lost
  <2>4. PICK d \in Nat : d = CountedFails /\ d <= k - 1
    <3>1. CountedFails \in Nat /\ CountedFails <= k - 1
      BY <1>2, <2>2 DEF CountedFails
    <3> QED
      BY <3>1
  <2>5. g <= d + p + (i + j) => g <= k + (n - 1) + i + j
    BY <2>1, <2>4
  <2>6. g + x <= k + (n - 1) + (i + j) => g <= k + (n - 1) + i + j
    OBVIOUS
  <2>7. g <= k + (n - 1) + i + j
    BY <1>2, <2>1, <2>2, <2>3, <2>4, <2>5, <2>6, Zenon DEF ManagerInv, GuessesOff, GuessesOn
  <2> QED
    BY <1>2, <2>1, <2>2, <2>7, Zenon DEF GuessesBounded
<1>5. BackupCodeOnce
  <2>1. SUFFICES ASSUME NEW c \in BackupCodes, accepted[c] > 1, ~overlapped, ~(mfaFaults > 0)
                 PROVE  FALSE
    BY Zenon DEF BackupCodeOnce
  <2>2. Alone
    <3>1. mfaFaults = 0
      BY <2>1, NumbersAre
    <3> QED
      BY <2>1, <3>1, Zenon DEF Alone
  <2>3. accepted[c] <= 1 /\ accepted[c] \in Nat
    BY <2>2 DEF ManagerInv, AcceptedGone, MfaShape
  <2> QED
    BY <2>1, <2>3
<1> QED
  BY <1>3, <1>4, <1>5 DEF SecondFactorSound, ManagerInv
-----------------------------------------------------------------------------
(* The codes.  Every stored backup code is of one form, so that the ones   *)
(* left are the ones handed out and not accepted; and every wrong code     *)
(* looked at under the lock cost a lockout of its own.                     *)

TotpOf(t) == [counter |-> CounterAt(t), generated_at |-> t, expires_at |-> (CounterAt(t) + 1) * TimeStep]
TotpShape ==
    /\ timestamp \in 0..LastTimestamp
    /\ totp = NoCode \/ \E t \in Nat : totp = TotpOf(t)
    /\ totpAnswer = NoAnswer
         \/ \E t \in Nat : totp # NoCode /\ totpAnswer = [at |-> t, valid |-> totp.counter \in Tried(CounterAt(t))]

NotAccepted == {c \in HandedOut : acceptedCodes[c] = 0}
OneForm ==
    /\ acceptedCodes \in [HandedOut -> {0, 1}]
    /\ \E form \in {"sha256", "plain"} : backupCodes = {<<form, c>> : c \in NotAccepted}
    /\ remaining = Cardinality(NotAccepted)

LocksCost ==
    /\ wrongCodes \in Nat /\ lockoutUntil \in Nat
    /\ failedAttempts = wrongCodes
    /\ IF lockoutUntil = 0 THEN firstLock = Never /\ wrongCodes < MAX_FAILED_ATTEMPTS
       ELSE /\ firstLock \in 0..timestamp /\ wrongCodes >= MAX_FAILED_ATTEMPTS
            /\ lockoutUntil >= firstLock + (wrongCodes - MAX_FAILED_ATTEMPTS + 1) * LOCKOUT_DURATION_SECS
            /\ (wrongCodes - MAX_FAILED_ATTEMPTS) * LOCKOUT_DURATION_SECS <= timestamp - firstLock
CodesInv == TotpShape /\ OneForm /\ LocksCost

\* The quotient of a division and the multiples of the divisor around the
\* dividend.
LEMMA DivBetween ==
    ASSUME NEW t \in Nat, NEW d \in Nat \ {0}
    PROVE  t \div d \in Nat /\ (t \div d) * d <= t /\ t < (t \div d + 1) * d
  OBVIOUS

\* Multiples grow with what is multiplied.
LEMMA TimesGrows ==
    ASSUME NEW a \in Int, NEW b \in Int, NEW d \in Nat \ {0}
    PROVE  a * d <= b * d <=> a <= b
  OBVIOUS

\* A dividend that reaches a multiple has at least that quotient.
LEMMA DivReaches ==
    ASSUME NEW t \in Nat, NEW d \in Nat \ {0}, NEW q \in Nat, q * d <= t
    PROVE  q <= t \div d
<1>1. PICK r \in Nat : r = t \div d
  BY DivBetween
<1>2. q * d < (r + 1) * d
  BY <1>1, DivBetween
<1>3. q < r + 1
  BY <1>2, TimesGrows
<1> QED
  BY <1>1, <1>3

\* The counters that are tried are the tolerated ones.
LEMMA TriedAre ==
    ASSUME NEW c \in Nat, NEW n \in Nat
    PROVE  c \in Tried(n) <=> c <= n + ToleratedSteps /\ n <= c + ToleratedSteps
<1>1. ToleratedSteps \in Nat
  BY MfaCodesAssumption
<1>2. ASSUME c <= n + ToleratedSteps, n <= c PROVE c \in {n + delta : delta \in 0..ToleratedSteps}
  <2>1. c - n \in 0..ToleratedSteps /\ c = n + (c - n)
    BY <1>1, <1>2
  <2> QED
    BY <2>1
<1>3. ASSUME n <= c + ToleratedSteps, c <= n
      PROVE  c \in {n - delta : delta \in {d \in 0..ToleratedSteps : n >= d}}
  <2>1. n - c \in {d \in 0..ToleratedSteps : n >= d} /\ c = n - (n - c)
    BY <1>1, <1>3
  <2> QED
    BY <2>1
<1>4. ASSUME c \in Tried(n) PROVE c <= n + ToleratedSteps /\ n <= c + ToleratedSteps
  BY <1>1, <1>4 DEF Tried
<1>5. ASSUME c <= n + ToleratedSteps, n <= c + ToleratedSteps PROVE c \in Tried(n)
  <2>1. n <= c \/ c <= n
    OBVIOUS
  <2> QED
    BY <1>2, <1>3, <1>5, <2>1 DEF Tried
<1> QED
  BY <1>4, <1>5

\* What validate says of a code of step c at second t.
LEMMA ToleratedIs ==
    ASSUME NEW c \in Nat, NEW t \in Nat
    PROVE  c \in Tried(CounterAt(t)) <=>
             /\ t + ToleratedSteps * TimeStep >= (c + 1) * TimeStep - TimeStep
             /\ t < (c + 1) * TimeStep + ToleratedSteps * TimeStep
<1>1. PICK d \in Nat \ {0} : d = TimeStep
  BY MfaCodesAssumption
<1>2. PICK w \in Nat : w = ToleratedSteps
  BY MfaCodesAssumption
<1>3. PICK n \in Nat : n = CounterAt(t)
  BY <1>1, DivBetween DEF CounterAt
<1>4. n * d <= t /\ t < (n + 1) * d
  BY <1>1, <1>3, DivBetween DEF CounterAt
<1>5. c \in Tried(n) <=> c <= n + w /\ n <= c + w
  BY <1>2, TriedAre
<1>6. c <= n + w <=> t + w * d >= (c + 1) * d - d
  <2>1. c * d <= (n + w) * d <=> c <= n + w
    BY TimesGrows
  <2>2. (n + w + 1) * d <= c * d <=> n + w + 1 <= c
    BY TimesGrows
  <2>3. (n + w) * d = n * d + w * d /\ (n + w + 1) * d = (n + 1) * d + w * d /\ (c + 1) * d - d = c * d
    OBVIOUS
  <2>4. ASSUME c <= n + w PROVE t + w * d >= (c + 1) * d - d
    BY <1>4, <2>1, <2>3, <2>4
  <2>5. ASSUME ~(c <= n + w) PROVE ~(t + w * d >= (c + 1) * d - d)
    <3>1. n + w + 1 <= c
      BY <2>5
    <3> QED
      BY <1>4, <2>2, <2>3, <3>1
  <2> QED
    BY <2>4, <2>5
<1>7. n <= c + w <=> t < (c + 1) * d + w * d
  <2>1. (n + 1) * d <= (c + w + 1) * d <=> n + 1 <= c + w + 1
    BY TimesGrows
  <2>2. (c + w + 1) * d <= n * d <=> c + w + 1 <= n
    BY TimesGrows
  <2>3. (c + w + 1) * d = (c + 1) * d + w * d
    OBVIOUS
  <2>4. ASSUME n <= c + w PROVE t < (c + 1) * d + w * d
    BY <1>4, <2>1, <2>3, <2>4
  <2>5. ASSUME ~(n <= c + w) PROVE ~(t < (c + 1) * d + w * d)
    <3>1. c + w + 1 <= n
      BY <2>5
    <3> QED
      BY <1>4, <2>2, <2>3, <3>1
  <2> QED
    BY <2>4, <2>5
<1> QED
  BY <1>1, <1>2, <1>3, <1>5, <1>6, <1>7

\* A code as the device makes it.
LEMMA TotpOfIs ==
    ASSUME NEW t \in Nat
    PROVE  /\ TotpOf(t).counter \in Nat /\ TotpOf(t).generated_at = t
           /\ TotpOf(t).expires_at = (TotpOf(t).counter + 1) * TimeStep
           /\ TotpOf(t).expires_at > t /\ TotpOf(t).expires_at \in Nat /\ TotpOf(t) # NoCode
<1>1. PICK d \in Nat \ {0} : d = TimeStep
  BY MfaCodesAssumption
<1>2. PICK n \in Nat : n = CounterAt(t)
  BY <1>1, DivBetween DEF CounterAt
<1>3. t < (n + 1) * d /\ (n + 1) * d \in Nat
  BY <1>1, <1>2, DivBetween DEF CounterAt
<1> QED
  BY <1>1, <1>2, <1>3 DEF TotpOf, NoCode

\* The shape of the code and of the answer say when the answer was right.
LEMMA TotpShapeInTime ==
    ASSUME TotpShape
    PROVE  TotpInTime
<1>1. totp # NoCode => ShownValid(totp, totp.generated_at)
  BY TotpOfIs DEF TotpShape, ShownValid
<1>2. ASSUME totpAnswer # NoAnswer
      PROVE  totpAnswer.valid <=> /\ totpAnswer.at + ToleratedSteps * TimeStep >= totp.expires_at - TimeStep
                                  /\ totpAnswer.at < totp.expires_at + ToleratedSteps * TimeStep
  <2>1. PICK t \in Nat : totp # NoCode /\ totpAnswer = [at |-> t, valid |-> totp.counter \in Tried(CounterAt(t))]
    BY <1>2 DEF TotpShape
  <2>2. PICK g \in Nat : totp = TotpOf(g)
    BY <2>1 DEF TotpShape
  <2>3. totp.counter \in Nat /\ totp.expires_at = (totp.counter + 1) * TimeStep
    BY <2>2, TotpOfIs
  <2>4. totpAnswer.at = t /\ (totpAnswer.valid <=> totp.counter \in Tried(CounterAt(t)))
    BY <2>1, Zenon
  <2>5. totp.counter \in Tried(CounterAt(t)) <=>
             /\ t + ToleratedSteps * TimeStep >= totp.expires_at - TimeStep
             /\ t < totp.expires_at + ToleratedSteps * TimeStep
    BY <2>3, ToleratedIs
  <2> QED
    BY <2>4, <2>5, Zenon
<1> QED
  BY <1>1, <1>2, Zenon DEF TotpInTime

\* Where neither the code nor the answer nor the clock's bound is touched.
LEMMA TotpStays ==
    ASSUME TotpShape, UNCHANGED totpVars, timestamp' \in 0..LastTimestamp
    PROVE  TotpShape'
  BY DEF TotpShape, totpVars, NoCode, NoAnswer, TotpOf, CounterAt, Tried

\* Where the backup codes are not touched and the clock only goes on.
LEMMA SavedStay ==
    ASSUME OneForm, LocksCost, timestamp \in Nat, timestamp' \in {timestamp, timestamp + 1}, UNCHANGED savedVars
    PROVE  OneForm' /\ LocksCost'
<1>1. UNCHANGED <<backupCodes, remaining, failedAttempts, lockoutUntil, acceptedCodes, wrongCodes, firstLock>>
  BY DEF savedVars
<1>2. OneForm'
  BY <1>1 DEF OneForm, NotAccepted
<1>3. LocksCost'
  <2>1. /\ wrongCodes \in Nat /\ lockoutUntil \in Nat
        /\ failedAttempts = wrongCodes
    BY DEF LocksCost
  <2>2. CASE lockoutUntil = 0
    BY <1>1, <2>1, <2>2 DEF LocksCost, Never
  <2>3. CASE lockoutUntil # 0
    <3>1. PICK c \in Int : c = (wrongCodes - MAX_FAILED_ATTEMPTS) * LOCKOUT_DURATION_SECS
      BY <2>1, MfaCodesAssumption
    <3>2. firstLock \in 0..timestamp /\ c <= timestamp - firstLock
      BY <2>3, <3>1 DEF LocksCost
    <3>4. PICK t \in Nat : t = timestamp
      OBVIOUS
    <3>5. PICK u \in {t, t + 1} : u = timestamp'
      BY <3>4
    <3>6. PICK f \in 0..t : f = firstLock
      BY <3>2, <3>4
    <3>7. f \in 0..u /\ c <= u - f
      BY <3>2, <3>4, <3>6
    <3>3. firstLock \in 0..timestamp' /\ c <= timestamp' - firstLock
      BY <3>5, <3>6, <3>7
    <3> QED
      BY <1>1, <2>3, <3>1, <3>3 DEF LocksCost
  <2> QED
    BY <2>2, <2>3
<1> QED
  BY <1>2, <1>3

\* As many hashes as codes.
LEMMA FormsCounted ==
    ASSUME NEW form, NEW T, IsFiniteSet(T)
    PROVE  Cardinality({<<form, c>> : c \in T}) = Cardinality(T)
<1> DEFINE U == {<<form, c>> : c \in T}
           f == [c \in T |-> <<form, c>>]
<1>1. f \in Bijection(T, U)
  <2>1. f \in [T -> U] /\ \A a, b \in T : f[a] = f[b] => a = b
    OBVIOUS
  <2>2. \A u \in U : \E c \in T : f[c] = u
    OBVIOUS
  <2> HIDE DEF U, f
  <2> QED
    BY <2>1, <2>2 DEF Bijection, Injection, Surjection, IsInjective
<1>2. ExistsBijection(T, U)
  BY <1>1 DEF ExistsBijection
<1> QED
  BY <1>2, FS_Bijection

\* A code is accepted: it is one of those left.
LEMMA RightCodeKeeps ==
    ASSUME CodesInv, NEW code, hash_code(code) \in backupCodes, right_code(code), UNCHANGED <<timestamp, totpVars>>
    PROVE  CodesInv'
<1>1. PICK form \in {"sha256", "plain"} : backupCodes = {<<form, c>> : c \in NotAccepted}
  BY DEF CodesInv, OneForm
<1>2. PICK c \in NotAccepted : hash_code(code) = <<form, c>>
  BY <1>1
<1>3. c = code /\ form = "sha256" /\ code \in NotAccepted /\ code \in HandedOut
  BY <1>2 DEF hash_code, NotAccepted
<1>4. acceptedCodes \in [HandedOut -> {0, 1}] /\ acceptedCodes[code] = 0
  BY <1>3 DEF CodesInv, OneForm, NotAccepted
<1>5. acceptedCodes' = [acceptedCodes EXCEPT ![code] = 1]
  BY <1>4 DEF right_code
<1>6. NotAccepted' = NotAccepted \ {code}
  BY <1>3, <1>4, <1>5 DEF NotAccepted
<1>7. backupCodes' = {<<form, d>> : d \in NotAccepted \ {code}}
  BY <1>1, <1>3 DEF right_code, Consumed, hash_code
<1>8. remaining' = Cardinality(NotAccepted \ {code})
  <2>1. IsFiniteSet(NotAccepted)
    BY MfaCodesAssumption, FS_Subset DEF NotAccepted
  <2> QED
    BY <1>3, <2>1, FS_RemoveElement DEF CodesInv, OneForm, right_code, Consumed
<1>9. OneForm'
  BY <1>4, <1>5, <1>6, <1>7, <1>8 DEF OneForm
<1>10. LocksCost'
  <2>1. wrongCodes' = 0 /\ lockoutUntil' = 0 /\ failedAttempts' = 0 /\ firstLock' = Never
    BY DEF right_code
  <2> QED
    BY <2>1, MfaCodesAssumption DEF LocksCost, Never
<1>11. TotpShape'
  BY TotpStays DEF CodesInv, TotpShape
<1> QED
  BY <1>9, <1>10, <1>11 DEF CodesInv

\* A wrong code is looked at only where no lock is on, and each one past the
\* limit sets it again.
LEMMA WrongCodeKeeps ==
    ASSUME CodesInv, wrong_code, ~is_locked_out_code, UNCHANGED <<timestamp, totpVars>>
    PROVE  CodesInv'
<1>1. PICK m \in Nat \ {0} : m = MAX_FAILED_ATTEMPTS
  BY MfaCodesAssumption
<1>2. PICK d \in Nat \ {0} : d = LOCKOUT_DURATION_SECS
  BY MfaCodesAssumption
<1>3. PICK w \in Nat : w = wrongCodes /\ w = failedAttempts
  BY DEF CodesInv, LocksCost
<1>4. PICK u \in Nat : u = lockoutUntil
  BY DEF CodesInv, LocksCost
<1>5. PICK t \in Nat : t = timestamp /\ t <= LastTimestamp
  BY MfaCodesAssumption DEF CodesInv, TotpShape
<1>6. u = 0 \/ u <= t
  BY <1>4, <1>5 DEF is_locked_out_code
<1>7. /\ wrongCodes' = w + 1 /\ failedAttempts' = w + 1 /\ timestamp' = t
      /\ lockoutUntil' = IF w + 1 >= m THEN t + d ELSE u
      /\ firstLock' = IF lockoutUntil' # 0 /\ firstLock = Never THEN t ELSE firstLock
      /\ UNCHANGED <<backupCodes, remaining, acceptedCodes>>
  BY <1>1, <1>2, <1>3, <1>4, <1>5 DEF wrong_code, CountWrong
<1>8. OneForm'
  BY <1>7 DEF CodesInv, OneForm, NotAccepted
<1>9. TotpShape'
  BY TotpStays DEF CodesInv, TotpShape
<1>10. LocksCost'
  <2>1. CASE u = 0 /\ w + 1 < m
    <3>1. firstLock = Never
      BY <1>4, <2>1 DEF CodesInv, LocksCost
    <3>2. lockoutUntil' = 0 /\ firstLock' = Never
      BY <1>7, <2>1, <3>1
    <3> QED
      BY <1>1, <1>7, <2>1, <3>2 DEF LocksCost, Never
  <2>2. CASE u = 0 /\ w + 1 >= m
    <3>1. firstLock = Never /\ w < m
      BY <1>1, <1>3, <1>4, <2>2 DEF CodesInv, LocksCost
    <3>2. lockoutUntil' = t + d /\ firstLock' = t /\ w + 1 = m
      BY <1>7, <2>2, <3>1
    <3>3. (w + 1 - m) * d = 0 /\ (w + 1 - m + 1) * d = d
      BY <3>2
    <3>4. /\ lockoutUntil' \in Nat /\ lockoutUntil' # 0 /\ firstLock' \in 0..timestamp'
          /\ wrongCodes' \in Nat /\ wrongCodes' = failedAttempts' /\ wrongCodes' >= MAX_FAILED_ATTEMPTS
      BY <1>1, <1>7, <2>2, <3>2
    <3>5. (wrongCodes' - MAX_FAILED_ATTEMPTS) * LOCKOUT_DURATION_SECS <= timestamp' - firstLock'
      BY <1>1, <1>2, <1>7, <3>2, <3>3
    <3>6. lockoutUntil' >= firstLock' + (wrongCodes' - MAX_FAILED_ATTEMPTS + 1) * LOCKOUT_DURATION_SECS
      <4>1. wrongCodes' - MAX_FAILED_ATTEMPTS + 1 = w + 1 - m + 1
        BY <1>1, <1>7
      <4>2. (wrongCodes' - MAX_FAILED_ATTEMPTS + 1) * LOCKOUT_DURATION_SECS = d
        BY <1>2, <3>3, <4>1
      <4> QED
        BY <3>2, <4>2
    <3> QED
      BY <3>4, <3>5, <3>6 DEF LocksCost
  <2>3. CASE u # 0
    <3>1. PICK f \in 0..t : f = firstLock
      BY <1>4, <1>5, <2>3 DEF CodesInv, LocksCost
    <3>2. w >= m /\ u >= f + (w - m + 1) * d
      BY <1>1, <1>2, <1>3, <1>4, <2>3, <3>1 DEF CodesInv, LocksCost
    <3>3. f # Never
      BY <1>5, <3>1, MfaCodesAssumption DEF Never
    <3>4. lockoutUntil' = t + d /\ firstLock' = f
      BY <1>7, <3>1, <3>2, <3>3
    <3>5. w + 1 - m = w - m + 1 /\ (w + 1 - m + 1) * d = (w - m + 1) * d + d
      OBVIOUS
    <3>6. /\ (w + 1 - m) * d <= t - f
          /\ t + d >= f + (w + 1 - m + 1) * d
      BY <1>6, <2>3, <3>2, <3>5
    <3>7. /\ lockoutUntil' \in Nat /\ lockoutUntil' # 0 /\ firstLock' \in 0..timestamp'
          /\ wrongCodes' \in Nat /\ wrongCodes' = failedAttempts' /\ wrongCodes' >= MAX_FAILED_ATTEMPTS
      BY <1>1, <1>7, <3>2, <3>4
    <3>8. (wrongCodes' - MAX_FAILED_ATTEMPTS) * LOCKOUT_DURATION_SECS <= timestamp' - firstLock'
      BY <1>1, <1>2, <1>7, <3>4, <3>6
    <3>9. lockoutUntil' >= firstLock' + (wrongCodes' - MAX_FAILED_ATTEMPTS + 1) * LOCKOUT_DURATION_SECS
      <4>1. wrongCodes' - MAX_FAILED_ATTEMPTS + 1 = w + 1 - m + 1
        BY <1>1, <1>7
      <4>2. (wrongCodes' - MAX_FAILED_ATTEMPTS + 1) * LOCKOUT_DURATION_SECS = (w + 1 - m + 1) * d
        BY <1>2, <4>1
      <4> QED
        BY <3>4, <3>6, <4>2
    <3> QED
      BY <3>7, <3>8, <3>9 DEF LocksCost
  <2> QED
    BY <2>1, <2>2, <2>3
<1> QED
  BY <1>8, <1>9, <1>10 DEF CodesInv

\* The codes not used are loaded, in either form.
LEMMA LoadCodesKeeps ==
    ASSUME CodesInv, NEW form \in {"sha256", "plain"}, load(form)
    PROVE  CodesInv'
<1>1. backupCodes' = {<<form, c>> : c \in NotAccepted} /\ UNCHANGED acceptedCodes
  BY DEF load, NotAccepted
<1>2. IsFiniteSet(NotAccepted)
  BY MfaCodesAssumption, FS_Subset DEF NotAccepted
<1>3. remaining' = Cardinality(NotAccepted)
  <2>1. remaining' = Cardinality({<<form, c>> : c \in NotAccepted})
    BY <1>1 DEF load
  <2> QED
    BY <1>2, <2>1, FormsCounted
<1>4. OneForm'
  BY <1>1, <1>3 DEF CodesInv, OneForm, NotAccepted
<1>5. LocksCost'
  <2>1. wrongCodes' = 0 /\ lockoutUntil' = 0 /\ failedAttempts' = 0 /\ firstLock' = Never
    BY DEF load
  <2> QED
    BY <2>1, MfaCodesAssumption DEF LocksCost, Never
<1>6. TotpShape'
  BY TotpStays DEF load, CodesInv, TotpShape
<1> QED
  BY <1>4, <1>5, <1>6 DEF CodesInv

\* The device makes a code, the server looks at it, and time passes.
LEMMA TotpKeeps ==
    ASSUME CodesInv,
           validate_totp \/ TimestampPasses \/ \E skew \in 0..MaxSkew : generate_at_timestamp(timestamp + skew)
    PROVE  CodesInv'
<1>1. timestamp \in 0..LastTimestamp /\ LastTimestamp \in Nat /\ MaxSkew \in Nat
  BY MfaCodesAssumption DEF CodesInv, TotpShape
<1>2. CASE validate_totp
  <2>1. UNCHANGED savedVars /\ UNCHANGED <<timestamp, totp>> /\ totp # NoCode
    BY <1>2 DEF validate_totp
  <2>2. totpAnswer' = [at |-> timestamp, valid |-> totp.counter \in Tried(CounterAt(timestamp))]
    BY <1>2 DEF validate_totp
  <2>3. TotpShape'
    BY <1>1, <2>1, <2>2 DEF CodesInv, TotpShape, NoCode, TotpOf, CounterAt, Tried
  <2> QED
    BY <1>1, <2>1, <2>3, SavedStay DEF CodesInv
<1>3. CASE TimestampPasses
  <2>1. UNCHANGED savedVars /\ UNCHANGED totpVars /\ timestamp' = timestamp + 1 /\ timestamp' \in 0..LastTimestamp
    BY <1>1, <1>3 DEF TimestampPasses
  <2> QED
    BY <1>1, <2>1, SavedStay, TotpStays DEF CodesInv
<1>4. CASE \E skew \in 0..MaxSkew : generate_at_timestamp(timestamp + skew)
  <2>1. PICK skew \in 0..MaxSkew : generate_at_timestamp(timestamp + skew)
    BY <1>4
  <2>2. timestamp + skew \in Nat
    BY <1>1
  <2>3. totp' = TotpOf(timestamp + skew) /\ totpAnswer' = NoAnswer /\ UNCHANGED <<timestamp, savedVars>>
    BY <2>1 DEF generate_at_timestamp, TotpOf
  <2>4. TotpShape'
    BY <1>1, <2>2, <2>3 DEF TotpShape, TotpOf, CounterAt, NoAnswer
  <2> QED
    BY <1>1, <2>3, <2>4, SavedStay DEF CodesInv
<1> QED
  BY <1>2, <1>3, <1>4

\* Every step keeps the invariant of the codes.
LEMMA CodesStep ==
    ASSUME CodesInv, [CodesNext]_codeVars
    PROVE  CodesInv'
<1>1. CASE UNCHANGED codeVars
  <2>1. UNCHANGED <<timestamp, totpVars, savedVars>>
    BY <1>1 DEF codeVars, totpVars, savedVars
  <2>2. timestamp \in Nat /\ timestamp \in 0..LastTimestamp
    BY MfaCodesAssumption DEF CodesInv, TotpShape
  <2> QED
    BY <2>1, <2>2, SavedStay, TotpStays DEF CodesInv
<1>2. ASSUME NEW code, consume_code(code) PROVE CodesInv'
  BY <1>2, RightCodeKeeps, WrongCodeKeeps DEF consume_code
<1> QED
  BY <1>1, <1>2, TotpKeeps, LoadCodesKeeps DEF CodesNext

\* The codes that were handed out.
LEMMA CodesInitial ==
    ASSUME CodesInit
    PROVE  CodesInv
<1>1. NotAccepted = HandedOut
  BY DEF CodesInit, NotAccepted
<1>2. OneForm
  BY <1>1 DEF CodesInit, OneForm, hash_code
<1>3. TotpShape
  BY MfaCodesAssumption DEF CodesInit, TotpShape
<1>4. LocksCost
  BY MfaCodesAssumption DEF CodesInit, LocksCost
<1> QED
  BY <1>2, <1>3, <1>4 DEF CodesInv

\* The codes are good for their time and once, and the wrong ones cost lockouts.
LEMMA CodesInvSound ==
    ASSUME CodesInv
    PROVE  CodesSound
<1>1. TotpInTime
  BY TotpShapeInTime DEF CodesInv
<1>2. \A c \in HandedOut : acceptedCodes[c] <= 1
  BY DEF CodesInv, OneForm
<1>3. remaining = Cardinality({c \in HandedOut : acceptedCodes[c] = 0})
  BY DEF CodesInv, OneForm, NotAccepted
<1>4. wrongCodes <= IF firstLock = Never THEN MAX_FAILED_ATTEMPTS - 1
                    ELSE MAX_FAILED_ATTEMPTS + (timestamp - firstLock) \div LOCKOUT_DURATION_SECS
  <2>1. PICK m \in Nat \ {0} : m = MAX_FAILED_ATTEMPTS
    BY MfaCodesAssumption
  <2>2. PICK d \in Nat \ {0} : d = LOCKOUT_DURATION_SECS
    BY MfaCodesAssumption
  <2>3. wrongCodes \in Nat /\ timestamp \in 0..LastTimestamp /\ LastTimestamp \in Nat
    BY MfaCodesAssumption DEF CodesInv, LocksCost, TotpShape
  <2>4. CASE lockoutUntil = 0
    BY <2>1, <2>3, <2>4 DEF CodesInv, LocksCost
  <2>5. CASE lockoutUntil # 0
    <3>1. PICK p \in Nat : p = timestamp - firstLock
      BY <2>3, <2>5 DEF CodesInv, LocksCost
    <3>2. PICK q \in Nat : q = wrongCodes - m
      BY <2>1, <2>3, <2>5 DEF CodesInv, LocksCost
    <3>3. q * d <= p
      BY <2>1, <2>2, <2>5, <3>1, <3>2 DEF CodesInv, LocksCost
    <3>4. q <= p \div d
      BY <3>3, DivReaches
    <3>5. firstLock # Never
      BY <2>3, <2>5 DEF CodesInv, LocksCost, Never
    <3>6. p \div d \in Nat
      BY DivBetween
    <3> QED
      BY <2>1, <2>2, <2>3, <3>1, <3>2, <3>4, <3>5, <3>6
  <2> QED
    BY <2>4, <2>5
<1> QED
  BY <1>1, <1>2, <1>3, <1>4 DEF CodesSound, BackupCodesOnce

\* The second factor, for any number of requests, backup codes and any limits: as
\* long as the lock is not opened the wrong codes that are looked at are bounded
\* by the limit, the requests that were past the lock, and what was lost of the
\* count; a backup code is used once unless a write is lost or two requests hold
\* the list; and the codes of kms-mfa are good for their time and once.
THEOREM SecondFactorStaysSound == FactorSpec => []MfaSound
<1>1. FactorInit => ManagerInv /\ CodesInv
  BY ManagerInitial, CodesInitial DEF FactorInit
<1>2. ManagerInv /\ CodesInv /\ [FactorNext]_factorVars => (ManagerInv /\ CodesInv)'
  <2> SUFFICES ASSUME ManagerInv, CodesInv, [FactorNext]_factorVars
               PROVE  ManagerInv' /\ CodesInv'
    OBVIOUS
  <2>1. [MfaNext]_mfaVars /\ [CodesNext]_codeVars
    BY DEF FactorNext, factorVars
  <2> QED
    BY <2>1, ManagerStep, CodesStep
<1>3. ManagerInv /\ CodesInv => MfaSound
  BY ManagerSound, CodesInvSound DEF MfaSound
<1> QED
  BY <1>1, <1>2, <1>3, PTL DEF FactorSpec

-----------------------------------------------------------------------------
(* The rate limiters.                                                      *)

InWindow == {a \in admitted : a[2] \in WindowStart..second}
PastFirst == {a \in admitted : a[2] \in (WindowStart + 1)..second}
Between == {r \in Requesters : asking[r] = "counted"}

LimitShape ==
    /\ second \in Nat /\ counter \in Nat
    /\ asking \in [Requesters -> {"idle", "counted"}]
    /\ \A r \in Requesters : asking[r] = "counted" => limiter = "sliding"
    /\ IsFiniteSet(entries) /\ IsFiniteSet(admitted)
    /\ \A a \in admitted : a[2] \in 0..second

\* What is let through was counted before.
CountedFirst ==
    ~FailOpen /\ limiter \in {"tenant", "fixed"} =>
        Cardinality(InWindow) <= counter /\ Cardinality(InWindow) <= RateLimit

\* After the first second of a window what was let through is in the sorted set,
\* and with who is between the two calls it is no more than the limit and the
\* other requesters.
RoomTaken ==
    limiter = "sliding" =>
        /\ PastFirst \subseteq entries
        /\ Cardinality(PastFirst) + Cardinality(Between) <= RateLimit + (Cardinality(Requesters) - 1)
        /\ RateLimit = 0 => Between = {}

LimitInv == LimitShape /\ CountedFirst /\ RoomTaken

-----------------------------------------------------------------------------
(* The anomaly detector.                                                   *)

AccessCheck == [at : {"count", "failures", "done"}, user : AccessUsers, failed : BOOLEAN,
                alert : {"none", "OffHoursAccess", "HighFrequency", "AuthFailure"},
                ended : Nat, cleared : BOOLEAN]

\* The accesses of a user that its sum of operations covers, and those that
\* were found to be within the limit.
Recorded(u) == {a \in DOMAIN checks : /\ checks[a].at # "forgotten" /\ ~checks[a].cleared
                                      /\ checks[a].user = u /\ checks[a].alert # "OffHoursAccess"}
Passed(u) == {a \in Recorded(u) : checks[a].at # "count" /\ checks[a].alert = "none"}

AnomalyShape ==
    /\ time \in Nat
    /\ checks \in Seq(AccessCheck \cup {Forgotten})
    /\ operations \in [AccessUsers -> Nat]
    /\ IsFiniteSet(recentFailures)
    /\ \A f \in recentFailures : f.by \in DOMAIN checks /\ f.at \in Nat

\* Who has not been answered has no alert; only failed accesses are looked at for
\* failures.
NotYetAnswered ==
    \A a \in DOMAIN checks :
        /\ checks[a].at \in {"count", "failures"} => checks[a].alert = "none"
        /\ checks[a].at = "failures" => checks[a].failed
SumsCover == \A u \in AccessUsers : Cardinality(Recorded(u)) <= operations[u]
FewPass == \A u \in AccessUsers : Cardinality(Passed(u)) <= MaxOpsPerMinute
BurstsTrue ==
    \A a \in Ended : checks[a].alert = "HighFrequency" => operations[checks[a].user] > MaxOpsPerMinute

\* A failed access that was let pass is remembered for as long as it counts.
FailuresKept ==
    \A a \in Ended : checks[a].failed /\ checks[a].alert = "none" /\ checks[a].ended + FailureWindow > time =>
        [by |-> a, at |-> checks[a].ended] \in recentFailures

AnomalyInv ==
    /\ AnomalyShape /\ NotYetAnswered /\ SumsCover /\ FewPass /\ BurstsTrue /\ FailuresKept /\ NoSilentGuessing

\* A dividend and its rest.
LEMMA DivRem ==
    ASSUME NEW t \in Nat, NEW d \in Nat \ {0}
    PROVE  t % d \in Nat /\ t = (t \div d) * d + (t % d)
<1>1. t % d \in 0..(d - 1)
  OBVIOUS
<1>2. t = d * (t \div d) + (t % d)
  OBVIOUS
<1>3. t \div d \in Nat /\ d * (t \div d) = (t \div d) * d
  OBVIOUS
<1> QED
  BY <1>1, <1>2, <1>3

\* A window starts anew with the multiples of its length.
LEMMA WindowMoves ==
    ASSUME NEW s \in Nat, NEW w \in Nat \ {0}
    PROVE  /\ (s \div w) * w \in Nat /\ (s \div w) * w <= s
           /\ (s + 1) % w = 0 => ((s + 1) \div w) * w = s + 1
           /\ (s + 1) % w # 0 => ((s + 1) \div w) * w = (s \div w) * w
<1>1. PICK q \in Nat : q = s \div w
  BY DivBetween
<1>2. q * w <= s /\ s < (q + 1) * w /\ q * w \in Nat
  BY <1>1, DivBetween
<1>3. PICK p \in Nat : p = (s + 1) \div w
  BY DivBetween
<1>4. p * w <= s + 1 /\ s + 1 < (p + 1) * w /\ p * w \in Nat
  BY <1>3, DivBetween
<1>5. s + 1 = p * w + ((s + 1) % w)
  BY <1>3, DivRem
<1>6. q <= p
  <2>1. q * w < (p + 1) * w
    BY <1>2, <1>4
  <2>2. ~((p + 1) * w <= q * w)
    BY <1>2, <1>4, <2>1
  <2>3. ~(p + 1 <= q)
    BY <2>2, TimesGrows
  <2> QED
    BY <2>3
<1>7. CASE p = q
  <2>1. s + 1 # p * w
    BY <1>7, <1>5, <1>2, <1>4
  <2> QED
    BY <1>1, <1>2, <1>3, <1>5, <1>7
<1>8. CASE p # q
  <2>1. (q + 1) * w <= p * w
    BY <1>6, <1>8, TimesGrows
  <2>2. p * w = s + 1
    BY <1>2, <1>4, <2>1
  <2>3. (s + 1) % w = 0
    <3>1. (s + 1) % w \in Int
      OBVIOUS
    <3> QED
      BY <1>4, <1>5, <2>2, <3>1
  <2> QED
    BY <1>1, <1>2, <1>3, <2>2, <2>3
<1> QED
  BY <1>7, <1>8

\* The start of the window.
LEMMA WindowIs ==
    ASSUME second \in Nat
    PROVE  WindowStart \in Nat /\ WindowStart <= second
  BY RateLimitsAssumption, WindowMoves DEF WindowStart

\* A part of a finite set, and one member more.
LEMMA PartAndOne ==
    ASSUME NEW S, IsFiniteSet(S), NEW T \in SUBSET S, NEW x
    PROVE  /\ IsFiniteSet(T) /\ Cardinality(T) \in Nat /\ Cardinality(T) <= Cardinality(S)
           /\ IsFiniteSet(T \cup {x}) /\ Cardinality(T \cup {x}) \in Nat
           /\ Cardinality(T \cup {x}) <= Cardinality(T) + 1
           /\ x \in T => Cardinality(T \ {x}) = Cardinality(T) - 1
  BY FS_Subset, FS_CardinalityType, FS_AddElement, FS_RemoveElement

\* What is let through now is in the window.
LEMMA AdmitAdds ==
    ASSUME LimitInv, Admit, UNCHANGED second
    PROVE  /\ IsFiniteSet(admitted') /\ \A a \in admitted' : a[2] \in 0..second'
           /\ InWindow' \subseteq InWindow \cup {<<served, second>>}
           /\ PastFirst' \subseteq PastFirst \cup {<<served, second>>}
<1>1. admitted' = admitted \cup {<<served, second>>} /\ <<served, second>>[2] = second
  BY DEF Admit
<1>2. WindowStart' = WindowStart
  BY DEF WindowStart
<1>3. IsFiniteSet(admitted')
  BY <1>1, FS_AddElement DEF LimitInv, LimitShape
<1>4. \A a \in admitted' : a[2] \in 0..second'
  BY <1>1 DEF LimitInv, LimitShape
<1>5. InWindow' \subseteq InWindow \cup {<<served, second>>} /\ PastFirst' \subseteq PastFirst \cup {<<served, second>>}
  BY <1>1, <1>2 DEF InWindow, PastFirst
<1> QED
  BY <1>3, <1>4, <1>5

\* A request that was counted is let through only within the limit.
LEMMA CountedFits ==
    ASSUME LimitInv, counter' = counter + 1, UNCHANGED <<second, limiter>>,
           IF OverLimit(counter + 1) THEN UNCHANGED admitted ELSE Admit
    PROVE  IsFiniteSet(admitted') /\ (\A a \in admitted' : a[2] \in 0..second') /\ CountedFirst'
<1>1. WindowStart' = WindowStart
  BY DEF WindowStart
<1>2. PICK n \in Nat : n = counter
  BY DEF LimitInv, LimitShape
<1>3. PICK c \in Nat : c = Cardinality(InWindow)
  <2>1. InWindow \in SUBSET admitted /\ IsFiniteSet(admitted)
    BY DEF InWindow, LimitInv, LimitShape
  <2> QED
    BY <2>1, PartAndOne
<1>4. CASE OverLimit(counter + 1)
  <2>1. admitted' = admitted /\ InWindow' = InWindow
    BY <1>1, <1>4 DEF InWindow
  <2>2. c <= n /\ c <= RateLimit => c <= n + 1 /\ c <= RateLimit
    OBVIOUS
  <2> QED
    BY <1>2, <1>3, <2>1, <2>2 DEF LimitInv, LimitShape, CountedFirst
<1>5. CASE ~OverLimit(counter + 1)
  <2>1. Admit /\ n + 1 <= RateLimit
    BY <1>2, <1>5, RateLimitsAssumption DEF OverLimit
  <2>2. IsFiniteSet(admitted') /\ \A a \in admitted' : a[2] \in 0..second'
    BY <2>1, AdmitAdds
  <2>3. PICK d \in Nat : d = Cardinality(InWindow') /\ d <= c + 1
    <3>1. InWindow \in SUBSET admitted /\ IsFiniteSet(admitted)
      BY DEF InWindow, LimitInv, LimitShape
    <3>2. PICK S : S = InWindow \cup {<<served, second>>}
      OBVIOUS
    <3>3. IsFiniteSet(S) /\ Cardinality(S) \in Nat /\ Cardinality(S) <= c + 1
      BY <1>3, <3>1, <3>2, PartAndOne
    <3>4. InWindow' \in SUBSET S
      BY <2>1, <3>2, AdmitAdds
    <3>5. Cardinality(InWindow') \in Nat /\ Cardinality(InWindow') <= Cardinality(S)
      BY <3>3, <3>4, PartAndOne
    <3> QED
      BY <3>3, <3>5
  <2>4. c <= n => d <= n + 1 /\ d <= RateLimit
    BY <2>1, <2>3, RateLimitsAssumption
  <2>5. CountedFirst'
    BY <1>2, <1>3, <2>3, <2>4 DEF LimitInv, CountedFirst
  <2> QED
    BY <2>2, <2>5
<1> QED
  BY <1>4, <1>5

\* TenantRateLimiter::check.
LEMMA TenantChecks ==
    ASSUME LimitInv, check
    PROVE  LimitInv'
<1>1. limiter = "tenant" /\ UNCHANGED <<limiter, second, entries, asking>>
  BY DEF check
<1>2. RoomTaken'
  BY <1>1 DEF RoomTaken
<1>3. CASE counter' = counter + 1 /\ (IF OverLimit(counter + 1) THEN UNCHANGED admitted ELSE Admit)
  <2>1. IsFiniteSet(admitted') /\ (\A a \in admitted' : a[2] \in 0..second') /\ CountedFirst'
    BY <1>1, <1>3, CountedFits
  <2>2. counter' \in Nat
    BY <1>3 DEF LimitInv, LimitShape
  <2>3. LimitShape'
    BY <1>1, <2>1, <2>2 DEF LimitInv, LimitShape
  <2> QED
    BY <1>2, <2>1, <2>3 DEF LimitInv
<1>4. CASE UNCHANGED counter /\ (IF FailOpen THEN Admit ELSE UNCHANGED admitted)
  <2>1. CASE FailOpen
    <3>1. IsFiniteSet(admitted') /\ (\A a \in admitted' : a[2] \in 0..second')
      BY <1>1, <1>4, <2>1, AdmitAdds
    <3>2. LimitShape'
      BY <1>1, <1>4, <3>1 DEF LimitInv, LimitShape
    <3>3. CountedFirst'
      BY <2>1 DEF CountedFirst
    <3> QED
      BY <1>2, <3>2, <3>3 DEF LimitInv
  <2>2. CASE ~FailOpen
    <3>1. UNCHANGED <<limiter, second, entries, asking, counter, admitted>>
      BY <1>1, <1>4, <2>2
    <3> QED
      BY <1>2, <3>1 DEF LimitInv, LimitShape, CountedFirst, InWindow, WindowStart
  <2> QED
    BY <2>1, <2>2
<1> QED
  BY <1>3, <1>4 DEF check

\* check_rate_limit with sliding_window off.
LEMMA FixedChecks ==
    ASSUME LimitInv, check_fixed
    PROVE  LimitInv'
<1>1. limiter = "fixed" /\ UNCHANGED <<limiter, second, entries, asking>> /\ counter' = counter + 1
  BY DEF check_fixed
<1>2. RoomTaken'
  BY <1>1 DEF RoomTaken
<1>3. IsFiniteSet(admitted') /\ (\A a \in admitted' : a[2] \in 0..second') /\ CountedFirst'
  BY <1>1, CountedFits DEF check_fixed
<1>4. counter' \in Nat
  BY <1>1 DEF LimitInv, LimitShape
<1>5. LimitShape'
  BY <1>1, <1>3, <1>4 DEF LimitInv, LimitShape
<1> QED
  BY <1>2, <1>3, <1>5 DEF LimitInv

\* What the counts of the sliding mode are.
LEMMA RoomIs ==
    ASSUME LimitInv
    PROVE  /\ Cardinality(PastFirst) \in Nat /\ Cardinality(Between) \in Nat
           /\ Cardinality(Requesters) \in Nat \ {0} /\ Cardinality(Between) <= Cardinality(Requesters)
           /\ PastFirst \in SUBSET admitted /\ Between \in SUBSET Requesters
<1>1. PastFirst \in SUBSET admitted /\ Between \in SUBSET Requesters
  BY DEF PastFirst, Between
<1>2. IsFiniteSet(admitted) /\ IsFiniteSet(Requesters) /\ Requesters # {}
  BY RateLimitsAssumption DEF LimitInv, LimitShape
<1>3. Cardinality(Requesters) \in Nat /\ Cardinality(Requesters) # 0
  BY <1>2, FS_CardinalityType, FS_EmptySet
<1> QED
  BY <1>1, <1>2, <1>3, PartAndOne

\* ZREMRANGEBYSCORE and ZCARD: who finds room goes on to add its request.
LEMMA SlidingChecks ==
    ASSUME LimitInv, NEW r \in Requesters, check_sliding(r)
    PROVE  LimitInv'
<1>1. /\ limiter = "sliding" /\ asking[r] = "idle" /\ UNCHANGED <<limiter, second, counter, admitted>>
      /\ entries' = {e \in entries : ~Stale(e)}
      /\ asking' = [asking EXCEPT ![r] = IF Cardinality(entries') >= RateLimit THEN "idle" ELSE "counted"]
  BY DEF check_sliding
<1>2. IsFiniteSet(entries') /\ Cardinality(entries') \in Nat
  <2>1. entries' \in SUBSET entries /\ IsFiniteSet(entries)
    BY <1>1 DEF LimitInv, LimitShape
  <2> QED
    BY <2>1, PartAndOne
<1>3. LimitShape'
  BY <1>1, <1>2 DEF LimitInv, LimitShape
<1>4. CountedFirst'
  BY <1>1 DEF CountedFirst
<1>5. WindowStart' = WindowStart /\ PastFirst' = PastFirst
  BY <1>1 DEF WindowStart, PastFirst
<1>6. PastFirst \subseteq entries'
  <2>1. SUFFICES ASSUME NEW a \in PastFirst PROVE a \in entries /\ ~Stale(a)
    BY <1>1
  <2>2. a[2] \in (WindowStart + 1)..second /\ WindowStart \in Nat /\ second \in Nat
    BY WindowIs DEF LimitInv, LimitShape, PastFirst
  <2>3. ~Stale(a)
    BY <2>2 DEF Stale
  <2> QED
    BY <1>1, <2>3 DEF LimitInv, RoomTaken
<1>7. PICK p \in Nat, b \in Nat, n \in Nat \ {0} :
        p = Cardinality(PastFirst) /\ b = Cardinality(Between) /\ n = Cardinality(Requesters) /\ b <= n
  BY RoomIs
<1>8. PICK e \in Nat : e = Cardinality(entries') /\ p <= e
  <2>1. Cardinality(PastFirst) <= Cardinality(entries')
    BY <1>2, <1>6, PartAndOne
  <2> QED
    BY <1>2, <1>7, <2>1
<1>9. PICK l \in Nat : l = RateLimit
  BY RateLimitsAssumption
<1>10. CASE e >= l
  <2>1. Between' = Between
    BY <1>1, <1>8, <1>9, <1>10 DEF Between, LimitInv, LimitShape
  <2> QED
    BY <1>1, <1>3, <1>4, <1>5, <1>6, <2>1 DEF LimitInv, RoomTaken
<1>11. CASE ~(e >= l)
  <2>1. Between' \in SUBSET Requesters
    BY DEF Between
  <2>2. PICK c \in Nat : c = Cardinality(Between') /\ c <= n
    <3>1. Cardinality(Between') \in Nat /\ Cardinality(Between') <= Cardinality(Requesters)
      BY <2>1, RateLimitsAssumption, PartAndOne
    <3> QED
      BY <1>7, <3>1
  <2>3. p + c <= l + (n - 1) /\ l # 0
    BY <1>8, <1>11, <2>2
  <2>4. RoomTaken'
    BY <1>5, <1>6, <1>7, <1>9, <2>2, <2>3 DEF RoomTaken
  <2> QED
    BY <1>3, <1>4, <2>4 DEF LimitInv
<1> QED
  BY <1>10, <1>11

\* ZADD: the request takes the room it had found.
LEMMA SlidingAdds ==
    ASSUME LimitInv, NEW r \in Requesters, add_request(r)
    PROVE  LimitInv'
<1>1. /\ asking[r] = "counted" /\ UNCHANGED <<limiter, second, counter>> /\ Admit
      /\ entries' = entries \cup {<<served, second>>} /\ asking' = [asking EXCEPT ![r] = "idle"]
  BY DEF add_request
<1>2. /\ IsFiniteSet(admitted') /\ (\A a \in admitted' : a[2] \in 0..second')
      /\ PastFirst' \subseteq PastFirst \cup {<<served, second>>}
  BY <1>1, AdmitAdds
<1>3. IsFiniteSet(entries')
  BY <1>1, FS_AddElement DEF LimitInv, LimitShape
<1>4. LimitShape'
  BY <1>1, <1>2, <1>3 DEF LimitInv, LimitShape
<1>5. CASE limiter = "sliding"
  <2>1. PICK p \in Nat, b \in Nat, n \in Nat \ {0} :
          p = Cardinality(PastFirst) /\ b = Cardinality(Between) /\ n = Cardinality(Requesters) /\ b <= n
    BY RoomIs
  <2>2. PICK l \in Nat : l = RateLimit
    BY RateLimitsAssumption
  <2>3. Between' = Between \ {r} /\ r \in Between
    BY <1>1 DEF Between, LimitInv, LimitShape
  <2>4. Cardinality(Between') = b - 1
    <3>1. IsFiniteSet(Requesters) /\ Between \in SUBSET Requesters
      BY RateLimitsAssumption, RoomIs
    <3> QED
      BY <2>1, <2>3, <3>1, PartAndOne
  <2>5. PICK q \in Nat : q = Cardinality(PastFirst') /\ q <= p + 1
    <3>1. PastFirst \in SUBSET admitted /\ IsFiniteSet(admitted)
      BY RoomIs DEF LimitInv, LimitShape
    <3>2. PICK S : S = PastFirst \cup {<<served, second>>}
      OBVIOUS
    <3>3. IsFiniteSet(S) /\ Cardinality(S) \in Nat /\ Cardinality(S) <= p + 1
      BY <2>1, <3>1, <3>2, PartAndOne
    <3>4. Cardinality(PastFirst') \in Nat /\ Cardinality(PastFirst') <= Cardinality(S)
      BY <1>2, <3>2, <3>3, PartAndOne
    <3> QED
      BY <3>3, <3>4
  <2>6. p + b <= l + (n - 1) /\ PastFirst \subseteq entries /\ l # 0
    BY <1>5, <2>1, <2>2, <2>3 DEF LimitInv, RoomTaken
  <2>7. q + (b - 1) <= l + (n - 1)
    BY <2>5, <2>6
  <2>8. PastFirst' \subseteq entries'
    BY <1>1, <1>2, <2>6
  <2>9. RoomTaken'
    BY <2>1, <2>2, <2>4, <2>5, <2>6, <2>7, <2>8 DEF RoomTaken
  <2>10. CountedFirst'
    BY <1>1, <1>5 DEF CountedFirst
  <2> QED
    BY <1>4, <2>9, <2>10 DEF LimitInv
<1>6. limiter = "sliding"
  BY <1>1 DEF LimitInv, LimitShape
<1> QED
  BY <1>5, <1>6

\* The administrator's reset.
LEMMA LimitResets ==
    ASSUME LimitInv, reset_limit
    PROVE  LimitInv'
<1>1. UNCHANGED <<limiter, second, asking>> /\ counter' = 0 /\ entries' = {} /\ admitted' = {}
  BY DEF reset_limit
<1>2. IsFiniteSet({}) /\ Cardinality({}) = 0
  BY FS_EmptySet
<1>3. LimitShape'
  BY <1>1, <1>2 DEF LimitInv, LimitShape
<1>4. InWindow' = {} /\ PastFirst' = {} /\ Between' = Between
  BY <1>1 DEF InWindow, PastFirst, Between
<1>5. CountedFirst'
  BY <1>1, <1>2, <1>4, RateLimitsAssumption DEF CountedFirst
<1>6. RoomTaken'
  <2>1. PICK b \in Nat, n \in Nat \ {0}, l \in Nat :
          b = Cardinality(Between) /\ n = Cardinality(Requesters) /\ b <= n /\ l = RateLimit
    BY RoomIs, RateLimitsAssumption
  <2>2. limiter = "sliding" /\ l = 0 => Between = {} /\ b = 0
    BY <1>2, <2>1 DEF LimitInv, RoomTaken
  <2>3. limiter = "sliding" => 0 + b <= l + (n - 1)
    <3>1. CASE l = 0
      BY <2>1, <2>2, <3>1
    <3>2. CASE l # 0
      <4>1. 0 + b <= l + (n - 1)
        BY <2>1, <3>2
      <4> QED
        BY <4>1
    <3> QED
      BY <3>1, <3>2
  <2> QED
    BY <1>1, <1>2, <1>4, <2>1, <2>2, <2>3 DEF RoomTaken
<1> QED
  BY <1>3, <1>5, <1>6 DEF LimitInv

\* A second passes: what was let through stays in its window, or a new one begins.
LEMMA SecondTicks ==
    ASSUME LimitInv, SecondPasses
    PROVE  LimitInv'
<1>1. /\ second' = second + 1 /\ UNCHANGED <<limiter, asking, admitted>>
      /\ \A r \in Requesters : asking[r] = "idle"
      /\ IF (second + 1) % WindowLength = 0 THEN counter' = 0 /\ entries' = {} ELSE UNCHANGED <<counter, entries>>
  BY DEF SecondPasses
<1>2. PICK s \in Nat : s = second
  BY DEF LimitInv, LimitShape
<1>3. PICK w \in Nat : w = WindowStart /\ w <= s
  BY <1>2, WindowIs
<1>4. PICK v : v = WindowStart'
  OBVIOUS
<1>5. v = IF (s + 1) % WindowLength = 0 THEN s + 1 ELSE w
  BY <1>1, <1>2, <1>3, <1>4, WindowMoves, RateLimitsAssumption DEF WindowStart
<1>6. IsFiniteSet({}) /\ Cardinality({}) = 0
  BY FS_EmptySet
<1>7. \A a \in admitted : a[2] \in 0..s
  BY <1>2 DEF LimitInv, LimitShape
<1>8. LimitShape'
  <2>1. counter' \in Nat /\ IsFiniteSet(entries')
    <3>1. counter \in Nat /\ IsFiniteSet(entries)
      BY DEF LimitInv, LimitShape
    <3>2. (counter' = 0 /\ entries' = {}) \/ (counter' = counter /\ entries' = entries)
      BY DEF SecondPasses
    <3>3. 0 \in Nat /\ IsFiniteSet({})
      BY <1>6
    <3> QED
      BY <3>1, <3>2, <3>3
  <2>2. \A a \in admitted' : a[2] \in 0..second'
    BY <1>1, <1>2, <1>7
  <2> QED
    BY <1>1, <1>2, <2>1, <2>2 DEF LimitInv, LimitShape
<1>9. Between' = {}
  BY <1>1 DEF Between
<1>10. CASE (s + 1) % WindowLength = 0
  <2>1. InWindow' = {} /\ PastFirst' = {}
    BY <1>1, <1>2, <1>4, <1>5, <1>7, <1>10 DEF InWindow, PastFirst
  <2>2. PICK n \in Nat \ {0}, l \in Nat : n = Cardinality(Requesters) /\ l = RateLimit
    BY RoomIs, RateLimitsAssumption
  <2>3. 0 + 0 <= l + (n - 1) /\ 0 <= l
    OBVIOUS
  <2>4. counter' = 0
    BY <1>1, <1>2, <1>10
  <2> QED
    BY <1>6, <1>8, <1>9, <2>1, <2>2, <2>3, <2>4 DEF LimitInv, CountedFirst, RoomTaken
<1>11. CASE (s + 1) % WindowLength # 0
  <2>1. v = w /\ UNCHANGED <<counter, entries>>
    BY <1>1, <1>2, <1>5, <1>11
  <2>2. InWindow' = InWindow
    <3>1. \A a \in admitted : a[2] \in w..(s + 1) <=> a[2] \in w..s
      BY <1>7
    <3> QED
      BY <1>1, <1>2, <1>3, <1>4, <2>1, <3>1 DEF InWindow
  <2>3. PastFirst' = PastFirst
    <3>1. \A a \in admitted : a[2] \in (w + 1)..(s + 1) <=> a[2] \in (w + 1)..s
      BY <1>7
    <3> QED
      BY <1>1, <1>2, <1>3, <1>4, <2>1, <3>1 DEF PastFirst
  <2>4. Between' = Between
    BY <1>1 DEF Between
  <2> QED
    BY <1>1, <1>8, <2>1, <2>2, <2>3, <2>4 DEF LimitInv, CountedFirst, RoomTaken
<1> QED
  BY <1>10, <1>11

\* Every step of a limiter keeps the invariant.
LEMMA LimitStep ==
    ASSUME LimitInv, [RateLimitsNext]_limitVars
    PROVE  LimitInv'
<1>1. CASE UNCHANGED limitVars
  BY <1>1 DEF limitVars, LimitInv, LimitShape, CountedFirst, RoomTaken, InWindow, PastFirst, Between, WindowStart
<1> QED
  BY <1>1, TenantChecks, FixedChecks, SlidingChecks, SlidingAdds, LimitResets, SecondTicks DEF RateLimitsNext

\* Before the first request.
LEMMA LimitInitial ==
    ASSUME RateLimitsInit
    PROVE  LimitInv
<1>1. /\ second = 0 /\ counter = 0 /\ entries = {} /\ asking = [r \in Requesters |-> "idle"] /\ admitted = {}
  BY DEF RateLimitsInit
<1>2. IsFiniteSet({}) /\ Cardinality({}) = 0
  BY FS_EmptySet
<1>3. InWindow = {} /\ PastFirst = {} /\ Between = {}
  BY <1>1 DEF InWindow, PastFirst, Between
<1>4. LimitShape
  BY <1>1, <1>2 DEF LimitShape
<1>5. CountedFirst
  BY <1>1, <1>2, <1>3, RateLimitsAssumption DEF CountedFirst
<1>6. RoomTaken
  <2>1. Cardinality(Requesters) \in Nat \ {0}
    BY <1>4, <1>5, RateLimitsAssumption, FS_CardinalityType, FS_EmptySet
  <2> QED
    BY <1>2, <1>3, <2>1, RateLimitsAssumption DEF RoomTaken
<1> QED
  BY <1>4, <1>5, <1>6 DEF LimitInv

\* The invariant gives what the runs check.
LEMMA LimitSound ==
    ASSUME LimitInv
    PROVE  LimitsHold
<1>1. WindowLimit
  BY DEF LimitInv, CountedFirst, WindowLimit, Total, InWindow
<1>2. SlidingOverrun
  <2>1. PICK p \in Nat, b \in Nat, m \in Int :
          p = Cardinality(PastFirst) /\ b = Cardinality(Between) /\ m = RateLimit + (Cardinality(Requesters) - 1)
    BY RoomIs, RateLimitsAssumption
  <2>2. p + b <= m => p <= m
    OBVIOUS
  <2>3. limiter = "sliding" => p <= m
    BY <2>1, <2>2 DEF LimitInv, RoomTaken
  <2> QED
    BY <2>1, <2>3 DEF SlidingOverrun, Total, PastFirst
<1> QED
  BY <1>1, <1>2 DEF LimitsHold

\* The accesses that were checked.
LEMMA ChecksAre ==
    ASSUME AnomalyShape
    PROVE  /\ DOMAIN checks = 1..Len(checks) /\ Len(checks) \in Nat /\ IsFiniteSet(DOMAIN checks)
           /\ \A a \in DOMAIN checks : checks[a].at # "forgotten" => checks[a] \in AccessCheck
<1>1. checks \in Seq(AccessCheck \cup {Forgotten})
  BY DEF AnomalyShape
<1>2. PICK n \in Nat : n = Len(checks) /\ DOMAIN checks = 1..n
  BY <1>1
<1>3. IsFiniteSet(1..n)
  BY FS_Interval
<1>4. ASSUME NEW a \in DOMAIN checks, checks[a].at # "forgotten" PROVE checks[a] \in AccessCheck
  <2>1. checks[a] \in AccessCheck \cup {Forgotten}
    BY <1>1
  <2>2. checks[a] # Forgotten
    BY <1>4 DEF Forgotten
  <2> QED
    BY <2>1, <2>2
<1> QED
  BY <1>2, <1>3, <1>4

\* Accesses are finitely many.
LEMMA RecordedFinite ==
    ASSUME AnomalyShape, NEW u
    PROVE  /\ IsFiniteSet(Recorded(u)) /\ Cardinality(Recorded(u)) \in Nat
           /\ IsFiniteSet(Passed(u)) /\ Cardinality(Passed(u)) \in Nat
           /\ Cardinality(Passed(u)) <= Cardinality(Recorded(u))
<1>1. IsFiniteSet(DOMAIN checks) /\ Recorded(u) \in SUBSET DOMAIN checks
  BY ChecksAre DEF Recorded
<1>2. IsFiniteSet(Recorded(u)) /\ Cardinality(Recorded(u)) \in Nat
  BY <1>1, PartAndOne
<1>3. Passed(u) \in SUBSET Recorded(u)
  BY DEF Passed
<1> QED
  BY <1>2, <1>3, PartAndOne

\* Guesses that went without an alert.
Silent == {a \in Ended : checks[a].failed /\ checks[a].alert = "none"}

\* As long as none is added the detector overlooks no more of them.
LEMMA NoMoreSilent ==
    ASSUME NoSilentGuessing, Silent' \subseteq Silent, \A a \in Silent' : checks'[a].ended = checks[a].ended
    PROVE  NoSilentGuessing'
<1> SUFFICES ASSUME NEW g \in SUBSET {a \in Ended' : checks'[a].failed}, Cardinality(g) = MaxAuthFailures,
                    \A a, b \in g : checks'[a].ended < checks'[b].ended + FailureWindow,
                    ~\E a \in g : checks'[a].alert # "none"
             PROVE  FALSE
  BY DEF NoSilentGuessing
<1>1. g \subseteq Silent'
  BY DEF Silent
<1>2. g \in SUBSET {a \in Ended : checks[a].failed} /\ \A a \in g : checks[a].alert = "none"
  BY <1>1 DEF Silent
<1>3. \A a, b \in g : checks[a].ended < checks[b].ended + FailureWindow
  BY <1>1
<1> QED
  BY <1>2, <1>3 DEF NoSilentGuessing

\* A new access stands behind the others.
LEMMA OneMore ==
    ASSUME AnomalyShape, NEW c \in AccessCheck, checks' = Append(checks, c)
    PROVE  /\ checks' \in Seq(AccessCheck \cup {Forgotten})
           /\ DOMAIN checks' = DOMAIN checks \cup {Len(checks) + 1} /\ Len(checks) + 1 \notin DOMAIN checks
           /\ checks'[Len(checks) + 1] = c /\ \A a \in DOMAIN checks : checks'[a] = checks[a]
<1>1. PICK n \in Nat : n = Len(checks) /\ DOMAIN checks = 1..n
  BY ChecksAre
<1>2. checks \in Seq(AccessCheck \cup {Forgotten}) /\ c \in AccessCheck \cup {Forgotten}
  BY DEF AnomalyShape
<1>3. /\ checks' \in Seq(AccessCheck \cup {Forgotten}) /\ Len(checks') = n + 1
      /\ checks'[n + 1] = c /\ \A a \in 1..n : checks'[a] = checks[a]
  BY <1>1, <1>2, AppendProperties
<1>4. DOMAIN checks' = 1..(n + 1)
  BY <1>3
<1>5. 1..(n + 1) = 1..n \cup {n + 1} /\ n + 1 \notin 1..n
  OBVIOUS
<1> QED
  BY <1>1, <1>3, <1>4, <1>5

\* An access outside the hours of work.
LEMMA OffHoursKeeps ==
    ASSUME AnomalyInv, NEW u \in AccessUsers, NEW f \in BOOLEAN, check_off_hours(Access(u, f)),
           UNCHANGED <<time, recentFailures>>
    PROVE  AnomalyInv'
<1> DEFINE c == EndsWith(Access(u, f), "OffHoursAccess")
<1>1. checks' = Append(checks, c) /\ UNCHANGED <<time, operations, recentFailures>>
  BY DEF check_off_hours
<1>2. c \in AccessCheck /\ c.at = "done" /\ c.alert = "OffHoursAccess"
  BY DEF EndsWith, Access, AccessCheck, AnomalyInv, AnomalyShape
<1>3. AnomalyShape
  BY DEF AnomalyInv
<1> HIDE DEF c
<1>4. PICK n : n = Len(checks) + 1
  OBVIOUS
<1>5. /\ checks' \in Seq(AccessCheck \cup {Forgotten})
      /\ DOMAIN checks' = DOMAIN checks \cup {n} /\ n \notin DOMAIN checks
      /\ checks'[n] = c /\ \A a \in DOMAIN checks : checks'[a] = checks[a]
  BY <1>1, <1>2, <1>3, <1>4, OneMore
<1>6. AnomalyShape'
  BY <1>1, <1>3, <1>5 DEF AnomalyShape
<1>7. NotYetAnswered'
  BY <1>2, <1>5 DEF AnomalyInv, NotYetAnswered
<1>8. ASSUME NEW v \in AccessUsers PROVE Recorded(v)' = Recorded(v) /\ Passed(v)' = Passed(v)
  <2>1. Recorded(v)' = Recorded(v)
    BY <1>2, <1>5 DEF Recorded
  <2> QED
    BY <1>5, <2>1 DEF Passed, Recorded
<1>9. SumsCover' /\ FewPass'
  BY <1>1, <1>8 DEF AnomalyInv, SumsCover, FewPass
<1>10. BurstsTrue' /\ FailuresKept'
  <2>1. \A a \in Ended' : a = n \/ (a \in Ended /\ checks'[a] = checks[a])
    BY <1>5 DEF Ended
  <2> QED
    BY <1>1, <1>2, <1>5, <2>1 DEF AnomalyInv, BurstsTrue, FailuresKept
<1>11. NoSilentGuessing'
  <2>1. Silent' \subseteq Silent /\ \A a \in Silent' : checks'[a].ended = checks[a].ended
    BY <1>2, <1>5 DEF Silent, Ended
  <2> QED
    BY <2>1, NoMoreSilent DEF AnomalyInv
<1> QED
  BY <1>6, <1>7, <1>9, <1>10, <1>11 DEF AnomalyInv

\* An access in the hours of work is added to its user's sum.
LEMMA RecordKeeps ==
    ASSUME AnomalyInv, NEW u \in AccessUsers, NEW f \in BOOLEAN, record_access(Access(u, f)),
           UNCHANGED <<time, recentFailures>>
    PROVE  AnomalyInv'
<1> DEFINE c == Access(u, f)
<1>1. /\ checks' = Append(checks, c) /\ UNCHANGED <<time, recentFailures>>
      /\ operations' = [operations EXCEPT ![u] = @ + 1]
  BY DEF record_access, record_operation, Access
<1>2. c \in AccessCheck /\ c.at = "count" /\ c.alert = "none" /\ c.user = u
  BY DEF Access, AccessCheck
<1>3. AnomalyShape
  BY DEF AnomalyInv
<1> HIDE DEF c
<1>4. PICK n : n = Len(checks) + 1
  OBVIOUS
<1>5. /\ checks' \in Seq(AccessCheck \cup {Forgotten})
      /\ DOMAIN checks' = DOMAIN checks \cup {n} /\ n \notin DOMAIN checks
      /\ checks'[n] = c /\ \A a \in DOMAIN checks : checks'[a] = checks[a]
  BY <1>1, <1>2, <1>3, <1>4, OneMore
<1>6. operations \in [AccessUsers -> Nat] /\ operations' \in [AccessUsers -> Nat]
  BY <1>1, <1>3 DEF AnomalyShape
<1>7. \A v \in AccessUsers : operations'[v] = IF v = u THEN operations[v] + 1 ELSE operations[v]
  BY <1>1, <1>6
<1>8. AnomalyShape'
  BY <1>1, <1>3, <1>5, <1>6 DEF AnomalyShape
<1>9. NotYetAnswered'
  BY <1>2, <1>5 DEF AnomalyInv, NotYetAnswered
<1>10. ASSUME NEW v \in AccessUsers
       PROVE  Recorded(v)' \subseteq Recorded(v) \cup {n} /\ (v # u => Recorded(v)' = Recorded(v)) /\ Passed(v)' = Passed(v)
  <2>1. Recorded(v)' \subseteq Recorded(v) \cup {n}
    BY <1>5 DEF Recorded
  <2>2. v # u => Recorded(v)' = Recorded(v)
    BY <1>2, <1>5 DEF Recorded
  <2>3. Passed(v)' = Passed(v)
    BY <1>2, <1>5 DEF Passed, Recorded
  <2> QED
    BY <2>1, <2>2, <2>3
<1>11. SumsCover'
  <2>1. SUFFICES ASSUME NEW v \in AccessUsers PROVE Cardinality(Recorded(v)') <= operations'[v]
    BY DEF SumsCover
  <2>2. PICK r \in Nat, o \in Nat : r = Cardinality(Recorded(v)) /\ o = operations[v] /\ r <= o
    BY <1>3, <1>6, RecordedFinite DEF AnomalyInv, SumsCover
  <2>3. CASE v = u
    <3>1. PICK S : S = Recorded(v) \cup {n}
      OBVIOUS
    <3>2. IsFiniteSet(S) /\ Cardinality(S) \in Nat /\ Cardinality(S) <= r + 1
      BY <1>3, <2>2, <3>1, RecordedFinite, PartAndOne
    <3>3. Recorded(v)' \in SUBSET S
      BY <1>10, <3>1
    <3>4. Cardinality(Recorded(v)') \in Nat /\ Cardinality(Recorded(v)') <= Cardinality(S)
      BY <3>2, <3>3, PartAndOne
    <3>5. operations'[v] = o + 1
      BY <1>7, <2>2, <2>3
    <3> QED
      BY <2>2, <3>2, <3>4, <3>5
  <2>4. CASE v # u
    BY <1>7, <1>10, <2>2, <2>4
  <2> QED
    BY <2>3, <2>4
<1>12. FewPass'
  BY <1>10 DEF AnomalyInv, FewPass
<1>13. \A a \in Ended' : a \in Ended /\ checks'[a] = checks[a]
  BY <1>2, <1>5 DEF Ended
<1>14. BurstsTrue'
  <2>1. SUFFICES ASSUME NEW a \in Ended', checks'[a].alert = "HighFrequency"
                 PROVE  operations'[checks'[a].user] > MaxOpsPerMinute
    BY DEF BurstsTrue
  <2>2. a \in Ended /\ checks'[a] = checks[a] /\ operations[checks[a].user] > MaxOpsPerMinute
    BY <1>13, <2>1 DEF AnomalyInv, BurstsTrue
  <2>3. checks[a].user \in AccessUsers
    BY <1>3, <2>2, ChecksAre DEF Ended, AccessCheck
  <2>4. operations[checks[a].user] \in Nat /\ MaxOpsPerMinute \in Nat
    BY <1>6, <2>3, AnomalyAssumption
  <2> QED
    BY <1>7, <2>2, <2>3, <2>4
<1>15. FailuresKept'
  BY <1>1, <1>13 DEF AnomalyInv, FailuresKept
<1>16. NoSilentGuessing'
  <2>1. Silent' \subseteq Silent /\ \A a \in Silent' : checks'[a].ended = checks[a].ended
    BY <1>13 DEF Silent
  <2> QED
    BY <2>1, NoMoreSilent DEF AnomalyInv
<1> QED
  BY <1>8, <1>9, <1>11, <1>12, <1>14, <1>15, <1>16 DEF AnomalyInv

\* A check goes on: only its access changes.
LEMMA OneGoesOn ==
    ASSUME AnomalyShape, NEW a \in DOMAIN checks, NEW c \in AccessCheck, checks' = [checks EXCEPT ![a] = c]
    PROVE  /\ checks' \in Seq(AccessCheck \cup {Forgotten}) /\ DOMAIN checks' = DOMAIN checks
           /\ checks'[a] = c /\ \A b \in DOMAIN checks : b # a => checks'[b] = checks[b]
<1>1. PICK n \in Nat : n = Len(checks) /\ DOMAIN checks = 1..n
  BY ChecksAre
<1>2. checks \in Seq(AccessCheck \cup {Forgotten}) /\ c \in AccessCheck \cup {Forgotten}
  BY DEF AnomalyShape
<1>3. checks' \in Seq(AccessCheck \cup {Forgotten})
  BY <1>1, <1>2
<1> QED
  BY <1>1, <1>2, <1>3

\* The step that a check takes: its access stays its user's and, if it was not
\* forgotten in between, covered by the sum.
GoesOn(a, c) ==
    /\ checks[a].at \in {"count", "failures"} /\ c \in AccessCheck
    /\ checks' = [checks EXCEPT ![a] = c] /\ UNCHANGED <<time, operations>>
    /\ c.user = checks[a].user /\ c.cleared = checks[a].cleared /\ c.at \in {"failures", "done"}
    /\ c.alert \in {"none", "HighFrequency", "AuthFailure"}
    /\ c.at = "failures" => c.alert = "none" /\ c.failed
    /\ c.alert = "HighFrequency" => operations[c.user] > MaxOpsPerMinute
    /\ operations[c.user] <= MaxOpsPerMinute \/ c.alert # "none" \/ checks[a].at = "failures"

\* Who is let pass was within the limit, and the sums cover what they covered.
LEMMA SumsStay ==
    ASSUME AnomalyInv, NEW a \in DOMAIN checks, NEW c, GoesOn(a, c)
    PROVE  NotYetAnswered' /\ SumsCover' /\ FewPass' /\ BurstsTrue'
<1>1. AnomalyShape
  BY DEF AnomalyInv
<1>2. checks[a] \in AccessCheck /\ checks[a].alert = "none" /\ checks[a].at # "forgotten"
  BY <1>1, ChecksAre DEF GoesOn, AnomalyInv, NotYetAnswered
<1>3. /\ checks' \in Seq(AccessCheck \cup {Forgotten}) /\ DOMAIN checks' = DOMAIN checks
      /\ checks'[a] = c /\ \A b \in DOMAIN checks : b # a => checks'[b] = checks[b]
  BY <1>1, OneGoesOn DEF GoesOn
<1>4. UNCHANGED operations
  BY DEF GoesOn
<1>5. NotYetAnswered'
  BY <1>3 DEF GoesOn, AnomalyInv, NotYetAnswered
<1>6. ASSUME NEW u \in AccessUsers PROVE Recorded(u)' = Recorded(u)
  BY <1>2, <1>3 DEF GoesOn, Recorded
<1>7. SumsCover'
  BY <1>4, <1>6 DEF AnomalyInv, SumsCover
<1>8. FewPass'
  <2>1. SUFFICES ASSUME NEW u \in AccessUsers PROVE Cardinality(Passed(u)') <= MaxOpsPerMinute
    BY DEF FewPass
  <2>2. PICK p \in Nat, r \in Nat, m \in Nat, o \in Nat :
          /\ p = Cardinality(Passed(u)) /\ r = Cardinality(Recorded(u)) /\ m = MaxOpsPerMinute /\ o = operations[u]
          /\ p <= m /\ r <= o
    BY <1>1, RecordedFinite, AnomalyAssumption DEF AnomalyInv, AnomalyShape, FewPass, SumsCover
  <2>3. CASE u = c.user /\ operations[c.user] <= MaxOpsPerMinute
    <3>1. Passed(u)' \in SUBSET Recorded(u)
      BY <1>6 DEF Passed
    <3>2. Cardinality(Passed(u)') \in Nat /\ Cardinality(Passed(u)') <= r
      BY <1>1, <2>2, <3>1, RecordedFinite, PartAndOne
    <3>3. r <= m
      BY <2>2, <2>3
    <3> QED
      BY <2>2, <3>2, <3>3
  <2>4. CASE ~(u = c.user /\ operations[c.user] <= MaxOpsPerMinute)
    <3>1. Passed(u)' \in SUBSET Passed(u)
      <4>1. SUFFICES ASSUME NEW b \in Passed(u)' PROVE b \in Passed(u)
        OBVIOUS
      <4>2. b \in Recorded(u) /\ checks'[b].at # "count" /\ checks'[b].alert = "none"
        BY <1>6 DEF Passed
      <4>3. CASE b # a
        BY <1>3, <4>2, <4>3 DEF Passed, Recorded
      <4>4. CASE b = a
        <5>1. c.alert = "none" /\ u = checks[a].user
          BY <1>3, <4>2, <4>4 DEF Recorded
        <5>2. checks[a].at = "failures"
          BY <2>4, <5>1 DEF GoesOn
        <5> QED
          BY <1>2, <4>2, <4>4, <5>2 DEF Passed
      <4> QED
        BY <4>3, <4>4
    <3>2. Cardinality(Passed(u)') \in Nat /\ Cardinality(Passed(u)') <= p
      BY <1>1, <2>2, <3>1, RecordedFinite, PartAndOne
    <3> QED
      BY <2>2, <3>2
  <2> QED
    BY <2>3, <2>4
<1>9. BurstsTrue'
  <2>1. SUFFICES ASSUME NEW b \in Ended', checks'[b].alert = "HighFrequency"
                 PROVE  operations[checks'[b].user] > MaxOpsPerMinute
    BY <1>4 DEF BurstsTrue
  <2>2. CASE b = a
    BY <1>3, <2>1, <2>2 DEF GoesOn
  <2>3. CASE b # a
    BY <1>3, <2>1, <2>3 DEF Ended, AnomalyInv, BurstsTrue
  <2> QED
    BY <2>2, <2>3
<1> QED
  BY <1>5, <1>7, <1>8, <1>9

\* Nothing changes for the failed logins when the check of one is not answered, is
\* answered with an alert, or was not of a failed login.
LEMMA LoginsStay ==
    ASSUME AnomalyInv, NEW a \in DOMAIN checks, NEW c, GoesOn(a, c), UNCHANGED recentFailures,
           c.at = "failures" \/ c.alert # "none" \/ ~c.failed
    PROVE  AnomalyInv'
<1>1. AnomalyShape
  BY DEF AnomalyInv
<1>2. /\ checks' \in Seq(AccessCheck \cup {Forgotten}) /\ DOMAIN checks' = DOMAIN checks
      /\ checks'[a] = c /\ \A b \in DOMAIN checks : b # a => checks'[b] = checks[b]
  BY <1>1, OneGoesOn DEF GoesOn
<1>3. UNCHANGED <<time, operations>>
  BY DEF GoesOn
<1>4. AnomalyShape'
  BY <1>1, <1>2, <1>3 DEF AnomalyShape
<1>5. \A b \in Ended' : checks'[b].failed /\ checks'[b].alert = "none" => b \in Ended /\ checks'[b] = checks[b]
  BY <1>2 DEF Ended
<1>6. FailuresKept'
  BY <1>3, <1>5 DEF AnomalyInv, FailuresKept
<1>7. NoSilentGuessing'
  <2>1. Silent' \subseteq Silent /\ \A b \in Silent' : checks'[b].ended = checks[b].ended
    BY <1>5 DEF Silent
  <2> QED
    BY <2>1, NoMoreSilent DEF AnomalyInv
<1> QED
  BY <1>4, <1>6, <1>7, SumsStay DEF AnomalyInv

\* The sum of a user's operations decides.
LEMMA FrequencyKeeps ==
    ASSUME AnomalyInv, NEW a \in DOMAIN checks, check_high_frequency(a)
    PROVE  AnomalyInv'
<1>1. checks[a].at = "count" /\ UNCHANGED <<time, operations, recentFailures>>
  BY DEF check_high_frequency
<1>2. checks[a] \in AccessCheck /\ checks[a].alert = "none" /\ time \in Nat
  BY <1>1, ChecksAre DEF AnomalyInv, AnomalyShape, NotYetAnswered
<1>3. PICK o \in Nat, m \in Nat : o = operations[checks[a].user] /\ m = MaxOpsPerMinute
  BY <1>2, AnomalyAssumption DEF AnomalyInv, AnomalyShape, AccessCheck
<1>4. count_recent_ops(checks[a].user) > MaxOpsPerMinute <=> o > m
  BY <1>3 DEF count_recent_ops
<1>5. CASE o > m
  <2>1. PICK c : c = EndsWith(checks[a], "HighFrequency")
    OBVIOUS
  <2>2. checks' = [checks EXCEPT ![a] = c]
    BY <1>4, <1>5, <2>1 DEF check_high_frequency, End
  <2>3. c \in AccessCheck /\ c.at = "done" /\ c.alert = "HighFrequency" /\ c.user = checks[a].user /\ c.cleared = checks[a].cleared
    BY <1>2, <2>1 DEF EndsWith, AccessCheck
  <2>4. GoesOn(a, c)
    BY <1>1, <1>3, <1>5, <2>2, <2>3 DEF GoesOn
  <2> QED
    BY <1>1, <2>3, <2>4, LoginsStay
<1>6. CASE ~(o > m) /\ checks[a].failed
  <2>1. PICK c : c = [checks[a] EXCEPT !.at = "failures"]
    OBVIOUS
  <2>2. checks' = [checks EXCEPT ![a] = c]
    BY <1>4, <1>6, <2>1 DEF check_high_frequency
  <2>3. /\ c \in AccessCheck /\ c.at = "failures" /\ c.alert = "none" /\ c.user = checks[a].user
        /\ c.cleared = checks[a].cleared /\ c.failed
    BY <1>2, <1>6, <2>1 DEF AccessCheck
  <2>4. GoesOn(a, c)
    BY <1>1, <1>3, <1>6, <2>2, <2>3 DEF GoesOn
  <2> QED
    BY <1>1, <2>3, <2>4, LoginsStay
<1>7. CASE ~(o > m) /\ ~checks[a].failed
  <2>1. PICK c : c = EndsWith(checks[a], "none")
    OBVIOUS
  <2>2. checks' = [checks EXCEPT ![a] = c]
    BY <1>4, <1>7, <2>1 DEF check_high_frequency, End
  <2>3. /\ c \in AccessCheck /\ c.at = "done" /\ c.alert = "none" /\ c.user = checks[a].user
        /\ c.cleared = checks[a].cleared /\ ~c.failed
    BY <1>2, <1>7, <2>1 DEF EndsWith, AccessCheck
  <2>4. GoesOn(a, c)
    BY <1>1, <1>3, <1>7, <2>2, <2>3 DEF GoesOn
  <2> QED
    BY <1>1, <2>3, <2>4, LoginsStay
<1> QED
  BY <1>5, <1>6, <1>7

\* Failed logins that are remembered one by one are as many as there are of them.
LEMMA EachRemembered ==
    ASSUME NEW g, NEW S, IsFiniteSet(S), NEW e, \A b \in g : [by |-> b, at |-> e[b]] \in S
    PROVE  Cardinality(g) <= Cardinality(S)
<1> DEFINE f == [b \in g |-> [by |-> b, at |-> e[b]]]
<1>1. f \in [g -> S]
  OBVIOUS
<1>2. \A b, d \in g : f[b] = f[d] => b = d
  <2>1. ASSUME NEW b \in g, NEW d \in g, f[b] = f[d] PROVE b = d
    <3>1. f[b].by = b /\ f[d].by = d
      OBVIOUS
    <3> QED
      BY <2>1, <3>1
  <2> QED
    BY <2>1
<1>3. f \in Injection(g, S)
  BY <1>1, <1>2 DEF Injection, IsInjective
<1> QED
  BY <1>3, FS_Injection

\* The failed logins of the window decide.
LEMMA GuessKeeps ==
    ASSUME AnomalyInv, NEW a \in DOMAIN checks, check_auth_failures(a)
    PROVE  AnomalyInv'
<1> DEFINE failures == Kept(recentFailures) \cup {[by |-> a, at |-> time]}
<1>1. /\ checks[a].at = "failures" /\ UNCHANGED <<time, operations>> /\ recentFailures' = failures
      /\ checks' = [checks EXCEPT ![a] =
           EndsWith(checks[a], IF Cardinality(failures) >= MaxAuthFailures THEN "AuthFailure" ELSE "none")]
  BY DEF check_auth_failures, End
<1>2. AnomalyShape /\ time \in Nat /\ FailureWindow \in Nat \ {0} /\ MaxAuthFailures \in Nat \ {0}
  BY AnomalyAssumption DEF AnomalyInv, AnomalyShape
<1>3. checks[a] \in AccessCheck /\ checks[a].alert = "none" /\ checks[a].failed
  BY <1>1, <1>2, ChecksAre DEF AnomalyInv, NotYetAnswered
<1>4. IsFiniteSet(failures) /\ Cardinality(failures) \in Nat
  <2>1. Kept(recentFailures) \in SUBSET recentFailures /\ IsFiniteSet(recentFailures)
    BY <1>2 DEF Kept, AnomalyShape
  <2> QED
    BY <2>1, PartAndOne
<1>5. \A f \in failures : f.by \in DOMAIN checks /\ f.at \in Nat
  BY <1>2 DEF Kept, AnomalyShape
<1> HIDE DEF failures
<1>6. PICK c : c = EndsWith(checks[a], IF Cardinality(failures) >= MaxAuthFailures THEN "AuthFailure" ELSE "none")
  OBVIOUS
<1>7. /\ c \in AccessCheck /\ c.at = "done" /\ c.user = checks[a].user /\ c.cleared = checks[a].cleared
      /\ c.failed /\ c.ended = time /\ c.alert \in {"none", "AuthFailure"}
  BY <1>2, <1>3, <1>6 DEF EndsWith, AccessCheck
<1>8. c.alert = "none" => ~(Cardinality(failures) >= MaxAuthFailures)
  BY <1>3, <1>6 DEF EndsWith, AccessCheck
<1>9. checks' = [checks EXCEPT ![a] = c]
  BY <1>1, <1>6
<1>10. GoesOn(a, c)
  BY <1>1, <1>7, <1>9 DEF GoesOn
<1>11. /\ checks' \in Seq(AccessCheck \cup {Forgotten}) /\ DOMAIN checks' = DOMAIN checks
       /\ checks'[a] = c /\ \A b \in DOMAIN checks : b # a => checks'[b] = checks[b]
  BY <1>2, <1>7, <1>9, OneGoesOn
<1>12. AnomalyShape'
  BY <1>1, <1>2, <1>4, <1>5, <1>11 DEF AnomalyShape
<1>13. \A b \in Ended' : b # a => b \in Ended /\ checks'[b] = checks[b]
  BY <1>11 DEF Ended
<1>14. ASSUME NEW b \in Ended, checks[b].failed, checks[b].alert = "none", checks[b].ended + FailureWindow > time
       PROVE  [by |-> b, at |-> checks[b].ended] \in failures
  <2>1. [by |-> b, at |-> checks[b].ended] \in recentFailures
    BY <1>14 DEF AnomalyInv, FailuresKept
  <2> QED
    BY <1>14, <2>1 DEF failures, Kept
<1>15. [by |-> a, at |-> time] \in failures
  BY DEF failures
<1>16. FailuresKept'
  <2>1. SUFFICES ASSUME NEW b \in Ended', checks'[b].failed, checks'[b].alert = "none",
                        checks'[b].ended + FailureWindow > time
                 PROVE  [by |-> b, at |-> checks'[b].ended] \in failures
    BY <1>1 DEF FailuresKept
  <2>2. CASE b = a
    BY <1>7, <1>11, <1>15, <2>2
  <2>3. CASE b # a
    BY <1>13, <1>14, <2>1, <2>3
  <2> QED
    BY <2>2, <2>3
<1>17. NoSilentGuessing'
  <2>1. SUFFICES ASSUME NEW g \in SUBSET {b \in Ended' : checks'[b].failed}, Cardinality(g) = MaxAuthFailures,
                        \A b, d \in g : checks'[b].ended < checks'[d].ended + FailureWindow,
                        \A b \in g : checks'[b].alert = "none"
                 PROVE  FALSE
    BY DEF NoSilentGuessing
  <2>2. CASE a \notin g
    <3>1. \A b \in g : b \in Ended /\ checks'[b] = checks[b]
      BY <1>13, <2>2
    <3>2. g \in SUBSET {b \in Ended : checks[b].failed}
      BY <2>1, <3>1
    <3>3. \A b, d \in g : checks[b].ended < checks[d].ended + FailureWindow
      BY <2>1, <3>1
    <3>4. \A b \in g : checks[b].alert = "none"
      BY <2>1, <3>1
    <3> QED
      BY <2>1, <3>2, <3>3, <3>4 DEF AnomalyInv, NoSilentGuessing
  <2>3. CASE a \in g
    <3> DEFINE e == [b \in g |-> checks'[b].ended]
    <3>1. ASSUME NEW b \in g PROVE [by |-> b, at |-> e[b]] \in failures
      <4>1. CASE b = a
        BY <1>7, <1>11, <1>15, <4>1
      <4>2. CASE b # a
        <5>1. b \in Ended /\ checks'[b] = checks[b] /\ checks[b].failed /\ checks[b].alert = "none"
          BY <1>13, <2>1, <4>2
        <5>2. time < checks[b].ended + FailureWindow
          BY <1>7, <1>11, <2>1, <2>3, <5>1
        <5>3. checks[b].ended \in Nat
          BY <1>2, <5>1, ChecksAre DEF Ended, AccessCheck
        <5>4. checks[b].ended + FailureWindow > time
          BY <1>2, <5>2, <5>3
        <5> QED
          BY <1>14, <5>1, <5>4
      <4> QED
        BY <4>1, <4>2
    <3> HIDE DEF e
    <3>2. Cardinality(g) <= Cardinality(failures)
      BY <1>4, <3>1, EachRemembered
    <3>3. ~(Cardinality(failures) >= MaxAuthFailures)
      BY <1>8, <1>11, <2>1, <2>3
    <3> QED
      BY <1>2, <1>4, <2>1, <3>2, <3>3
  <2> QED
    BY <2>2, <2>3
<1> QED
  BY <1>10, <1>12, <1>16, <1>17, SumsStay DEF AnomalyInv

\* A cleared tenant has nothing that is covered any more.
LEMMA ClearKeeps ==
    ASSUME AnomalyInv, clear_stats
    PROVE  AnomalyInv'
<1>1. /\ operations' = [u \in AccessUsers |-> 0] /\ recentFailures' = {} /\ UNCHANGED time
      /\ checks' = [a \in DOMAIN checks |-> IF checks[a].at \in {"done", "forgotten"} THEN Forgotten
                                             ELSE [checks[a] EXCEPT !.cleared = TRUE]]
  BY DEF clear_stats
<1>2. AnomalyShape
  BY DEF AnomalyInv
<1>3. PICK n \in Nat : n = Len(checks) /\ DOMAIN checks = 1..n
  BY <1>2, ChecksAre
<1>4. ASSUME NEW a \in 1..n
      PROVE  /\ checks'[a] \in AccessCheck \cup {Forgotten}
             /\ checks'[a].at = "forgotten" \/ checks'[a].cleared
             /\ checks'[a].at # "done"
             /\ checks'[a].at # "forgotten" => checks'[a] = [checks[a] EXCEPT !.cleared = TRUE] /\ checks[a] \in AccessCheck
  <2>1. CASE checks[a].at \in {"done", "forgotten"}
    BY <1>1, <1>3, <2>1 DEF Forgotten
  <2>2. CASE checks[a].at \notin {"done", "forgotten"}
    <3>1. checks[a] \in AccessCheck /\ checks'[a] = [checks[a] EXCEPT !.cleared = TRUE]
      BY <1>1, <1>2, <1>3, <2>2, ChecksAre
    <3> QED
      BY <2>2, <3>1 DEF AccessCheck
  <2> QED
    BY <2>1, <2>2
<1>5. DOMAIN checks' = 1..n /\ checks' \in Seq(AccessCheck \cup {Forgotten})
  <2>1. checks' \in [1..n -> AccessCheck \cup {Forgotten}]
    BY <1>1, <1>3, <1>4
  <2> QED
    BY <2>1
<1>6. IsFiniteSet({}) /\ Cardinality({}) = 0
  BY FS_EmptySet
<1>7. AnomalyShape'
  BY <1>1, <1>2, <1>5, <1>6 DEF AnomalyShape
<1>8. NotYetAnswered'
  <2>1. SUFFICES ASSUME NEW a \in 1..n
                 PROVE  /\ checks'[a].at \in {"count", "failures"} => checks'[a].alert = "none"
                        /\ checks'[a].at = "failures" => checks'[a].failed
    BY <1>5 DEF NotYetAnswered
  <2>2. CASE checks'[a].at # "forgotten"
    <3>1. PICK r : r = checks[a]
      OBVIOUS
    <3>2. checks'[a] = [r EXCEPT !.cleared = TRUE] /\ r \in AccessCheck
      BY <1>4, <2>2, <3>1
    <3>3. (r.at \in {"count", "failures"} => r.alert = "none") /\ (r.at = "failures" => r.failed)
      BY <1>3, <3>1 DEF AnomalyInv, NotYetAnswered
    <3>4. checks'[a].at = r.at /\ checks'[a].alert = r.alert /\ checks'[a].failed = r.failed
      BY <3>2 DEF AccessCheck
    <3> QED
      BY <3>3, <3>4
  <2> QED
    BY <2>2
<1>9. Ended' = {} /\ \A u \in AccessUsers : Recorded(u)' = {} /\ Passed(u)' = {}
  BY <1>4, <1>5 DEF Ended, Recorded, Passed
<1>10. SumsCover' /\ FewPass'
  <2>1. \A u \in AccessUsers : Cardinality(Recorded(u)') = 0 /\ Cardinality(Passed(u)') = 0 /\ operations'[u] = 0
    BY <1>1, <1>6, <1>9
  <2>2. 0 <= 0 /\ 0 <= MaxOpsPerMinute
    BY AnomalyAssumption
  <2> QED
    BY <2>1, <2>2 DEF SumsCover, FewPass
<1>11. BurstsTrue' /\ FailuresKept'
  BY <1>9 DEF BurstsTrue, FailuresKept
<1>12. NoSilentGuessing'
  <2>1. Silent' \subseteq Silent /\ \A a \in Silent' : checks'[a].ended = checks[a].ended
    BY <1>9 DEF Silent
  <2> QED
    BY <2>1, NoMoreSilent DEF AnomalyInv
<1> QED
  BY <1>7, <1>8, <1>10, <1>11, <1>12 DEF AnomalyInv

\* Time lets failures go, and none come back.
LEMMA TimeKeeps ==
    ASSUME AnomalyInv, TimePasses
    PROVE  AnomalyInv'
<1>1. time' = time + 1 /\ UNCHANGED <<checks, operations, recentFailures>> /\ time \in Nat
  BY DEF TimePasses, AnomalyInv, AnomalyShape
<1>2. AnomalyShape' /\ NotYetAnswered'
  BY <1>1 DEF AnomalyInv, AnomalyShape, NotYetAnswered
<1>3. Ended' = Ended /\ \A u \in AccessUsers : Recorded(u)' = Recorded(u) /\ Passed(u)' = Passed(u)
  BY <1>1 DEF Ended, Recorded, Passed
<1>4. SumsCover' /\ FewPass' /\ BurstsTrue' /\ NoSilentGuessing'
  BY <1>1, <1>3 DEF AnomalyInv, SumsCover, FewPass, BurstsTrue, NoSilentGuessing
<1>5. FailuresKept'
  <2>1. SUFFICES ASSUME NEW b \in Ended, checks[b].failed, checks[b].alert = "none",
                        checks[b].ended + FailureWindow > time + 1
                 PROVE  [by |-> b, at |-> checks[b].ended] \in recentFailures
    BY <1>1, <1>3 DEF FailuresKept
  <2>2. checks[b].ended \in Nat
    BY ChecksAre DEF AnomalyInv, Ended, AccessCheck
  <2>3. checks[b].ended + FailureWindow > time
    BY <1>1, <2>1, <2>2, AnomalyAssumption
  <2> QED
    BY <2>1, <2>3 DEF AnomalyInv, FailuresKept
<1> QED
  BY <1>2, <1>4, <1>5 DEF AnomalyInv

\* Every step of the detector keeps the invariant.
LEMMA AnomalyStep ==
    ASSUME AnomalyInv, [AnomalyNext]_anomalyVars
    PROVE  AnomalyInv'
<1>1. CASE UNCHANGED anomalyVars
  <2>1. UNCHANGED <<time, checks, operations, recentFailures>>
    BY <1>1 DEF anomalyVars
  <2>2. Ended' = Ended /\ \A u \in AccessUsers : Recorded(u)' = Recorded(u) /\ Passed(u)' = Passed(u)
    BY <2>1 DEF Ended, Recorded, Passed
  <2>3. AnomalyShape' /\ NotYetAnswered'
    BY <2>1 DEF AnomalyInv, AnomalyShape, NotYetAnswered
  <2>4. SumsCover' /\ FewPass' /\ BurstsTrue'
    BY <2>1, <2>2 DEF AnomalyInv, SumsCover, FewPass, BurstsTrue
  <2>5. FailuresKept' /\ NoSilentGuessing'
    BY <2>1, <2>2 DEF AnomalyInv, FailuresKept, NoSilentGuessing
  <2> QED
    BY <2>3, <2>4, <2>5 DEF AnomalyInv
<1>2. ASSUME NEW u \in AccessUsers, NEW f \in BOOLEAN, check_access(Access(u, f)) PROVE AnomalyInv'
  <2>1. UNCHANGED <<time, recentFailures>> /\ (check_off_hours(Access(u, f)) \/ record_access(Access(u, f)))
    BY <1>2 DEF check_access
  <2> QED
    BY <2>1, OffHoursKeeps, RecordKeeps
<1>3. ASSUME NEW a \in DOMAIN checks, check_high_frequency(a) \/ check_auth_failures(a) PROVE AnomalyInv'
  BY <1>3, FrequencyKeeps, GuessKeeps
<1>4. CASE clear_stats
  BY <1>4, ClearKeeps
<1>5. CASE TimePasses
  BY <1>5, TimeKeeps
<1> QED
  BY <1>1, <1>2, <1>3, <1>4, <1>5 DEF AnomalyNext

\* Before the first access.
LEMMA AnomalyInitial ==
    ASSUME AnomalyInit
    PROVE  AnomalyInv
<1>1. time = 0 /\ checks = <<>> /\ operations = [u \in AccessUsers |-> 0] /\ recentFailures = {}
  BY DEF AnomalyInit
<1>2. IsFiniteSet({}) /\ Cardinality({}) = 0
  BY FS_EmptySet
<1>3. DOMAIN checks = {} /\ checks \in Seq(AccessCheck \cup {Forgotten})
  BY <1>1
<1>4. Ended = {} /\ \A u \in AccessUsers : Recorded(u) = {} /\ Passed(u) = {}
  BY <1>3 DEF Ended, Recorded, Passed
<1>5. AnomalyShape /\ NotYetAnswered
  BY <1>1, <1>2, <1>3 DEF AnomalyShape, NotYetAnswered
<1>6. SumsCover /\ FewPass
  <2>1. \A u \in AccessUsers : Cardinality(Recorded(u)) = 0 /\ Cardinality(Passed(u)) = 0 /\ operations[u] = 0
    BY <1>1, <1>2, <1>4
  <2>2. 0 <= 0 /\ 0 <= MaxOpsPerMinute
    BY AnomalyAssumption
  <2> QED
    BY <2>1, <2>2 DEF SumsCover, FewPass
<1>7. BurstsTrue /\ FailuresKept
  BY <1>4 DEF BurstsTrue, FailuresKept
<1>8. NoSilentGuessing
  <2>1. SUFFICES ASSUME NEW g \in SUBSET {a \in Ended : checks[a].failed}, Cardinality(g) = MaxAuthFailures PROVE FALSE
    BY DEF NoSilentGuessing
  <2>2. g = {}
    BY <1>4
  <2> QED
    BY <1>2, <2>1, <2>2, AnomalyAssumption
<1> QED
  BY <1>5, <1>6, <1>7, <1>8 DEF AnomalyInv

\* The invariant gives what the runs check.
LEMMA AnomalyHolds ==
    ASSUME AnomalyInv
    PROVE  AnomalySound
<1>1. SUFFICES ASSUME NEW u \in AccessUsers, NEW mine, mine = {a \in Ended : checks[a].user = u}
               PROVE  /\ Cardinality(mine) > MaxOpsPerMinute => \E a \in mine : checks[a].alert # "none"
                      /\ (\E a \in mine : checks[a].alert = "HighFrequency") => operations[u] > MaxOpsPerMinute
  BY DEF AnomalyInv, AnomalySound, NoSilentBurst
<1>2. ASSUME Cardinality(mine) > MaxOpsPerMinute, \A a \in mine : checks[a].alert = "none" PROVE FALSE
  <2>1. mine \in SUBSET Passed(u)
    BY <1>1, <1>2 DEF Ended, Passed, Recorded
  <2>2. PICK p \in Nat, m \in Nat : p = Cardinality(Passed(u)) /\ m = MaxOpsPerMinute /\ p <= m
    BY RecordedFinite, AnomalyAssumption DEF AnomalyInv, FewPass
  <2>3. Cardinality(mine) \in Nat /\ Cardinality(mine) <= p
    BY <2>1, <2>2, RecordedFinite, PartAndOne DEF AnomalyInv
  <2> QED
    BY <1>2, <2>2, <2>3
<1>3. (\E a \in mine : checks[a].alert = "HighFrequency") => operations[u] > MaxOpsPerMinute
  BY <1>1 DEF AnomalyInv, BurstsTrue
<1> QED
  BY <1>2, <1>3

\* The limiters and the anomaly detector, for any number of requests and any
\* limits: the counting limiters let through no more than the limit in a window,
\* unless their store failed open; the sliding one lets through as many more as
\* there are other requests at once; and however the checks of accesses overlap,
\* no burst of accesses and no series of failed logins goes without an alert.
THEOREM CountersStaySound == CountersSpec => []CountersSound
<1>1. CountersInit => LimitInv /\ AnomalyInv
  BY LimitInitial, AnomalyInitial DEF CountersInit
<1>2. LimitInv /\ AnomalyInv /\ [CountersNext]_counterVars => (LimitInv /\ AnomalyInv)'
  <2> SUFFICES ASSUME LimitInv, AnomalyInv, [CountersNext]_counterVars
               PROVE  LimitInv' /\ AnomalyInv'
    OBVIOUS
  <2>1. [RateLimitsNext]_limitVars /\ [AnomalyNext]_anomalyVars
    BY DEF CountersNext, counterVars
  <2> QED
    BY <2>1, LimitStep, AnomalyStep
<1>3. LimitInv /\ AnomalyInv => CountersSound
  BY LimitSound, AnomalyHolds DEF CountersSound
<1> QED
  BY <1>1, <1>2, <1>3, PTL DEF CountersSpec
=============================================================================
