---------------------------- MODULE ListingProofs ----------------------------
(***************************************************************************)
(* Proofs about Listing, for any keys, prefixes and page sizes and any      *)
(* number of changes between the pages: whoever reads a listing to its end  *)
(* has been given each entry that was there all the time, and none twice.   *)
(*                                                                         *)
(* An entry stands for a block of keys of the store, those that begin with  *)
(* Block(e); list goes on behind the block, at Past(e).  The blocks of two  *)
(* entries are the same or apart, so that a page that starts between blocks *)
(* (Boundary) ends between blocks, and the marker that it returns takes the *)
(* next page to where it ended (StartIs).                                   *)
(***************************************************************************)
EXTENDS Listing, FiniteSetTheorems, WellFoundedInduction, TLAPS

-----------------------------------------------------------------------------
(* Induction over natural numbers *)

\* Every set of naturals has a least element.
LEMMA LeastElement ==
  ASSUME NEW T \in SUBSET Nat, T # {}
  PROVE  \E m \in T : \A k \in T : m <= k
<1> DEFINE R == OpToRel(<, Nat)
<1>1. IsWellFoundedOn(R, Nat)
  BY NatLessThanWellFounded
<1>2. \A x, y \in Nat : x < y => <<x, y>> \in R
  BY DEF OpToRel
<1>. HIDE DEF R
<1>3. PICK m \in T : \A k \in T : ~(<<k, m>> \in R)
  BY <1>1, WFMin
<1>4. ASSUME NEW k \in T PROVE m <= k
  <2>1. m \in Nat /\ k \in Nat /\ ~(k < m)
    BY <1>2, <1>3
  <2>. QED  BY <2>1
<1>. QED  BY <1>4

-----------------------------------------------------------------------------
(* The order of the store's keys *)

Text == Seq(Int)

\* a comes before b, or is b.
Upto(a, b) == ~Before(b, a)

\* What it takes to be before.
LEMMA BeforeAt ==
  ASSUME NEW a \in Text, NEW b \in Text, NEW i \in 1..Len(b), i <= Len(a) + 1,
         \A j \in 1..(i - 1) : a[j] = b[j], i <= Len(a) => a[i] < b[i]
  PROVE  Before(a, b)
BY DEF Before

\* The length and the symbols of a key of the store.
LEMMA TextIs ==
  ASSUME NEW a \in Text
  PROVE  Len(a) \in Nat /\ \A i \in 1..Len(a) : a[i] \in Int
BY DEF Text

\* Before is a strict order: no key is before itself ...
LEMMA BeforeIrreflexive == ASSUME NEW a \in Text PROVE ~Before(a, a)
BY TextIs DEF Before

\* ... what is before a key is before all that this key is before ...
LEMMA BeforeTransitive ==
  ASSUME NEW a \in Text, NEW b \in Text, NEW c \in Text, Before(a, b), Before(b, c)
  PROVE  Before(a, c)
<1>1. PICK i \in 1..Len(b) :
        /\ i <= Len(a) + 1
        /\ \A j \in 1..(i - 1) : a[j] = b[j]
        /\ i <= Len(a) => a[i] < b[i]
  BY DEF Before
<1>2. PICK k \in 1..Len(c) :
        /\ k <= Len(b) + 1
        /\ \A j \in 1..(k - 1) : b[j] = c[j]
        /\ k <= Len(b) => b[k] < c[k]
  BY DEF Before
<1>3. /\ Len(a) \in Nat /\ Len(b) \in Nat /\ Len(c) \in Nat
      /\ \A j \in 1..Len(a) : a[j] \in Int
      /\ \A j \in 1..Len(b) : b[j] \in Int
      /\ \A j \in 1..Len(c) : c[j] \in Int
  BY TextIs
<1>4. CASE i < k
  <2>1. i \in 1..Len(c) /\ \A j \in 1..(i - 1) : a[j] = c[j]
    BY <1>1, <1>2, <1>3, <1>4
  <2>2. b[i] = c[i]
    BY <1>1, <1>2, <1>3, <1>4
  <2>. QED  BY <1>1, <2>1, <2>2, BeforeAt
<1>5. CASE ~(i < k)
  <2>1. k <= Len(a) + 1 /\ \A j \in 1..(k - 1) : a[j] = c[j]
    BY <1>1, <1>2, <1>3, <1>5
  <2>2. k \in 1..Len(b) /\ b[k] < c[k]
    BY <1>1, <1>2, <1>3, <1>5
  <2>3. k <= Len(a) => a[k] < c[k]
    <3>1. CASE k = i
      BY <1>1, <1>3, <2>2, <3>1
    <3>2. CASE k < i
      BY <1>1, <1>3, <2>2, <3>2
    <3>. QED  BY <1>1, <1>2, <1>5, <3>1, <3>2
  <2>. QED  BY <2>1, <2>3, BeforeAt
<1>. QED  BY <1>4, <1>5

\* ... and of two keys that differ one is before the other.
LEMMA BeforeTotal ==
  ASSUME NEW a \in Text, NEW b \in Text
  PROVE  a = b \/ Before(a, b) \/ Before(b, a)
<1>1. /\ Len(a) \in Nat /\ Len(b) \in Nat
      /\ \A j \in 1..Len(a) : a[j] \in Int
      /\ \A j \in 1..Len(b) : b[j] \in Int
  BY TextIs
<1> DEFINE Differ == {i \in Nat : i \in 1..Len(a) /\ i \in 1..Len(b) /\ a[i] # b[i]}
<1>2. CASE Differ = {}
  <2>1. \A j \in 1..Len(a) : j \in 1..Len(b) => a[j] = b[j]
    BY <1>1, <1>2
  <2>2. CASE Len(a) = Len(b)
    BY <2>1, <2>2, <1>1 DEF Text
  <2>3. CASE Len(a) < Len(b)
    <3>1. Len(a) + 1 \in 1..Len(b) /\ \A j \in 1..((Len(a) + 1) - 1) : a[j] = b[j]
      BY <1>1, <2>1, <2>3
    <3>. QED  BY <1>1, <3>1, BeforeAt
  <2>4. CASE Len(b) < Len(a)
    <3>1. Len(b) + 1 \in 1..Len(a) /\ \A j \in 1..((Len(b) + 1) - 1) : b[j] = a[j]
      BY <1>1, <2>1, <2>4
    <3>. QED  BY <1>1, <3>1, BeforeAt
  <2>. QED  BY <1>1, <2>2, <2>3, <2>4
<1>3. CASE Differ # {}
  <2>1. PICK i \in Differ : \A k \in Differ : i <= k
    BY <1>3, LeastElement
  <2>2. i \in 1..Len(a) /\ i \in 1..Len(b) /\ a[i] # b[i]
    BY <2>1
  <2>3. \A j \in 1..(i - 1) : a[j] = b[j]
    BY <1>1, <2>1, <2>2
  <2>4. CASE a[i] < b[i]
    BY <1>1, <2>2, <2>3, <2>4, BeforeAt
  <2>5. CASE b[i] < a[i]
    BY <1>1, <2>2, <2>3, <2>5, BeforeAt
  <2>. QED  BY <1>1, <2>2, <2>4, <2>5
<1>. QED  BY <1>2, <1>3

\* Upto is a total order, and Before its strict part.
LEMMA UptoOrder ==
  ASSUME NEW a \in Text, NEW b \in Text, NEW c \in Text
  PROVE  /\ Upto(a, b) /\ Upto(b, c) => Upto(a, c)
         /\ Upto(a, b) /\ Before(b, c) => Before(a, c)
         /\ Before(a, b) /\ Upto(b, c) => Before(a, c)
         /\ Before(a, b) => Upto(a, b)
         /\ Upto(a, b) \/ Before(b, a)
         /\ ~(Upto(a, b) /\ Before(b, a))
         /\ Upto(a, a)
         /\ Upto(a, b) /\ Upto(b, a) => a = b
<1>1. /\ a = b \/ Before(a, b) \/ Before(b, a)
      /\ b = c \/ Before(b, c) \/ Before(c, b)
      /\ a = c \/ Before(a, c) \/ Before(c, a)
  BY BeforeTotal
<1>2. ~Before(a, a) /\ ~Before(b, b) /\ ~Before(c, c)
  BY BeforeIrreflexive
<1>3. /\ Before(a, b) /\ Before(b, c) => Before(a, c)
      /\ Before(a, b) /\ Before(b, a) => Before(a, a)
      /\ Before(b, c) /\ Before(c, a) => Before(b, a)
      /\ Before(c, a) /\ Before(a, b) => Before(c, b)
      /\ Before(c, b) /\ Before(b, a) => Before(c, a)
      /\ Before(b, c) /\ Before(c, b) => Before(b, b)
      /\ Before(a, c) /\ Before(c, a) => Before(a, a)
  BY BeforeTransitive
<1>. QED  BY <1>1, <1>2, <1>3 DEF Upto

\* A key with a prefix lies between the prefix and its successor, and only such.
LEMMA PrefixFirst ==
  ASSUME NEW k \in Text, NEW p \in Text, HasPrefix(k, p)
  PROVE  Upto(p, k)
BY TextIs DEF HasPrefix, Upto, Before

\* PrefixSuccessor changes the last symbol, and nothing else.
LEMMA SuccessorIs ==
  ASSUME NEW p \in Text, p # <<>>
  PROVE  /\ PrefixSuccessor(p) \in Text /\ Len(PrefixSuccessor(p)) = Len(p) /\ Len(p) >= 1
         /\ \A i \in 1..(Len(p) - 1) : PrefixSuccessor(p)[i] = p[i]
         /\ PrefixSuccessor(p)[Len(p)] = p[Len(p)] + 1
BY DEF Text, PrefixSuccessor

\* All that begins with a prefix is before the prefix's successor ...
LEMMA PrefixBefore ==
  ASSUME NEW k \in Text, NEW p \in Text, p # <<>>, HasPrefix(k, p)
  PROVE  Before(k, PrefixSuccessor(p))
<1>1. /\ PrefixSuccessor(p) \in Text /\ Len(PrefixSuccessor(p)) = Len(p) /\ Len(p) >= 1
      /\ \A i \in 1..(Len(p) - 1) : PrefixSuccessor(p)[i] = p[i]
      /\ PrefixSuccessor(p)[Len(p)] = p[Len(p)] + 1
  BY SuccessorIs
<1>2. Len(p) \in Nat /\ Len(k) \in Nat /\ p[Len(p)] \in Int /\ Len(p) <= Len(k) /\ \A i \in 1..Len(p) : k[i] = p[i]
  BY <1>1, TextIs DEF HasPrefix
<1> DEFINE n == Len(p)  q == PrefixSuccessor(p)
<1>3. n \in 1..Len(q) /\ n <= Len(k) + 1 /\ k[n] < q[n]
  BY <1>1, <1>2
<1>4. \A j \in 1..(n - 1) : k[j] = q[j]
  BY <1>1, <1>2
<1>. HIDE DEF n, q
<1>. QED  BY <1>1, <1>3, <1>4, BeforeAt DEF q

\* ... and all between the two begins with the prefix.
LEMMA BetweenPrefix ==
  ASSUME NEW k \in Text, NEW p \in Text, p # <<>>, Upto(p, k), Before(k, PrefixSuccessor(p))
  PROVE  HasPrefix(k, p)
<1> DEFINE q == PrefixSuccessor(p)
<1>1. /\ q \in Text /\ Len(q) = Len(p) /\ Len(p) >= 1
      /\ \A i \in 1..(Len(p) - 1) : q[i] = p[i]
      /\ q[Len(p)] = p[Len(p)] + 1
  BY SuccessorIs
<1>2. /\ Len(p) \in Nat /\ Len(k) \in Nat
      /\ \A j \in 1..Len(p) : p[j] \in Int
      /\ \A j \in 1..Len(k) : k[j] \in Int
  BY TextIs
<1>3. PICK i \in 1..Len(q) :
        /\ i <= Len(k) + 1
        /\ \A j \in 1..(i - 1) : k[j] = q[j]
        /\ i <= Len(k) => k[i] < q[i]
  BY DEF Before
<1>4. ~Before(k, p)
  BY DEF Upto
<1>. HIDE DEF q
<1>5. \A j \in 1..(i - 1) : k[j] = p[j]
  BY <1>1, <1>2, <1>3
<1>6. i \in 1..Len(p) /\ i <= Len(k) /\ ~(k[i] < p[i])
  BY <1>1, <1>2, <1>3, <1>4, <1>5, BeforeAt
<1>7. i = Len(p)
  <2>1. ASSUME i # Len(p) PROVE FALSE
    <3>1. i \in 1..(Len(p) - 1)
      BY <1>2, <1>6, <2>1
    <3>2. q[i] = p[i]
      BY <1>1, <3>1
    <3>. QED  BY <1>3, <1>6, <3>2
  <2>. QED  BY <2>1
<1>8. k[i] = p[i]
  BY <1>1, <1>2, <1>3, <1>6, <1>7
<1>. QED  BY <1>2, <1>5, <1>6, <1>7, <1>8 DEF HasPrefix

\* Of two prefixes neither of which begins with the other, one comes with all
\* its keys before the other.
LEMMA PrefixesApart ==
  ASSUME NEW p \in Text, NEW q \in Text, p # <<>>, q # <<>>, ~HasPrefix(p, q), ~HasPrefix(q, p)
  PROVE  Upto(PrefixSuccessor(p), q) \/ Upto(PrefixSuccessor(q), p)
<1>1. PrefixSuccessor(p) \in Text /\ PrefixSuccessor(q) \in Text
  BY SuccessorIs
<1>2. CASE Upto(p, q)
  BY <1>1, <1>2, BetweenPrefix DEF Upto
<1>3. CASE Upto(q, p)
  BY <1>1, <1>3, BetweenPrefix DEF Upto
<1>4. Upto(p, q) \/ Upto(q, p)
  BY UptoOrder
<1>. QED  BY <1>2, <1>3, <1>4

\* The keys with a prefix are together.
LEMMA PrefixTogether ==
  ASSUME NEW p \in Text, NEW a \in Text, NEW b \in Text, Upto(p, a), Upto(a, b), HasPrefix(b, p)
  PROVE  HasPrefix(a, p)
<1>1. CASE p = <<>>
  BY <1>1, TextIs DEF HasPrefix
<1>2. CASE p # <<>>
  <2>1. PrefixSuccessor(p) \in Text /\ Before(b, PrefixSuccessor(p))
    BY <1>2, SuccessorIs, PrefixBefore
  <2>2. Before(a, PrefixSuccessor(p))
    BY <2>1, UptoOrder
  <2>. QED  BY <1>2, <2>2, BetweenPrefix
<1>. QED  BY <1>1, <1>2

-----------------------------------------------------------------------------
(* The keys of the store: an object's key, a NUL and one symbol more *)

Names == Seq(Nat \ {Nul})

\* An object's key has no NUL.
LEMMA NameIs ==
  ASSUME NEW k \in Names
  PROVE  k \in Text /\ Len(k) \in Nat /\ \A i \in 1..Len(k) : k[i] \in Nat /\ k[i] # 0
BY DEF Names, Text, Nul

\* One symbol more.
LEMMA AppendIs ==
  ASSUME NEW t \in Text, NEW z \in Int
  PROVE  /\ t \o <<z>> \in Text /\ t \o <<z>> # <<>>
         /\ Len(t \o <<z>>) = Len(t) + 1 /\ (t \o <<z>>)[Len(t) + 1] = z
         /\ \A i \in 1..Len(t) : (t \o <<z>>)[i] = t[i]
BY DEF Text

\* ObjectPrefix, symbol by symbol.
LEMMA ObjectPrefixIs ==
  ASSUME NEW k \in Names
  PROVE  /\ ObjectPrefix(k) \in Text /\ ObjectPrefix(k) # <<>>
         /\ Len(ObjectPrefix(k)) = Len(k) + 1 /\ ObjectPrefix(k)[Len(k) + 1] = 0
         /\ \A i \in 1..Len(k) : ObjectPrefix(k)[i] = k[i]
BY NameIs, AppendIs DEF ObjectPrefix, Nul

\* ObjectKey and UploadKey, of the symbol they end with.
StoreKey(k, z) == ObjectPrefix(k) \o <<z>>

\* A key of the store, symbol by symbol.
LEMMA StoreKeyIs ==
  ASSUME NEW k \in Names, NEW z \in Int
  PROVE  /\ StoreKey(k, z) \in Text /\ StoreKey(k, z) # <<>>
         /\ Len(StoreKey(k, z)) = Len(k) + 2
         /\ StoreKey(k, z)[Len(k) + 1] = 0 /\ StoreKey(k, z)[Len(k) + 2] = z
         /\ \A i \in 1..Len(k) : StoreKey(k, z)[i] = k[i]
<1> DEFINE t == ObjectPrefix(k)
<1>1. /\ t \in Text /\ Len(t) = Len(k) + 1 /\ t[Len(k) + 1] = 0
      /\ \A i \in 1..Len(k) : t[i] = k[i]
  BY ObjectPrefixIs
<1>2. Len(k) \in Nat
  BY NameIs
<1>3. StoreKey(k, z) = t \o <<z>>
  BY DEF StoreKey
<1>. HIDE DEF t
<1>4. /\ t \o <<z>> \in Text /\ t \o <<z>> # <<>>
      /\ Len(t \o <<z>>) = Len(t) + 1 /\ (t \o <<z>>)[Len(t) + 1] = z
      /\ \A i \in 1..Len(t) : (t \o <<z>>)[i] = t[i]
  BY <1>1, AppendIs
<1>5. Len(k) + 1 \in 1..Len(t) /\ (Len(k) + 1) + 1 = Len(k) + 2 /\ \A i \in 1..Len(k) : i \in 1..Len(t)
  BY <1>1, <1>2
<1>. QED  BY <1>1, <1>3, <1>4, <1>5

\* Two keys of the same symbols are the same.
LEMMA SameName ==
  ASSUME NEW k \in Names, NEW l \in Names, Len(k) = Len(l), \A i \in 1..Len(k) : k[i] = l[i]
  PROVE  k = l
BY SMTT(20) DEF Names

\* Which keys have a name, with its NUL or without, for a prefix.
LEMMA NamePrefix ==
  ASSUME NEW k \in Names, NEW p \in Names, NEW z \in Int
  PROVE  /\ HasPrefix(StoreKey(k, z), p) <=> HasPrefix(k, p)
         /\ HasPrefix(ObjectPrefix(k), p) <=> HasPrefix(k, p)
<1>1. /\ Len(k) \in Nat /\ Len(p) \in Nat /\ \A i \in 1..Len(p) : p[i] # 0
  BY NameIs
<1>2. CASE Len(p) <= Len(k)
  BY <1>1, <1>2, StoreKeyIs, ObjectPrefixIs DEF HasPrefix
<1>3. CASE ~(Len(p) <= Len(k))
  <2>1. Len(k) + 1 \in 1..Len(p)
    BY <1>1, <1>3
  <2>2. StoreKey(k, z)[Len(k) + 1] = 0 /\ ObjectPrefix(k)[Len(k) + 1] = 0 /\ p[Len(k) + 1] # 0
    BY <1>1, <2>1, StoreKeyIs, ObjectPrefixIs
  <2>. QED  BY <1>3, <2>1, <2>2 DEF HasPrefix
<1>. QED  BY <1>2, <1>3

\* No prefix that a client asks for reaches past the NUL.
LEMMA NoNul ==
  ASSUME NEW k \in Names, NEW p \in Names, NEW z \in Int
  PROVE  ~HasPrefix(p, ObjectPrefix(k)) /\ ~HasPrefix(p, StoreKey(k, z))
<1>1. /\ Len(k) \in Nat /\ Len(p) \in Nat /\ \A i \in 1..Len(p) : p[i] # 0
  BY NameIs
<1>2. /\ Len(k) + 1 \in 1..Len(ObjectPrefix(k)) /\ ObjectPrefix(k)[Len(k) + 1] = 0
      /\ Len(k) + 1 \in 1..Len(StoreKey(k, z)) /\ StoreKey(k, z)[Len(k) + 1] = 0
  BY <1>1, StoreKeyIs, ObjectPrefixIs
<1>. QED  BY <1>1, <1>2 DEF HasPrefix

\* An object's prefix is that of its own keys only, for all that one key begins another.
LEMMA ObjectPrefixes ==
  ASSUME NEW k \in Names, NEW l \in Names, NEW z \in Int
  PROVE  /\ HasPrefix(StoreKey(k, z), ObjectPrefix(l)) <=> k = l
         /\ HasPrefix(ObjectPrefix(k), ObjectPrefix(l)) <=> k = l
<1>1. /\ Len(k) \in Nat /\ Len(l) \in Nat /\ (\A i \in 1..Len(k) : k[i] # 0) /\ \A i \in 1..Len(l) : l[i] # 0
  BY NameIs
<1> DEFINE s == StoreKey(k, z)  t == ObjectPrefix(k)  p == ObjectPrefix(l)
<1>2. /\ Len(s) = Len(k) + 2 /\ s[Len(k) + 1] = 0 /\ \A i \in 1..Len(k) : s[i] = k[i]
  BY StoreKeyIs
<1>3. /\ Len(t) = Len(k) + 1 /\ t[Len(k) + 1] = 0 /\ \A i \in 1..Len(k) : t[i] = k[i]
  BY ObjectPrefixIs
<1>4. /\ Len(p) = Len(l) + 1 /\ p[Len(l) + 1] = 0 /\ \A i \in 1..Len(l) : p[i] = l[i]
  BY ObjectPrefixIs
<1>. HIDE DEF s, t, p
<1>5. ASSUME k = l PROVE HasPrefix(s, p) /\ HasPrefix(t, p)
  BY <1>1, <1>2, <1>3, <1>4, <1>5 DEF HasPrefix
<1>6. ASSUME HasPrefix(s, p) PROVE k = l
  <2>1. Len(p) <= Len(s) /\ \A i \in 1..Len(p) : s[i] = p[i]
    BY <1>6 DEF HasPrefix
  <2>2. Len(l) = Len(k)
    <3>1. ASSUME Len(l) < Len(k) PROVE FALSE
      <4>1. Len(l) + 1 \in 1..Len(k) /\ Len(l) + 1 \in 1..Len(p)
        BY <1>1, <1>4, <3>1
      <4>. QED  BY <1>1, <1>2, <1>4, <2>1, <4>1
    <3>2. ASSUME Len(k) < Len(l) PROVE FALSE
      <4>1. Len(k) + 1 \in 1..Len(l) /\ Len(k) + 1 \in 1..Len(p)
        BY <1>1, <1>4, <3>2
      <4>. QED  BY <1>1, <1>2, <1>4, <2>1, <4>1
    <3>. QED  BY <1>1, <3>1, <3>2
  <2>3. \A i \in 1..Len(k) : k[i] = l[i]
    BY <1>1, <1>2, <1>4, <2>1, <2>2
  <2>. QED  BY <2>2, <2>3, SameName
<1>7. ASSUME HasPrefix(t, p) PROVE k = l
  <2>1. Len(p) <= Len(t) /\ \A i \in 1..Len(p) : t[i] = p[i]
    BY <1>7 DEF HasPrefix
  <2>2. Len(l) = Len(k)
    <3>1. ASSUME Len(l) < Len(k) PROVE FALSE
      <4>1. Len(l) + 1 \in 1..Len(k) /\ Len(l) + 1 \in 1..Len(p)
        BY <1>1, <1>4, <3>1
      <4>. QED  BY <1>1, <1>3, <1>4, <2>1, <4>1
    <3>. QED  BY <1>1, <1>3, <1>4, <2>1, <3>1
  <2>3. \A i \in 1..Len(k) : k[i] = l[i]
    BY <1>1, <1>3, <1>4, <2>1, <2>2
  <2>. QED  BY <2>2, <2>3, SameName
<1>. QED  BY <1>5, <1>6, <1>7 DEF s, t, p

\* No key of the store begins another.
LEMMA StoreKeys ==
  ASSUME NEW k \in Names, NEW l \in Names, NEW z \in Int, NEW y \in Int, HasPrefix(StoreKey(k, z), StoreKey(l, y))
  PROVE  k = l /\ z = y
<1>1. Len(k) \in Nat /\ Len(l) \in Nat
  BY NameIs
<1> DEFINE s == StoreKey(k, z)  p == StoreKey(l, y)
<1>2. /\ Len(s) = Len(k) + 2 /\ s[Len(k) + 2] = z
  BY StoreKeyIs
<1>3. /\ Len(p) = Len(l) + 2 /\ p[Len(l) + 1] = 0 /\ p[Len(l) + 2] = y /\ \A i \in 1..Len(l) : p[i] = l[i]
  BY StoreKeyIs
<1>4. /\ Len(ObjectPrefix(l)) = Len(l) + 1 /\ ObjectPrefix(l)[Len(l) + 1] = 0
      /\ \A i \in 1..Len(l) : ObjectPrefix(l)[i] = l[i]
  BY ObjectPrefixIs
<1>5. Len(p) <= Len(s) /\ \A i \in 1..Len(p) : s[i] = p[i]
  BY DEF HasPrefix
<1>. HIDE DEF s, p
<1>6. HasPrefix(s, ObjectPrefix(l))
  <2>1. \A i \in 1..(Len(l) + 1) : i \in 1..Len(p) /\ p[i] = ObjectPrefix(l)[i]
    BY <1>1, <1>3, <1>4
  <2>. QED  BY <1>1, <1>3, <1>4, <1>5, <2>1 DEF HasPrefix
<1>7. k = l
  BY <1>6, ObjectPrefixes DEF s
<1>8. Len(l) + 2 \in 1..Len(p)
  BY <1>1, <1>3
<1>. QED  BY <1>2, <1>3, <1>5, <1>7, <1>8

-----------------------------------------------------------------------------
(* Entries, and the keys that each stands for *)

Options ==
  [kind : {"objects", "versions", "uploads"}, prefix : Names, delimiter : BOOLEAN, max : Nat \ {0}]

EntryRecord == [what : {"prefix", "object", "version", "null", "upload"}, key : Names, id : Nat]

\* The entries that a listing can have.
Possible(opt, e) ==
  /\ e \in EntryRecord /\ HasPrefix(e.key, opt.prefix)
  /\ e.what = "prefix" =>
       /\ opt.delimiter /\ Len(e.key) > Len(opt.prefix) /\ e.key[Len(e.key)] = Slash
       /\ \A i \in 1..(Len(e.key) - 1) : i > Len(opt.prefix) => e.key[i] # Slash
       /\ e.id = 0
  /\ e.what # "prefix" =>
       /\ opt.delimiter => \A i \in 1..Len(e.key) : i > Len(opt.prefix) => e.key[i] # Slash
       /\ e.key \in ListKeys
       /\ opt.kind = "objects" => e.what = "object" /\ e.id = 0
       /\ opt.kind = "versions" => e.what \in {"version", "null"} /\ e.id # 0
       /\ opt.kind = "uploads" => e.what = "upload" /\ e.id # 0

\* What all the keys that an entry stands for begin with, and nothing else.
Block(e) ==
  CASE e.what = "prefix" -> e.key
    [] e.what = "object" -> ObjectPrefix(e.key)
    [] e.what = "upload" -> StoreKey(e.key, e.id)
    [] e.what \in {"version", "null"} -> StoreKey(e.key, MaxSeq - e.id)

VersionRecord == [key : ListKeys, seq : Nat \ {0}, marker : BOOLEAN, null : BOOLEAN]
UploadRecord == [key : ListKeys, id : Nat \ {0}]
ItemRecord(opt) == IF opt.kind = "uploads" THEN UploadRecord ELSE VersionRecord

\* What ListingAssumption says of the keys, and of the complemented sequence.
LEMMA ListKeysAre ==
  /\ ListKeys \subseteq Names /\ Prefixes \subseteq Names /\ <<>> \notin ListKeys
  /\ MaxSeq \in Int
<1>1. Cardinality(ListKeys) \in Nat
  BY ListingAssumption, FS_CardinalityType
<1>. QED  BY <1>1, ListingAssumption DEF Names, MaxSeq

\* The symbol that a block of a version or an upload ends with.
Symbol(e) == IF e.what = "upload" THEN e.id ELSE MaxSeq - e.id

\* The block of an entry, and its end, by what the entry is.
LEMMA BlockCases ==
  ASSUME NEW e \in EntryRecord
  PROVE  /\ e.key \in Names /\ e.id \in Int /\ Symbol(e) \in Int
         /\ e.what = "prefix" => Block(e) = e.key /\ Past(e) = PrefixSuccessor(Block(e))
         /\ e.what = "object" => Block(e) = ObjectPrefix(e.key) /\ Past(e) = PrefixSuccessor(Block(e))
         /\ e.what \notin {"prefix", "object"} =>
              Block(e) = StoreKey(e.key, Symbol(e)) /\ Past(e) = Block(e) \o <<0>>
<1>1. /\ e.key \in Names /\ e.id \in Nat /\ e.what \in {"prefix", "object", "version", "null", "upload"}
  BY DEF EntryRecord
<1>2. Symbol(e) \in Int
  BY <1>1, ListKeysAre DEF Symbol
<1>3. CASE e.what = "prefix"
  BY <1>1, <1>2, <1>3 DEF Block, Past
<1>4. CASE e.what = "object"
  BY <1>1, <1>2, <1>4 DEF Block, Past
<1>5. CASE e.what = "upload"
  BY <1>1, <1>2, <1>5 DEF Block, Past, StoreKey, UploadKey, Symbol, Nul
<1>6. CASE e.what \in {"version", "null"}
  <2> DEFINE z == MaxSeq - e.id
  <2>1. Symbol(e) = z
    BY <1>6 DEF Symbol
  <2>2. Block(e) = StoreKey(e.key, z)
    BY <1>6 DEF Block
  <2>3. Past(e) = (ObjectPrefix(e.key) \o <<z>>) \o <<0>>
    BY <1>6 DEF Past, ObjectKey, Nul
  <2>. HIDE DEF z
  <2>. QED  BY <1>1, <1>2, <1>6, <2>1, <2>2, <2>3 DEF StoreKey
<1>. QED  BY <1>1, <1>3, <1>4, <1>5, <1>6

\* A block begins before it ends, and at or behind the prefix that is listed.
LEMMA BlockIs ==
  ASSUME NEW opt \in Options, NEW e, Possible(opt, e)
  PROVE  /\ Block(e) \in Text /\ Block(e) # <<>> /\ Past(e) \in Text
         /\ Before(Block(e), Past(e)) /\ Upto(Past(e), PrefixSuccessor(Block(e)))
         /\ HasPrefix(Block(e), opt.prefix)
<1>1. /\ e \in EntryRecord /\ HasPrefix(e.key, opt.prefix) /\ opt.prefix \in Names
      /\ e.what = "prefix" => Len(e.key) > Len(opt.prefix)
  BY DEF Possible, Options
<1>2. /\ e.key \in Names /\ Symbol(e) \in Int
      /\ e.what = "prefix" => Block(e) = e.key /\ Past(e) = PrefixSuccessor(Block(e))
      /\ e.what = "object" => Block(e) = ObjectPrefix(e.key) /\ Past(e) = PrefixSuccessor(Block(e))
      /\ e.what \notin {"prefix", "object"} =>
              Block(e) = StoreKey(e.key, Symbol(e)) /\ Past(e) = Block(e) \o <<0>>
  BY <1>1, BlockCases
<1>3. Block(e) \in Text /\ Block(e) # <<>> /\ HasPrefix(Block(e), opt.prefix)
  <2>1. CASE e.what = "prefix"
    <3>1. Len(opt.prefix) \in Nat
      BY <1>1, NameIs
    <3>. QED  BY <1>1, <1>2, <2>1, <3>1, NameIs
  <2>2. CASE e.what = "object"
    BY <1>1, <1>2, <2>2, ObjectPrefixIs, NamePrefix
  <2>3. CASE e.what \notin {"prefix", "object"}
    BY <1>1, <1>2, <2>3, StoreKeyIs, NamePrefix
  <2>. QED  BY <2>1, <2>2, <2>3
<1>4. HasPrefix(Block(e), Block(e))
  BY <1>3, TextIs DEF HasPrefix
<1>5. PrefixSuccessor(Block(e)) \in Text /\ Before(Block(e), PrefixSuccessor(Block(e)))
  BY <1>3, <1>4, SuccessorIs, PrefixBefore
<1>6. CASE e.what \in {"prefix", "object"}
  BY <1>2, <1>3, <1>5, <1>6, UptoOrder
<1>7. CASE e.what \notin {"prefix", "object"}
  <2> DEFINE b == Block(e)
  <2>1. Past(e) = b \o <<0>>
    BY <1>2, <1>7
  <2>2. b \in Text /\ b # <<>> /\ PrefixSuccessor(b) \in Text
    BY <1>3, <1>5
  <2>. HIDE DEF b
  <2>3. /\ b \o <<0>> \in Text /\ Len(b \o <<0>>) = Len(b) + 1 /\ \A i \in 1..Len(b) : (b \o <<0>>)[i] = b[i]
    BY <2>2, AppendIs
  <2>4. Len(b) \in Nat
    BY <2>2, TextIs
  <2>5. HasPrefix(b \o <<0>>, b) /\ b # b \o <<0>>
    BY <2>3, <2>4 DEF HasPrefix
  <2>6. Upto(b, b \o <<0>>) /\ Before(b \o <<0>>, PrefixSuccessor(b))
    BY <2>2, <2>3, <2>5, PrefixFirst, PrefixBefore
  <2>7. Before(b, b \o <<0>>)
    BY <2>2, <2>3, <2>5, <2>6, UptoOrder
  <2>8. Upto(b \o <<0>>, PrefixSuccessor(b))
    BY <2>2, <2>3, <2>6, UptoOrder
  <2>. QED  BY <1>3, <2>1, <2>2, <2>3, <2>7, <2>8 DEF b
<1>. QED  BY <1>3, <1>6, <1>7

\* Two entries of a listing stand for the same keys or for none in common.
LEMMA BlocksSame ==
  ASSUME NEW opt \in Options, NEW e, NEW f, Possible(opt, e), Possible(opt, f), HasPrefix(Block(f), Block(e))
  PROVE  /\ Block(e) = Block(f) /\ Past(e) = Past(f)
         /\ e.key = f.key /\ (e.what = "prefix" <=> f.what = "prefix") /\ e.id = f.id
<1>1. /\ e \in EntryRecord /\ HasPrefix(e.key, opt.prefix)
      /\ f \in EntryRecord /\ HasPrefix(f.key, opt.prefix) /\ opt.prefix \in Names
      /\ opt.kind \in {"objects", "versions", "uploads"}
  BY DEF Possible, Options
<1>2. /\ e.key \in Names /\ Symbol(e) \in Int /\ e.id \in Int
      /\ e.what = "prefix" => Block(e) = e.key /\ Past(e) = PrefixSuccessor(Block(e))
      /\ e.what = "object" => Block(e) = ObjectPrefix(e.key) /\ Past(e) = PrefixSuccessor(Block(e))
      /\ e.what \notin {"prefix", "object"} =>
              Block(e) = StoreKey(e.key, Symbol(e)) /\ Past(e) = Block(e) \o <<0>>
  BY <1>1, BlockCases
<1>3. /\ f.key \in Names /\ Symbol(f) \in Int /\ f.id \in Int
      /\ f.what = "prefix" => Block(f) = f.key /\ Past(f) = PrefixSuccessor(Block(f))
      /\ f.what = "object" => Block(f) = ObjectPrefix(f.key) /\ Past(f) = PrefixSuccessor(Block(f))
      /\ f.what \notin {"prefix", "object"} =>
              Block(f) = StoreKey(f.key, Symbol(f)) /\ Past(f) = Block(f) \o <<0>>
  BY <1>1, BlockCases
<1>4. Len(e.key) \in Nat /\ Len(f.key) \in Nat /\ Len(opt.prefix) \in Nat
  BY <1>1, <1>2, <1>3, NameIs
<1>5. CASE e.what = "prefix"
  <2>1. /\ opt.delimiter /\ Len(e.key) > Len(opt.prefix) /\ e.key[Len(e.key)] = Slash /\ e.id = 0
    BY <1>5 DEF Possible
  <2>2. HasPrefix(f.key, e.key)
    <3>1. CASE f.what = "prefix"
      BY <1>2, <1>3, <1>5, <3>1
    <3>2. CASE f.what = "object"
      BY <1>2, <1>3, <1>5, <3>2, NamePrefix
    <3>3. CASE f.what \notin {"prefix", "object"}
      BY <1>2, <1>3, <1>5, <3>3, NamePrefix
    <3>. QED  BY <3>1, <3>2, <3>3
  <2>3. Len(e.key) <= Len(f.key) /\ Len(e.key) \in 1..Len(f.key) /\ f.key[Len(e.key)] = Slash
        /\ \A i \in 1..Len(e.key) : f.key[i] = e.key[i]
    BY <1>4, <2>1, <2>2 DEF HasPrefix
  <2>4. f.what = "prefix"
    BY <1>4, <2>1, <2>3 DEF Possible
  <2>5. f.id = 0 /\ \A i \in 1..(Len(f.key) - 1) : i > Len(opt.prefix) => f.key[i] # Slash
    BY <2>4 DEF Possible
  <2>6. Len(e.key) = Len(f.key)
    BY <1>4, <2>1, <2>3, <2>5
  <2>7. e.key = f.key
    BY <1>2, <1>3, <2>3, <2>6, SameName
  <2>. QED  BY <1>2, <1>3, <1>5, <2>1, <2>4, <2>5, <2>7
<1>6. CASE e.what = "object"
  <2>1. opt.kind = "objects" /\ e.id = 0
    BY <1>1, <1>6 DEF Possible
  <2>2. f.what # "prefix"
    BY <1>2, <1>3, <1>6, NoNul
  <2>3. f.what = "object" /\ f.id = 0
    BY <2>1, <2>2 DEF Possible
  <2>4. e.key = f.key
    BY <1>2, <1>3, <1>6, <2>3, ObjectPrefixes
  <2>. QED  BY <1>2, <1>3, <1>6, <2>1, <2>3, <2>4
<1>7. CASE e.what \notin {"prefix", "object"}
  <2>1. opt.kind # "objects"
    BY <1>7 DEF Possible
  <2>2. f.what # "prefix"
    BY <1>2, <1>3, <1>7, NoNul
  <2>3. f.what \notin {"prefix", "object"} /\ (e.what = "upload" <=> f.what = "upload")
    BY <1>1, <1>7, <2>1, <2>2 DEF Possible
  <2>4. e.key = f.key /\ Symbol(e) = Symbol(f)
    BY <1>2, <1>3, <1>7, <2>3, StoreKeys
  <2>5. e.id = f.id
    BY <1>2, <1>3, <2>3, <2>4, ListKeysAre DEF Symbol
  <2>. QED  BY <1>2, <1>3, <1>7, <2>3, <2>4, <2>5
<1>. QED  BY <1>5, <1>6, <1>7

\* Two entries stand for the same keys, or one ends before the other begins.
LEMMA BlocksApart ==
  ASSUME NEW opt \in Options, NEW e, NEW f, Possible(opt, e), Possible(opt, f)
  PROVE  \/ Block(e) = Block(f) /\ Past(e) = Past(f)
         \/ Upto(Past(e), Block(f)) \/ Upto(Past(f), Block(e))
<1> DEFINE b == Block(e)  c == Block(f)
<1>1. b \in Text /\ b # <<>> /\ Past(e) \in Text /\ Upto(Past(e), PrefixSuccessor(b))
  BY BlockIs
<1>2. c \in Text /\ c # <<>> /\ Past(f) \in Text /\ Upto(Past(f), PrefixSuccessor(c))
  BY BlockIs
<1>3. CASE HasPrefix(b, c) \/ HasPrefix(c, b)
  BY <1>3, BlocksSame
<1>4. CASE ~HasPrefix(b, c) /\ ~HasPrefix(c, b)
  <2>. HIDE DEF b, c
  <2>1. Upto(PrefixSuccessor(b), c) \/ Upto(PrefixSuccessor(c), b)
    BY <1>1, <1>2, <1>4, PrefixesApart
  <2>2. PrefixSuccessor(b) \in Text /\ PrefixSuccessor(c) \in Text
    BY <1>1, <1>2, SuccessorIs
  <2>3. Upto(Past(e), c) \/ Upto(Past(f), b)
    BY <1>1, <1>2, <2>1, <2>2, UptoOrder
  <2>. QED  BY <2>3 DEF b, c
<1>. QED  BY <1>3, <1>4

\* CommonPrefix ends with the first delimiter after the prefix.
LEMMA CommonPrefixIs ==
  ASSUME NEW opt \in Options, NEW key \in Names, HasPrefix(key, opt.prefix)
  PROVE  LET cp == CommonPrefix(key, opt) IN
         /\ cp = <<>> /\ opt.delimiter => \A i \in 1..Len(key) : i > Len(opt.prefix) => key[i] # Slash
         /\ cp # <<>> =>
              /\ opt.delimiter /\ cp \in Names /\ HasPrefix(key, cp) /\ HasPrefix(cp, opt.prefix)
              /\ Len(cp) > Len(opt.prefix) /\ cp[Len(cp)] = Slash
              /\ \A i \in 1..(Len(cp) - 1) : i > Len(opt.prefix) => cp[i] # Slash
<1> DEFINE cp == CommonPrefix(key, opt)
           p == opt.prefix
           at == {i \in Len(p) + 1 .. Len(key) : key[i] = Slash}
           n == CHOOSE i \in at : \A j \in at : i <= j
<1>1. p \in Names /\ Len(p) \in Nat /\ Len(key) \in Nat
  <2>1. p \in Names
    BY DEF Options
  <2>. QED  BY <2>1, NameIs
<1>2. cp = IF ~opt.delimiter \/ at = {} THEN <<>> ELSE SubSeq(key, 1, n)
  BY DEF CommonPrefix
<1>3. CASE ~opt.delimiter \/ at = {}
  BY <1>1, <1>2, <1>3
<1>4. CASE opt.delimiter /\ at # {}
  <2>1. at \in SUBSET Nat
    BY <1>1
  <2>2. \E i \in at : \A j \in at : i <= j
    BY <1>4, <2>1, LeastElement
  <2>3. n \in at /\ \A j \in at : n <= j
    BY <2>2
  <2>4. n \in Len(p) + 1 .. Len(key) /\ key[n] = Slash /\ \A j \in Len(p) + 1 .. Len(key) : key[j] = Slash => n <= j
    BY <2>3
  <2>5. cp = SubSeq(key, 1, n)
    BY <1>2, <1>4
  <2>. HIDE DEF n, at, cp
  <2>6. cp \in Names /\ Len(cp) = n /\ \A i \in 1..n : cp[i] = key[i]
    BY <1>1, <2>4, <2>5 DEF Names
  <2>7. Len(p) <= Len(key) /\ \A i \in 1..Len(p) : key[i] = p[i]
    BY DEF HasPrefix
  <2>8. HasPrefix(key, cp) /\ HasPrefix(cp, p) /\ cp # <<>>
    BY <1>1, <2>4, <2>6, <2>7 DEF HasPrefix
  <2>9. Len(cp) > Len(p) /\ cp[Len(cp)] = Slash
    BY <1>1, <2>4, <2>6
  <2>10. \A i \in 1..(Len(cp) - 1) : i > Len(p) => cp[i] # Slash
    BY <1>1, <2>4, <2>6
  <2>. QED  BY <1>4, <2>6, <2>8, <2>9, <2>10 DEF cp
<1>. QED  BY <1>3, <1>4

\* The store's key of an item.
ItemSymbol(opt, x) == IF opt.kind = "uploads" THEN x.id ELSE MaxSeq - x.seq

\* The key of a record or an upload has the prefix if the object's key has it.
LEMMA ItemKeyIs ==
  ASSUME NEW opt \in Options, NEW x \in ItemRecord(opt)
  PROVE  /\ x.key \in ListKeys /\ x.key \in Names /\ ItemSymbol(opt, x) \in Int
         /\ KvKey(opt, x) = StoreKey(x.key, ItemSymbol(opt, x)) /\ KvKey(opt, x) \in Text
         /\ HasPrefix(KvKey(opt, x), opt.prefix) <=> HasPrefix(x.key, opt.prefix)
<1>1. x.key \in ListKeys /\ (IF opt.kind = "uploads" THEN x.id \in Int ELSE x.seq \in Int)
  BY DEF ItemRecord, UploadRecord, VersionRecord
<1>2. x.key \in Names /\ ItemSymbol(opt, x) \in Int
  BY <1>1, ListKeysAre DEF ItemSymbol
<1>3. KvKey(opt, x) = StoreKey(x.key, ItemSymbol(opt, x))
  BY DEF KvKey, RecordKey, ObjectKey, UploadKey, StoreKey, ItemSymbol
<1>4. opt.prefix \in Names
  BY DEF Options
<1>. QED  BY <1>1, <1>2, <1>3, <1>4, StoreKeyIs, NamePrefix

\* An item is one of the keys that its entry stands for.
LEMMA ItemEntry ==
  ASSUME NEW opt \in Options, NEW x \in ItemRecord(opt), HasPrefix(x.key, opt.prefix)
  PROVE  LET e == EntryOf(opt, x) IN
         /\ Possible(opt, e) /\ Upto(Block(e), KvKey(opt, x)) /\ Before(KvKey(opt, x), Past(e))
         /\ e.what \notin {"prefix", "object"} => Block(e) = KvKey(opt, x)
<1> DEFINE e == EntryOf(opt, x)
           cp == CommonPrefix(x.key, opt)
           k == KvKey(opt, x)
<1>1. /\ x.key \in ListKeys /\ x.key \in Names /\ ItemSymbol(opt, x) \in Int
      /\ k = StoreKey(x.key, ItemSymbol(opt, x)) /\ k \in Text
  BY ItemKeyIs
<1>2. opt.kind \in {"objects", "versions", "uploads"} /\ opt.prefix \in Names
  BY DEF Options
<1>3. /\ cp = <<>> /\ opt.delimiter => \A i \in 1..Len(x.key) : i > Len(opt.prefix) => x.key[i] # Slash
      /\ cp # <<>> =>
           /\ opt.delimiter /\ cp \in Names /\ HasPrefix(x.key, cp) /\ HasPrefix(cp, opt.prefix)
           /\ Len(cp) > Len(opt.prefix) /\ cp[Len(cp)] = Slash
           /\ \A i \in 1..(Len(cp) - 1) : i > Len(opt.prefix) => cp[i] # Slash
  BY <1>1, CommonPrefixIs
<1>4. e = IF cp # <<>> THEN Entry("prefix", cp, 0)
          ELSE CASE opt.kind = "objects" -> Entry("object", x.key, 0)
                 [] opt.kind = "versions" -> Entry(IF x.null THEN "null" ELSE "version", x.key, x.seq)
                 [] opt.kind = "uploads" -> Entry("upload", x.key, x.id)
  BY DEF EntryOf
<1>. HIDE DEF cp, e, k
<1>5. CASE cp # <<>>
  <2>1. e = [what |-> "prefix", key |-> cp, id |-> 0]
    BY <1>4, <1>5 DEF Entry
  <2>2. e \in EntryRecord
    BY <1>3, <1>5, <2>1 DEF EntryRecord
  <2>3. Possible(opt, e)
    BY <1>3, <1>5, <2>1, <2>2 DEF Possible
  <2>4. Block(e) = cp /\ Past(e) = PrefixSuccessor(cp)
    BY <2>1, <2>2, BlockCases
  <2>5. HasPrefix(k, cp)
    BY <1>1, <1>3, <1>5, NamePrefix
  <2>6. Upto(cp, k) /\ Before(k, PrefixSuccessor(cp))
    BY <1>1, <1>3, <1>5, <2>5, NameIs, PrefixFirst, PrefixBefore
  <2>. QED  BY <2>1, <2>3, <2>4, <2>6 DEF e, k
<1>6. CASE cp = <<>> /\ opt.kind = "objects"
  <2>1. e = [what |-> "object", key |-> x.key, id |-> 0]
    BY <1>4, <1>6 DEF Entry
  <2>2. e \in EntryRecord
    BY <1>1, <2>1 DEF EntryRecord
  <2>3. Possible(opt, e)
    BY <1>1, <1>3, <1>6, <2>1, <2>2 DEF Possible
  <2>4. Block(e) = ObjectPrefix(x.key) /\ Past(e) = PrefixSuccessor(ObjectPrefix(x.key))
    BY <2>1, <2>2, BlockCases
  <2>5. HasPrefix(k, ObjectPrefix(x.key)) /\ ObjectPrefix(x.key) \in Text /\ ObjectPrefix(x.key) # <<>>
    BY <1>1, ObjectPrefixes, ObjectPrefixIs
  <2>6. Upto(ObjectPrefix(x.key), k) /\ Before(k, PrefixSuccessor(ObjectPrefix(x.key)))
    BY <1>1, <2>5, PrefixFirst, PrefixBefore
  <2>. QED  BY <2>1, <2>3, <2>4, <2>6 DEF e, k
<1>7. CASE cp = <<>> /\ opt.kind # "objects"
  <2> DEFINE w == IF opt.kind = "uploads" THEN "upload" ELSE IF x.null THEN "null" ELSE "version"
             d == IF opt.kind = "uploads" THEN x.id ELSE x.seq
  <2>1. e = [what |-> w, key |-> x.key, id |-> d]
    BY <1>2, <1>4, <1>7 DEF Entry
  <2>2. /\ d \in Nat /\ d # 0
        /\ opt.kind = "uploads" => w = "upload"
        /\ opt.kind = "versions" => w \in {"version", "null"}
    BY <1>2, <1>7 DEF ItemRecord, UploadRecord, VersionRecord
  <2>3. Symbol(e) = ItemSymbol(opt, x)
    BY <1>2, <1>7, <2>1, <2>2 DEF Symbol, ItemSymbol
  <2>4. w \in {"version", "null", "upload"}
    BY <1>2, <1>7, <2>2
  <2>. HIDE DEF w, d
  <2>5. e \in EntryRecord
    BY <1>1, <2>1, <2>2, <2>4 DEF EntryRecord
  <2>6. Possible(opt, e)
    BY <1>1, <1>2, <1>3, <1>7, <2>1, <2>2, <2>4, <2>5 DEF Possible
  <2>7. Block(e) = k
    BY <1>1, <2>1, <2>3, <2>4, <2>5, BlockCases
  <2>8. Before(Block(e), Past(e))
    BY <2>6, BlockIs
  <2>9. Upto(k, k)
    BY <1>1, UptoOrder
  <2>. QED  BY <2>6, <2>7, <2>8, <2>9 DEF e, k
<1>. QED  BY <1>5, <1>6, <1>7

-----------------------------------------------------------------------------
(* A page *)

\* A place in the store at which a listing can be cut: no entry has keys on both
\* sides of it.
Boundary(opt, s) ==
  /\ s \in Text /\ Upto(opt.prefix, s)
  /\ \A e : Possible(opt, e) => Upto(Past(e), s) \/ Upto(s, Block(e))

\* A listing that begins with the prefix cuts no block ...
LEMMA PrefixBoundary == ASSUME NEW opt \in Options PROVE Boundary(opt, opt.prefix)
<1>1. opt.prefix \in Names
  BY DEF Options
<1>2. opt.prefix \in Text
  BY <1>1, NameIs
<1>3. ASSUME NEW e, Possible(opt, e) PROVE Upto(opt.prefix, Block(e))
  BY <1>2, <1>3, BlockIs, PrefixFirst
<1>. QED  BY <1>2, <1>3, UptoOrder DEF Boundary

\* ... and neither does one that goes on behind an entry.
LEMMA PastBoundary == ASSUME NEW opt \in Options, NEW e, Possible(opt, e) PROVE Boundary(opt, Past(e))
<1>1. /\ Block(e) \in Text /\ Past(e) \in Text /\ Before(Block(e), Past(e)) /\ HasPrefix(Block(e), opt.prefix)
  BY BlockIs
<1>2. opt.prefix \in Text
  <2>1. opt.prefix \in Names
    BY DEF Options
  <2>. QED  BY <2>1, NameIs
<1>3. Upto(opt.prefix, Past(e))
  <2>1. Upto(opt.prefix, Block(e))
    BY <1>1, <1>2, PrefixFirst
  <2>2. Upto(Block(e), Past(e))
    BY <1>1, UptoOrder
  <2>. QED  BY <1>1, <1>2, <2>1, <2>2, UptoOrder
<1>4. ASSUME NEW f, Possible(opt, f) PROVE Upto(Past(f), Past(e)) \/ Upto(Past(e), Block(f))
  <2>1. Block(f) \in Text /\ Past(f) \in Text
    BY <1>4, BlockIs
  <2>2. CASE Past(e) = Past(f)
    BY <1>1, <2>2, UptoOrder
  <2>3. CASE Upto(Past(f), Block(e))
    <3>1. Upto(Block(e), Past(e))
      BY <1>1, UptoOrder
    <3>. QED  BY <1>1, <2>1, <2>3, <3>1, UptoOrder
  <2>. QED  BY <1>4, <2>2, <2>3, BlocksApart
<1>. QED  BY <1>1, <1>3, <1>4 DEF Boundary

\* The versions of a key come together: whatever else is listed ends before the
\* first of them or begins behind the last.
LEMMA KeyApart ==
  ASSUME NEW opt \in Options, NEW e, NEW g, Possible(opt, e), Possible(opt, g), g.what = "null", e.key # g.key
  PROVE  Upto(Past(e), ObjectPrefix(g.key)) \/ Upto(PrefixSuccessor(ObjectPrefix(g.key)), Block(e))
<1> DEFINE k == g.key  p == ObjectPrefix(k)  b == Block(e)
<1>1. /\ e \in EntryRecord /\ g \in EntryRecord /\ k \in Names /\ opt.prefix \in Names
  BY DEF Possible, EntryRecord, Options
<1>2. /\ e.key \in Names /\ Symbol(e) \in Int
      /\ e.what = "prefix" => b = e.key
      /\ e.what = "object" => b = ObjectPrefix(e.key)
      /\ e.what \notin {"prefix", "object"} => b = StoreKey(e.key, Symbol(e))
  BY <1>1, BlockCases
<1>3. b \in Text /\ b # <<>> /\ Past(e) \in Text /\ Upto(Past(e), PrefixSuccessor(b))
  BY BlockIs
<1>4. p \in Text /\ p # <<>>
  BY <1>1, ObjectPrefixIs
<1>5. ~HasPrefix(b, p) /\ ~HasPrefix(p, b)
  <2>1. CASE e.what = "prefix"
    <3>1. ~HasPrefix(b, p)
      <4>1. ~HasPrefix(e.key, ObjectPrefix(k))
        <5>1. 0 \in Int
          OBVIOUS
        <5>. QED  BY <1>1, <1>2, <5>1, NoNul
      <4>. QED  BY <1>2, <2>1, <4>1
    <3>2. ASSUME HasPrefix(p, b) PROVE FALSE
      <4>1. HasPrefix(k, e.key)
        <5>1. 0 \in Int
          OBVIOUS
        <5>2. HasPrefix(ObjectPrefix(k), e.key) <=> HasPrefix(k, e.key)
          BY <1>1, <1>2, <5>1, NamePrefix
        <5>. QED  BY <1>2, <2>1, <3>2, <5>2
      <4>2. /\ opt.delimiter /\ Len(e.key) > Len(opt.prefix) /\ e.key[Len(e.key)] = Slash
            /\ \A i \in 1..Len(k) : i > Len(opt.prefix) => k[i] # Slash
        BY <2>1 DEF Possible
      <4>3. Len(e.key) \in 1..Len(k) /\ Len(e.key) \in 1..Len(e.key)
        <5>1. Len(e.key) \in Nat /\ Len(k) \in Nat /\ Len(opt.prefix) \in Nat
          BY <1>1, <1>2, NameIs
        <5>. QED  BY <4>1, <4>2, <5>1 DEF HasPrefix
      <4>. QED  BY <4>1, <4>2, <4>3 DEF HasPrefix
    <3>. QED  BY <3>1, <3>2
  <2>2. CASE e.what = "object"
    <3>1. 0 \in Int
      OBVIOUS
    <3>. QED  BY <1>1, <1>2, <2>2, <3>1, ObjectPrefixes
  <2>3. CASE e.what \notin {"prefix", "object"}
    <3>1. b = StoreKey(e.key, Symbol(e))
      BY <1>2, <2>3
    <3>2. ~HasPrefix(StoreKey(e.key, Symbol(e)), ObjectPrefix(k))
      BY <1>1, <1>2, ObjectPrefixes
    <3>3. ASSUME HasPrefix(ObjectPrefix(k), StoreKey(e.key, Symbol(e))) PROVE FALSE
      <4> DEFINE n == Len(e.key) + 1
      <4>1. /\ Len(k) \in Nat /\ Len(e.key) \in Nat /\ \A i \in 1..Len(k) : k[i] # 0
        BY <1>1, <1>2, NameIs
      <4>2. Len(StoreKey(e.key, Symbol(e))) = Len(e.key) + 2 /\ StoreKey(e.key, Symbol(e))[Len(e.key) + 1] = 0
        BY <1>2, StoreKeyIs
      <4>3. Len(ObjectPrefix(k)) = Len(k) + 1 /\ \A i \in 1..Len(k) : ObjectPrefix(k)[i] = k[i]
        BY <1>1, ObjectPrefixIs
      <4>4. n \in 1..Len(k) /\ n \in 1..Len(StoreKey(e.key, Symbol(e)))
        BY <3>3, <4>1, <4>2, <4>3 DEF HasPrefix
      <4>. QED  BY <3>3, <4>1, <4>2, <4>3, <4>4 DEF HasPrefix
    <3>. QED  BY <3>1, <3>2, <3>3
  <2>. QED  BY <2>1, <2>2, <2>3
<1>. HIDE DEF p, b
<1>6. Upto(PrefixSuccessor(b), p) \/ Upto(PrefixSuccessor(p), b)
  BY <1>3, <1>4, <1>5, PrefixesApart
<1>7. PrefixSuccessor(b) \in Text
  BY <1>3, SuccessorIs
<1>8. Upto(Past(e), p) \/ Upto(PrefixSuccessor(p), b)
  BY <1>3, <1>4, <1>6, <1>7, UptoOrder
<1>. QED  BY <1>8 DEF p, b

\* Among the versions of a key, or right behind them.
Among(k, s) == s \in Text /\ Upto(ObjectPrefix(k), s) /\ Upto(s, PrefixSuccessor(ObjectPrefix(k)))

\* A version ends among those of its key.
LEMMA PastAmong ==
  ASSUME NEW opt \in Options, NEW g, Possible(opt, g), g.what \in {"version", "null"}
  PROVE  /\ Among(g.key, Past(g)) /\ Among(g.key, PrefixSuccessor(ObjectPrefix(g.key)))
         /\ ObjectPrefix(g.key) \in Text
<1> DEFINE k == g.key  p == ObjectPrefix(k)
<1>1. g \in EntryRecord /\ k \in Names
  BY DEF Possible, EntryRecord
<1>2. Symbol(g) \in Int /\ Past(g) = StoreKey(k, Symbol(g)) \o <<0>>
  BY <1>1, BlockCases
<1>3. p \in Text /\ p # <<>>
  BY <1>1, ObjectPrefixIs
<1>4. PrefixSuccessor(p) \in Text
  BY <1>3, SuccessorIs
<1>5. Past(g) \in Text /\ HasPrefix(Past(g), p)
  <2> DEFINE s == StoreKey(k, Symbol(g))
  <2>1. s \in Text
    BY <1>1, <1>2, StoreKeyIs
  <2>2. HasPrefix(s, p)
    BY <1>1, <1>2, ObjectPrefixes
  <2>. HIDE DEF s, p
  <2>3. 0 \in Int
    OBVIOUS
  <2>4. /\ s \o <<0>> \in Text /\ Len(s \o <<0>>) = Len(s) + 1 /\ \A i \in 1..Len(s) : (s \o <<0>>)[i] = s[i]
    BY <2>1, <2>3, AppendIs
  <2>5. Len(s) \in Nat /\ Len(p) \in Nat
    BY <1>3, <2>1, TextIs
  <2>. QED  BY <1>2, <2>2, <2>4, <2>5 DEF HasPrefix, s
<1>6. HasPrefix(p, p)
  BY <1>3, TextIs DEF HasPrefix
<1>. HIDE DEF p
<1>7. Upto(p, Past(g)) /\ Before(Past(g), PrefixSuccessor(p)) /\ Before(p, PrefixSuccessor(p))
  BY <1>3, <1>5, <1>6, PrefixFirst, PrefixBefore
<1>8. Upto(Past(g), PrefixSuccessor(p)) /\ Upto(p, PrefixSuccessor(p)) /\ Upto(PrefixSuccessor(p), PrefixSuccessor(p))
  BY <1>3, <1>4, <1>5, <1>7, UptoOrder
<1>. QED  BY <1>3, <1>4, <1>5, <1>7, <1>8 DEF Among, p

\* To go from one place among a key's versions to another passes nothing else.
LEMMA SameSide ==
  ASSUME NEW opt \in Options, NEW e, NEW g, Possible(opt, e), Possible(opt, g), g.what = "null", e.key # g.key,
         NEW a, NEW b, Among(g.key, a), Among(g.key, b)
  PROVE  /\ Upto(Past(e), a) => Upto(Past(e), b)
         /\ Upto(a, Block(e)) => Upto(b, Block(e))
<1> DEFINE p == ObjectPrefix(g.key)  q == PrefixSuccessor(p)
<1>1. Upto(Past(e), p) \/ Upto(q, Block(e))
  BY KeyApart
<1>2. p \in Text /\ q \in Text
  <2>1. p \in Text /\ Among(g.key, q)
    BY PastAmong
  <2>. QED  BY <2>1 DEF Among
<1>3. /\ a \in Text /\ b \in Text /\ Upto(p, a) /\ Upto(a, q) /\ Upto(p, b) /\ Upto(b, q)
  BY DEF Among
<1>4. Block(e) \in Text /\ Past(e) \in Text /\ Before(Block(e), Past(e))
  BY BlockIs
<1>. HIDE DEF p, q
<1>5. CASE Upto(Past(e), p)
  <2>1. Upto(Past(e), b) /\ Upto(Past(e), a)
    BY <1>2, <1>3, <1>4, <1>5, UptoOrder
  <2>2. Before(Block(e), a)
    BY <1>3, <1>4, <2>1, UptoOrder
  <2>. QED  BY <2>1, <2>2 DEF Upto
<1>6. CASE Upto(q, Block(e))
  <2>1. Upto(b, Block(e)) /\ Upto(a, Block(e))
    BY <1>2, <1>3, <1>4, <1>6, UptoOrder
  <2>2. Before(a, Past(e))
    BY <1>3, <1>4, <2>1, UptoOrder
  <2>. QED  BY <2>1, <2>2 DEF Upto
<1>. QED  BY <1>1, <1>5, <1>6

\* A listing can be cut behind the versions of a key ...
LEMMA KeyBoundary ==
  ASSUME NEW opt \in Options, NEW g, Possible(opt, g), g.what = "null"
  PROVE  Boundary(opt, PrefixSuccessor(ObjectPrefix(g.key)))
<1> DEFINE p == ObjectPrefix(g.key)  q == PrefixSuccessor(p)
<1>1. /\ p \in Text /\ q \in Text /\ Upto(p, q) /\ Past(g) \in Text /\ Upto(Past(g), q)
  <2>1. p \in Text /\ Among(g.key, q) /\ Among(g.key, Past(g))
    BY PastAmong
  <2>. QED  BY <2>1 DEF Among
<1>2. opt.prefix \in Text /\ Upto(opt.prefix, q)
  <2>1. Boundary(opt, Past(g))
    BY PastBoundary
  <2>2. opt.prefix \in Names
    BY DEF Options
  <2>3. opt.prefix \in Text
    BY <2>2, NameIs
  <2>. HIDE DEF p, q
  <2>. QED  BY <1>1, <2>1, <2>3, UptoOrder DEF Boundary
<1>3. ASSUME NEW e, Possible(opt, e) PROVE Upto(Past(e), q) \/ Upto(q, Block(e))
  <2>1. CASE e.key # g.key
    <3>1. Upto(Past(e), p) \/ Upto(q, Block(e))
      BY <1>3, <2>1, KeyApart
    <3>2. Past(e) \in Text
      BY <1>3, BlockIs
    <3>. HIDE DEF p, q
    <3>. QED  BY <1>1, <3>1, <3>2, UptoOrder
  <2>2. CASE e.key = g.key
    <3>1. opt.kind = "versions" /\ g.key \in Names /\ opt.prefix \in Names
      BY DEF Possible, Options, EntryRecord
    <3>2. e.what # "prefix"
      <4> SUFFICES ASSUME e.what = "prefix" PROVE FALSE
        OBVIOUS
      <4>1. /\ opt.delimiter /\ Len(e.key) > Len(opt.prefix) /\ e.key[Len(e.key)] = Slash
            /\ \A i \in 1..Len(g.key) : i > Len(opt.prefix) => g.key[i] # Slash
        BY <1>3 DEF Possible
      <4>2. Len(e.key) \in 1..Len(g.key)
        <5>1. Len(g.key) \in Nat /\ Len(opt.prefix) \in Nat
          BY <3>1, NameIs
        <5>. QED  BY <2>2, <4>1, <5>1
      <4>. QED  BY <2>2, <4>1, <4>2
    <3>3. e.what \in {"version", "null"}
      BY <1>3, <3>1, <3>2 DEF Possible
    <3>4. Among(e.key, Past(e))
      BY <1>3, <3>3, PastAmong
    <3>. QED  BY <2>2, <3>4 DEF Among
  <2>. QED  BY <2>1, <2>2
<1>. QED  BY <1>1, <1>2, <1>3 DEF Boundary

\* ... and behind all that has the prefix.
LEMMA PrefixEnd ==
  ASSUME NEW opt \in Options, opt.prefix # <<>>
  PROVE  /\ Boundary(opt, PrefixSuccessor(opt.prefix))
         /\ \A e : Possible(opt, e) => Upto(Past(e), PrefixSuccessor(opt.prefix))
<1> DEFINE p == opt.prefix  q == PrefixSuccessor(p)
<1>1. p \in Names
  BY DEF Options
<1>2. p \in Text /\ Len(p) \in Nat
  BY <1>1, NameIs
<1>3. q \in Text
  BY <1>2, SuccessorIs
<1>4. HasPrefix(p, p)
  BY <1>2 DEF HasPrefix
<1>5. Upto(p, q)
  <2>1. Before(p, q)
    BY <1>2, <1>4, PrefixBefore
  <2>. HIDE DEF p, q
  <2>. QED  BY <1>2, <1>3, <2>1, UptoOrder
<1>6. ASSUME NEW e, Possible(opt, e) PROVE Upto(Past(e), q)
  <2> DEFINE b == Block(e)  r == PrefixSuccessor(b)
  <2>1. b \in Text /\ b # <<>> /\ Past(e) \in Text /\ Upto(Past(e), r) /\ HasPrefix(b, p)
    BY <1>6, BlockIs
  <2>2. Len(b) > Len(p)
    <3>1. e \in EntryRecord /\ HasPrefix(e.key, p) /\ (e.what = "prefix" => Len(e.key) > Len(p))
      BY <1>6 DEF Possible
    <3>2. /\ e.key \in Names /\ Symbol(e) \in Int
          /\ e.what = "prefix" => b = e.key
          /\ e.what = "object" => b = ObjectPrefix(e.key)
          /\ e.what \notin {"prefix", "object"} => b = StoreKey(e.key, Symbol(e))
      BY <3>1, BlockCases
    <3>3. Len(e.key) \in Nat /\ Len(p) <= Len(e.key)
      BY <3>1, <3>2, NameIs DEF HasPrefix
    <3>4. Len(ObjectPrefix(e.key)) = Len(e.key) + 1
      BY <3>2, ObjectPrefixIs
    <3>5. Len(StoreKey(e.key, Symbol(e))) = Len(e.key) + 2
      BY <3>2, StoreKeyIs
    <3>. HIDE DEF b, p
    <3>. QED  BY <1>2, <3>1, <3>2, <3>3, <3>4, <3>5
  <2>. HIDE DEF b
  <2>3. /\ r \in Text /\ Len(r) = Len(b) /\ \A i \in 1..(Len(b) - 1) : r[i] = b[i]
    BY <2>1, SuccessorIs
  <2>4. HasPrefix(r, p)
    <3>1. Len(b) \in Nat
      BY <2>1, TextIs
    <3>. HIDE DEF r, p
    <3>. QED  BY <1>2, <2>1, <2>2, <2>3, <3>1 DEF HasPrefix
  <2>5. Before(r, q)
    BY <1>2, <2>3, <2>4, PrefixBefore
  <2>. HIDE DEF r, q
  <2>. QED  BY <1>3, <2>1, <2>3, <2>5, UptoOrder
<1>. QED  BY <1>3, <1>5, <1>6 DEF Boundary

\* A store that can be listed: no two items have the same key of the store.
Listable(R, U, opt) ==
  /\ opt \in Options /\ Items(R, U, opt) \subseteq ItemRecord(opt) /\ IsFiniteSet(Items(R, U, opt))
  /\ \A x, y \in Items(R, U, opt) : KvKey(opt, x) = KvKey(opt, y) => x = y

\* The first key of a finite set.
LEMMA FirstExists ==
  ASSUME NEW A, IsFiniteSet(A), A # {}, NEW kf \in [A -> Text]
  PROVE  \E x \in A : \A y \in A : ~Before(kf[y], kf[x])
<1> DEFINE Less(x) == {y \in A : Before(kf[y], kf[x])}
           T == {Cardinality(Less(x)) : x \in A}
<1>1. \A x \in A : IsFiniteSet(Less(x)) /\ Cardinality(Less(x)) \in Nat
  BY FS_Subset, FS_CardinalityType
<1>2. T \in SUBSET Nat /\ T # {}
  BY <1>1
<1>3. PICK m \in T : \A k \in T : m <= k
  BY <1>2, LeastElement
<1>4. PICK x \in A : m = Cardinality(Less(x))
  BY <1>3
<1>5. ASSUME NEW y \in A, Before(kf[y], kf[x]) PROVE FALSE
  <2>1. y \in Less(x) /\ y \notin Less(y)
    BY <1>5, BeforeIrreflexive
  <2>2. Less(y) \subseteq Less(x)
    <3>1. ASSUME NEW z \in A, Before(kf[z], kf[y]) PROVE Before(kf[z], kf[x])
      BY <1>5, <3>1, BeforeTransitive
    <3>. QED  BY <3>1
  <2>3. m <= Cardinality(Less(y))
    BY <1>3
  <2>4. Cardinality(Less(y)) < Cardinality(Less(x))
    <3>1. IsFiniteSet(Less(x)) /\ Cardinality(Less(x)) \in Nat /\ Cardinality(Less(y)) \in Nat
      BY <1>1
    <3>. HIDE DEF Less
    <3>2. Less(y) # Less(x)
      BY <2>1
    <3>3. Cardinality(Less(y)) <= Cardinality(Less(x)) /\ (Cardinality(Less(y)) = Cardinality(Less(x)) => Less(y) = Less(x))
      BY <2>2, <3>1, FS_Subset
    <3>. QED  BY <3>1, <3>2, <3>3
  <2>5. m \in Nat /\ Cardinality(Less(y)) \in Nat
    BY <1>1, <1>2
  <2>. HIDE DEF Less
  <2>. QED  BY <1>4, <2>3, <2>4, <2>5
<1>. QED  BY <1>5

\* What lies ahead of a scan, and the item that it meets.
Ahead(R, U, opt, scan) == {x \in Items(R, U, opt) : ~Before(KvKey(opt, x), scan.seek)}
First(R, U, opt, scan) ==
  CHOOSE x \in Ahead(R, U, opt, scan) :
    \A y \in Ahead(R, U, opt, scan) : ~Before(KvKey(opt, y), KvKey(opt, x))

\* The iterator finds the first key from where it seeks to.
LEMMA FirstIs ==
  ASSUME NEW R, NEW U, NEW opt, NEW scan, Listable(R, U, opt), Ahead(R, U, opt, scan) # {}
  PROVE  LET x == First(R, U, opt, scan) IN
         /\ x \in Items(R, U, opt) /\ ~Before(KvKey(opt, x), scan.seek)
         /\ \A y \in Items(R, U, opt) : ~Before(KvKey(opt, y), scan.seek) => ~Before(KvKey(opt, y), KvKey(opt, x))
<1> DEFINE A == Ahead(R, U, opt, scan)
           kf == [x \in A |-> KvKey(opt, x)]
<1>1. /\ opt \in Options /\ A \subseteq Items(R, U, opt) /\ Items(R, U, opt) \subseteq ItemRecord(opt)
      /\ IsFiniteSet(Items(R, U, opt))
  BY DEF Listable, Ahead
<1>2. IsFiniteSet(A)
  BY <1>1, FS_Subset
<1>3. \A x \in A : KvKey(opt, x) \in Text
  BY <1>1, ItemKeyIs
<1>4. kf \in [A -> Text]
  BY <1>3
<1>5. \A x \in A : kf[x] = KvKey(opt, x)
  OBVIOUS
<1>. HIDE DEF kf
<1>6. \E x \in A : \A y \in A : ~Before(kf[y], kf[x])
  BY <1>2, <1>4, FirstExists
<1>7. \E x \in A : \A y \in A : ~Before(KvKey(opt, y), KvKey(opt, x))
  BY <1>5, <1>6
<1>8. First(R, U, opt, scan) \in A /\ \A y \in A : ~Before(KvKey(opt, y), KvKey(opt, First(R, U, opt, scan)))
  BY <1>7 DEF First
<1>. QED  BY <1>8 DEF Ahead

MarkerRecord == [key : Names, version : Int]
ScanRecord ==
  [seek : Text, entries : Seq(EntryRecord), over : BOOLEAN, truncated : BOOLEAN, next : MarkerRecord]

\* An entry of something in the store.
Found(R, U, opt, e) == \E x \in Items(R, U, opt) : HasPrefix(x.key, opt.prefix) /\ e = EntryOf(opt, x)

Holds(entries, e) == \E i \in 1..Len(entries) : entries[i] = e

\* The scan of a page that starts at a with the marker m: it has all there is to
\* list between a and where it seeks to, each once, and nothing further on is left
\* when it ends without being cut.
ScanOK(R, U, opt, a, m, s) ==
  /\ s \in ScanRecord /\ Boundary(opt, s.seek) /\ Upto(a, s.seek)
  /\ \A i \in 1..Len(s.entries) :
       /\ Found(R, U, opt, s.entries[i])
       /\ Upto(a, Block(s.entries[i])) /\ Upto(Past(s.entries[i]), s.seek)
  /\ \A i, j \in 1..Len(s.entries) : i < j => Upto(Past(s.entries[i]), Block(s.entries[j]))
  /\ \A e \in Whole(R, U, opt) : Upto(a, Block(e)) =>
       Holds(s.entries, e) \/ (Upto(s.seek, Block(e)) /\ (s.over => s.truncated))
  /\ s.next = IF s.entries = <<>> THEN m ELSE MarkerOf(s.entries[Len(s.entries)])

\* What is in the store makes an entry that a listing can have.
LEMMA FoundPossible ==
  ASSUME NEW R, NEW U, NEW opt, NEW e, Listable(R, U, opt), Found(R, U, opt, e)
  PROVE  Possible(opt, e) /\ e \in EntryRecord /\ Block(e) \in Text /\ Past(e) \in Text
<1>1. PICK x \in Items(R, U, opt) : HasPrefix(x.key, opt.prefix) /\ e = EntryOf(opt, x)
  BY DEF Found
<1>2. opt \in Options /\ x \in ItemRecord(opt)
  BY DEF Listable
<1>3. Possible(opt, e)
  BY <1>1, <1>2, ItemEntry
<1>. QED  BY <1>2, <1>3, BlockIs DEF Possible

\* Whole is of items.
LEMMA WholeFound ==
  ASSUME NEW R, NEW U, NEW opt, NEW e \in Whole(R, U, opt)
  PROVE  /\ Found(R, U, opt, e)
         /\ \E y \in Items(R, U, opt) :
              /\ HasPrefix(y.key, opt.prefix) /\ e = EntryOf(opt, y)
              /\ opt.kind = "objects" => Latest(R, y) /\ ~y.marker
BY DEF Whole, Found

\* The entry that a scan meets is all ahead of it.
LEMMA MeetsWhole ==
  ASSUME NEW R, NEW U, NEW opt, NEW a \in Text, NEW m, NEW s, Listable(R, U, opt), ScanOK(R, U, opt, a, m, s),
         ~s.over, NEW x \in Items(R, U, opt), HasPrefix(x.key, opt.prefix), ~Before(KvKey(opt, x), s.seek)
  PROVE  LET e == EntryOf(opt, x) IN
         /\ Found(R, U, opt, e) /\ Upto(s.seek, Block(e)) /\ Upto(a, Block(e)) /\ Upto(a, Past(e))
         /\ Upto(s.seek, Past(e)) /\ Boundary(opt, Past(e)) /\ Before(KvKey(opt, x), Past(e))
<1> DEFINE e == EntryOf(opt, x)  k == KvKey(opt, x)
<1>1. opt \in Options /\ x \in ItemRecord(opt)
  BY DEF Listable
<1>2. Possible(opt, e) /\ Upto(Block(e), k) /\ Before(k, Past(e))
  BY <1>1, ItemEntry
<1>3. k \in Text
  BY <1>1, ItemKeyIs
<1>4. Block(e) \in Text /\ Past(e) \in Text /\ Before(Block(e), Past(e))
  BY <1>1, <1>2, BlockIs
<1>5. s.seek \in Text /\ Boundary(opt, s.seek) /\ Upto(a, s.seek)
  BY DEF ScanOK, Boundary
<1>6. Found(R, U, opt, e)
  BY DEF Found
<1>7. Upto(Past(e), s.seek) \/ Upto(s.seek, Block(e))
  BY <1>2, <1>5 DEF Boundary
<1>8. Upto(s.seek, k)
  BY DEF Upto
<1>. HIDE DEF e, k
<1>9. Upto(s.seek, Block(e))
  <2>1. ASSUME Upto(Past(e), s.seek) PROVE FALSE
    <3>1. Upto(Past(e), k)
      BY <1>3, <1>4, <1>5, <1>8, <2>1, UptoOrder
    <3>. QED  BY <1>2, <1>3, <1>4, <3>1, UptoOrder
  <2>. QED  BY <1>7, <2>1
<1>10. Upto(a, Block(e))
  BY <1>4, <1>5, <1>9, UptoOrder
<1>11. Upto(Block(e), Past(e))
  BY <1>4, UptoOrder
<1>12. Upto(a, Past(e)) /\ Upto(s.seek, Past(e))
  <2>1. Upto(a, Past(e))
    BY <1>4, <1>10, <1>11, UptoOrder
  <2>2. Upto(s.seek, Past(e))
    BY <1>4, <1>5, <1>9, <1>11, UptoOrder
  <2>. QED  BY <2>1, <2>2
<1>13. Boundary(opt, Past(e))
  BY <1>1, <1>2, PastBoundary
<1>. QED  BY <1>2, <1>6, <1>9, <1>10, <1>12, <1>13 DEF e, k

\* Nothing to list is between the scan and the end of the entry it meets.
LEMMA NothingMissed ==
  ASSUME NEW R, NEW U, NEW opt, NEW a \in Text, NEW m, NEW s, Listable(R, U, opt), ScanOK(R, U, opt, a, m, s),
         ~s.over, NEW x \in Items(R, U, opt), HasPrefix(x.key, opt.prefix), ~Before(KvKey(opt, x), s.seek),
         \A y \in Items(R, U, opt) : ~Before(KvKey(opt, y), s.seek) => ~Before(KvKey(opt, y), KvKey(opt, x)),
         NEW f \in Whole(R, U, opt), Upto(a, Block(f)), ~Holds(s.entries, f)
  PROVE  Upto(Past(EntryOf(opt, x)), Block(f)) \/ (f = EntryOf(opt, x) /\ ~Hidden(R, opt, x))
<1> DEFINE e == EntryOf(opt, x)  k == KvKey(opt, x)
<1>1. opt \in Options /\ x \in ItemRecord(opt) /\ opt.kind \in {"objects", "versions", "uploads"}
  BY DEF Listable, Options
<1>2. Possible(opt, e) /\ Upto(Block(e), k) /\ Before(k, Past(e)) /\ k \in Text
      /\ (e.what \notin {"prefix", "object"} => Block(e) = k)
  BY <1>1, ItemEntry, ItemKeyIs
<1>3. PICK y \in Items(R, U, opt) :
        /\ HasPrefix(y.key, opt.prefix) /\ f = EntryOf(opt, y)
        /\ opt.kind = "objects" => Latest(R, y) /\ ~y.marker
  BY WholeFound
<1>4. y \in ItemRecord(opt)
  BY DEF Listable
<1> DEFINE l == KvKey(opt, y)
<1>5. Possible(opt, f) /\ Upto(Block(f), l) /\ Before(l, Past(f)) /\ l \in Text
      /\ (f.what \notin {"prefix", "object"} => Block(f) = l)
  BY <1>1, <1>3, <1>4, ItemEntry, ItemKeyIs
<1>6. /\ Block(e) \in Text /\ Past(e) \in Text /\ Block(f) \in Text /\ Past(f) \in Text
  BY <1>1, <1>2, <1>5, BlockIs
<1>7. s.seek \in Text /\ Upto(s.seek, Block(f))
  BY DEF ScanOK, Boundary
<1>8. Upto(s.seek, l)
  BY <1>5, <1>6, <1>7, UptoOrder
<1>9. Upto(k, l)
  BY <1>8 DEF Upto
<1>10. ASSUME Upto(Past(f), Block(e)) PROVE FALSE
  <2>. HIDE DEF e, k, l
  <2>1. Before(l, Block(e))
    BY <1>5, <1>6, <1>10, UptoOrder
  <2>2. Before(l, k)
    BY <1>2, <1>5, <1>6, <2>1, UptoOrder
  <2>. QED  BY <1>9, <2>2 DEF Upto
<1>11. ASSUME Block(e) = Block(f) PROVE f = e /\ ~Hidden(R, opt, x)
  <2>1. HasPrefix(Block(f), Block(e))
    BY <1>6, <1>11, TextIs DEF HasPrefix
  <2>2. e.key = f.key /\ (e.what = "prefix" <=> f.what = "prefix") /\ e.id = f.id
    BY <1>1, <1>2, <1>5, <2>1, BlocksSame
  <2>3. e \in EntryRecord /\ f \in EntryRecord
    BY <1>2, <1>5 DEF Possible
  <2>4. CASE e.what # "prefix" /\ opt.kind # "objects"
    <3>1. e.what \notin {"prefix", "object"} /\ f.what \notin {"prefix", "object"}
      BY <1>1, <1>2, <1>5, <2>2, <2>4 DEF Possible
    <3>2. k = l
      BY <1>2, <1>5, <1>11, <3>1
    <3>3. x = y
      BY <3>2 DEF Listable
    <3>. QED  BY <1>3, <2>4, <3>3 DEF Hidden
  <2>5. CASE e.what # "prefix" /\ opt.kind = "objects"
    <3>1. e.what = "object" /\ f.what = "object"
      BY <1>2, <1>5, <2>2, <2>5 DEF Possible
    <3>2. f = e
      BY <2>2, <2>3, <3>1 DEF EntryRecord
    <3>3. CommonPrefix(x.key, opt) = <<>> /\ CommonPrefix(y.key, opt) = <<>> /\ e.key = x.key /\ f.key = y.key
      BY <1>3, <2>5, <3>1 DEF EntryOf, Entry
    <3>4. Items(R, U, opt) = R /\ x.key = y.key
      BY <2>2, <2>5, <3>3 DEF Items
    <3>5. x.seq \in Nat /\ y.seq \in Nat /\ x.seq <= y.seq
      BY <1>1, <1>3, <1>4, <2>5, <3>4 DEF Latest, ItemRecord, VersionRecord
    <3>6. x.seq = y.seq
      <4>1. /\ x.key \in Names /\ k = StoreKey(x.key, MaxSeq - x.seq) /\ l = StoreKey(x.key, MaxSeq - y.seq)
        BY <1>1, <1>4, <2>5, <3>4, ItemKeyIs DEF ItemSymbol
      <4>2. ~(MaxSeq - y.seq < MaxSeq - x.seq)
        <5> DEFINE n == MaxSeq - x.seq  o == MaxSeq - y.seq  t == x.key
        <5>1. n \in Int /\ o \in Int /\ t \in Names
          BY <3>5, <4>1, ListKeysAre
        <5>2. k = StoreKey(t, n) /\ l = StoreKey(t, o)
          BY <4>1
        <5>. HIDE DEF n, o, t
        <5>3. ASSUME o < n PROVE Before(StoreKey(t, o), StoreKey(t, n))
          <6>1. Len(t) \in Nat
            BY <5>1, NameIs
          <6>2. /\ Len(StoreKey(t, o)) = Len(t) + 2 /\ StoreKey(t, o) \in Text
                /\ StoreKey(t, o)[Len(t) + 1] = 0 /\ StoreKey(t, o)[Len(t) + 2] = o
                /\ \A i \in 1..Len(t) : StoreKey(t, o)[i] = t[i]
            BY <5>1, StoreKeyIs
          <6>3. /\ Len(StoreKey(t, n)) = Len(t) + 2 /\ StoreKey(t, n) \in Text
                /\ StoreKey(t, n)[Len(t) + 1] = 0 /\ StoreKey(t, n)[Len(t) + 2] = n
                /\ \A i \in 1..Len(t) : StoreKey(t, n)[i] = t[i]
            BY <5>1, StoreKeyIs
          <6>4. \A j \in 1..((Len(t) + 2) - 1) : StoreKey(t, o)[j] = StoreKey(t, n)[j]
            BY <6>1, <6>2, <6>3
          <6>5. Len(t) + 2 \in 1..Len(StoreKey(t, n)) /\ Len(t) + 2 <= Len(StoreKey(t, o)) + 1
            BY <6>1, <6>2, <6>3
          <6>. QED  BY <5>3, <6>2, <6>3, <6>4, <6>5, BeforeAt
        <5>4. ~(o < n)
          BY <1>9, <5>2, <5>3 DEF Upto
        <5>. QED  BY <5>4 DEF n, o
      <4>. QED  BY <3>5, <4>2, ListKeysAre
    <3>7. k = l
      BY <2>5, <3>4, <3>6 DEF KvKey, RecordKey
    <3>8. x = y
      BY <3>7 DEF Listable
    <3>. QED  BY <1>3, <2>5, <3>2, <3>3, <3>8 DEF Hidden
  <2>6. CASE e.what = "prefix"
    <3>1. f.what = "prefix"
      BY <2>2, <2>6
    <3>2. f = e
      BY <2>2, <2>3, <2>6, <3>1 DEF EntryRecord
    <3>3. /\ x.key \in Names /\ y.key \in Names
      BY <1>1, <1>4, ItemKeyIs
    <3>4. CommonPrefix(x.key, opt) # <<>> /\ e.key = CommonPrefix(x.key, opt)
      BY <1>1, <2>6 DEF EntryOf, Entry
    <3>5. CommonPrefix(y.key, opt) # <<>> /\ f.key = CommonPrefix(y.key, opt)
      BY <1>1, <1>3, <3>1 DEF EntryOf, Entry
    <3>6. HasPrefix(y.key, CommonPrefix(x.key, opt))
      BY <1>1, <1>3, <2>2, <3>3, <3>4, <3>5, CommonPrefixIs
    <3>7. opt.kind = "objects" => HasLiveKey(R, CommonPrefix(x.key, opt))
      BY <1>3, <3>6 DEF HasLiveKey, Latest, Items
    <3>. QED  BY <3>2, <3>4, <3>7 DEF Hidden
  <2>. QED  BY <2>4, <2>5, <2>6
<1>12. (Block(e) = Block(f)) \/ Upto(Past(e), Block(f)) \/ Upto(Past(f), Block(e))
  BY <1>1, <1>2, <1>5, BlocksApart
<1>. QED  BY <1>10, <1>11, <1>12

\* The marker of an entry is a key and a version.
LEMMA MarkerOfIs ==
  ASSUME NEW e \in EntryRecord
  PROVE  MarkerOf(e) \in MarkerRecord
<1>1. e.key \in Names /\ e.id \in Int
  BY DEF EntryRecord
<1> DEFINE v == IF e.what = "null" THEN Null ELSE e.id
<1>2. v \in Int
  BY <1>1 DEF Null
<1>3. MarkerOf(e) = [key |-> e.key, version |-> v]
  BY DEF MarkerOf, Marker
<1>. HIDE DEF v
<1>. QED  BY <1>1, <1>2, <1>3 DEF MarkerRecord

\* The loop ends with nothing left.
LEMMA ScanEnds ==
  ASSUME NEW R, NEW U, NEW opt, NEW a \in Text, NEW m, NEW s, Listable(R, U, opt), ScanOK(R, U, opt, a, m, s),
         ~s.over,
         Ahead(R, U, opt, s) = {} \/ ~HasPrefix(KvKey(opt, First(R, U, opt, s)), opt.prefix)
  PROVE  ScanOK(R, U, opt, a, m, [s EXCEPT !.over = TRUE])
<1> DEFINE t == [s EXCEPT !.over = TRUE]
<1>1. opt \in Options /\ s \in ScanRecord /\ Items(R, U, opt) \subseteq ItemRecord(opt)
  BY DEF Listable, ScanOK
<1>3. /\ t \in ScanRecord /\ t.seek = s.seek /\ t.entries = s.entries /\ t.next = s.next
      /\ t.over = TRUE /\ t.truncated = s.truncated
  BY <1>1 DEF ScanRecord
<1>4. ASSUME NEW f \in Whole(R, U, opt), Upto(a, Block(f)) PROVE Holds(s.entries, f)
  <2> SUFFICES ASSUME ~Holds(s.entries, f) PROVE FALSE
    OBVIOUS
  <2>1. s.seek \in Text /\ Upto(s.seek, Block(f)) /\ Upto(opt.prefix, s.seek)
    BY <1>4 DEF ScanOK, Boundary
  <2>2. PICK y \in Items(R, U, opt) : HasPrefix(y.key, opt.prefix) /\ f = EntryOf(opt, y)
    BY WholeFound
  <2>3. y \in ItemRecord(opt)
    BY <1>1
  <2>4. Upto(Block(f), KvKey(opt, y)) /\ Possible(opt, f) /\ KvKey(opt, y) \in Text /\ HasPrefix(KvKey(opt, y), opt.prefix)
    BY <1>1, <2>2, <2>3, ItemEntry, ItemKeyIs
  <2>5. Block(f) \in Text
    BY <1>1, <2>4, BlockIs
  <2>6. Upto(s.seek, KvKey(opt, y))
    BY <2>1, <2>4, <2>5, UptoOrder
  <2>7. ~Before(KvKey(opt, y), s.seek)
    BY <2>6 DEF Upto
  <2>8. Ahead(R, U, opt, s) # {}
    BY <2>7 DEF Ahead
  <2> DEFINE x == First(R, U, opt, s)
  <2>9. /\ x \in Items(R, U, opt) /\ ~Before(KvKey(opt, x), s.seek) /\ ~Before(KvKey(opt, y), KvKey(opt, x))
    BY <2>7, <2>8, FirstIs
  <2>10. KvKey(opt, x) \in Text /\ opt.prefix \in Text
    <3>1. opt.prefix \in Names
      BY <1>1 DEF Options
    <3>. QED  BY <1>1, <2>9, <3>1, ItemKeyIs, NameIs
  <2>11. Upto(s.seek, KvKey(opt, x)) /\ Upto(KvKey(opt, x), KvKey(opt, y))
    BY <2>9 DEF Upto
  <2>12. Upto(opt.prefix, KvKey(opt, x))
    BY <2>1, <2>10, <2>11, UptoOrder
  <2>13. HasPrefix(KvKey(opt, x), opt.prefix)
    BY <2>4, <2>10, <2>11, <2>12, PrefixTogether
  <2>. QED  BY <2>8, <2>13
<1>. HIDE DEF t
<1>5. ScanOK(R, U, opt, a, m, t)
  BY <1>3, <1>4 DEF ScanOK
<1>. QED  BY <1>5 DEF t

\* A page that is full is cut.
LEMMA ScanCut ==
  ASSUME NEW R, NEW U, NEW opt, NEW a \in Text, NEW m, NEW s, ScanOK(R, U, opt, a, m, s), ~s.over
  PROVE  ScanOK(R, U, opt, a, m, [s EXCEPT !.over = TRUE, !.truncated = TRUE])
<1> DEFINE t == [s EXCEPT !.over = TRUE, !.truncated = TRUE]
<1>1. s \in ScanRecord
  BY DEF ScanOK
<1>3. /\ t \in ScanRecord /\ t.seek = s.seek /\ t.entries = s.entries /\ t.next = s.next
      /\ t.over = TRUE /\ t.truncated = TRUE
  BY <1>1 DEF ScanRecord
<1>. HIDE DEF t
<1>4. ScanOK(R, U, opt, a, m, t)
  BY <1>3 DEF ScanOK
<1>. QED  BY <1>4 DEF t

\* What is no object is skipped.
LEMMA ScanSkips ==
  ASSUME NEW R, NEW U, NEW opt, NEW a \in Text, NEW m, NEW s, Listable(R, U, opt), ScanOK(R, U, opt, a, m, s),
         ~s.over, NEW x \in Items(R, U, opt), HasPrefix(x.key, opt.prefix), ~Before(KvKey(opt, x), s.seek),
         \A y \in Items(R, U, opt) : ~Before(KvKey(opt, y), s.seek) => ~Before(KvKey(opt, y), KvKey(opt, x)),
         Hidden(R, opt, x)
  PROVE  ScanOK(R, U, opt, a, m, [s EXCEPT !.seek = Past(EntryOf(opt, x))])
<1> DEFINE e == EntryOf(opt, x)
           p == Past(e)
           t == [s EXCEPT !.seek = p]
<1>1. s \in ScanRecord /\ s.next \in MarkerRecord /\ s.seek \in Text
  BY DEF ScanOK, ScanRecord
<1>2. /\ Found(R, U, opt, e) /\ Upto(s.seek, Block(e)) /\ Upto(a, Block(e)) /\ Upto(a, p)
      /\ Upto(s.seek, p) /\ Boundary(opt, p)
  BY MeetsWhole
<1>3. e \in EntryRecord /\ p \in Text
  BY <1>2, FoundPossible
<1>4. ASSUME NEW f \in Whole(R, U, opt), Upto(a, Block(f)), ~Holds(s.entries, f) PROVE Upto(p, Block(f))
  BY <1>4, NothingMissed
<1>. HIDE DEF e, p
<1>5. /\ t \in ScanRecord /\ t.seek = p /\ t.entries = s.entries /\ t.next = s.next
      /\ t.over = s.over /\ t.truncated = s.truncated
  BY <1>1, <1>3 DEF ScanRecord
<1>. HIDE DEF t
<1>6. ASSUME NEW i \in 1..Len(s.entries)
      PROVE  /\ Found(R, U, opt, s.entries[i]) /\ Upto(a, Block(s.entries[i])) /\ Upto(Past(s.entries[i]), p)
  <2>1. Found(R, U, opt, s.entries[i]) /\ Upto(a, Block(s.entries[i])) /\ Upto(Past(s.entries[i]), s.seek)
    BY DEF ScanOK
  <2>2. Past(s.entries[i]) \in Text
    BY <2>1, FoundPossible
  <2>. QED  BY <1>1, <1>2, <1>3, <2>1, <2>2, UptoOrder
<1>7. ScanOK(R, U, opt, a, m, t)
  BY <1>2, <1>4, <1>5, <1>6 DEF ScanOK
<1>. QED  BY <1>7 DEF t, p, e

\* An entry is added.
LEMMA ScanAdds ==
  ASSUME NEW R, NEW U, NEW opt, NEW a \in Text, NEW m, NEW s, Listable(R, U, opt), ScanOK(R, U, opt, a, m, s),
         ~s.over, NEW x \in Items(R, U, opt), HasPrefix(x.key, opt.prefix), ~Before(KvKey(opt, x), s.seek),
         \A y \in Items(R, U, opt) : ~Before(KvKey(opt, y), s.seek) => ~Before(KvKey(opt, y), KvKey(opt, x))
  PROVE  LET e == EntryOf(opt, x) IN
         ScanOK(R, U, opt, a, m, [s EXCEPT !.seek = Past(e), !.entries = Append(@, e), !.next = MarkerOf(e)])
<1> DEFINE e == EntryOf(opt, x)
           p == Past(e)
           n == MarkerOf(e)
           t == [s EXCEPT !.seek = p, !.entries = Append(@, e), !.next = n]
<1>1. s \in ScanRecord /\ s.next \in MarkerRecord /\ s.seek \in Text /\ s.entries \in Seq(EntryRecord)
  BY DEF ScanOK, ScanRecord
<1>2. /\ Found(R, U, opt, e) /\ Upto(s.seek, Block(e)) /\ Upto(a, Block(e)) /\ Upto(a, p)
      /\ Upto(s.seek, p) /\ Boundary(opt, p)
  BY MeetsWhole
<1>3. e \in EntryRecord /\ p \in Text /\ Block(e) \in Text
  BY <1>2, FoundPossible
<1>4. ASSUME NEW f \in Whole(R, U, opt), Upto(a, Block(f)), ~Holds(s.entries, f) PROVE f = e \/ Upto(p, Block(f))
  BY <1>4, NothingMissed
<1>5. n \in MarkerRecord
  BY <1>3, MarkerOfIs
<1>6. p = Past(e) /\ n = MarkerOf(e)
  OBVIOUS
<1>. HIDE DEF e, p, n
<1>7. /\ t \in ScanRecord /\ t.seek = p /\ t.entries = Append(s.entries, e) /\ t.next = n
      /\ t.over = s.over /\ t.truncated = s.truncated
  <2>1. Append(s.entries, e) \in Seq(EntryRecord)
    BY <1>1, <1>3
  <2>. QED  BY <1>1, <1>3, <1>5, <2>1 DEF ScanRecord
<1>. HIDE DEF t
<1> DEFINE q == t.entries
           z == Len(s.entries)
<1>8. /\ z \in Nat /\ Len(q) = z + 1 /\ q[z + 1] = e /\ q # <<>>
      /\ \A i \in 1..z : q[i] = s.entries[i]
  BY <1>1, <1>3, <1>7
<1>9. ASSUME NEW i \in 1..z
      PROVE  /\ Found(R, U, opt, s.entries[i]) /\ Upto(a, Block(s.entries[i])) /\ Upto(Past(s.entries[i]), p)
             /\ Upto(Past(s.entries[i]), Block(e))
  <2>1. Found(R, U, opt, s.entries[i]) /\ Upto(a, Block(s.entries[i])) /\ Upto(Past(s.entries[i]), s.seek)
    BY DEF ScanOK
  <2>2. Past(s.entries[i]) \in Text
    BY <2>1, FoundPossible
  <2>. QED  BY <1>1, <1>2, <1>3, <2>1, <2>2, UptoOrder
<1>10. Upto(p, p)
  BY <1>3, UptoOrder
<1>11. \A i, j \in 1..z : i < j => Upto(Past(s.entries[i]), Block(s.entries[j]))
  BY DEF ScanOK
<1>. HIDE DEF q, z
<1>12. ASSUME NEW i \in 1..Len(q) PROVE Found(R, U, opt, q[i]) /\ Upto(a, Block(q[i])) /\ Upto(Past(q[i]), p)
  <2>1. CASE i \in 1..z
    BY <1>8, <1>9, <2>1
  <2>2. CASE i = z + 1
    BY <1>2, <1>6, <1>8, <1>10, <2>2
  <2>. QED  BY <1>8, <2>1, <2>2
<1>13. ASSUME NEW i \in 1..Len(q), NEW j \in 1..Len(q), i < j PROVE Upto(Past(q[i]), Block(q[j]))
  <2>1. CASE j \in 1..z
    <3>1. i \in 1..z
      BY <1>8, <1>13, <2>1
    <3>. QED  BY <1>8, <1>11, <1>13, <2>1, <3>1
  <2>2. CASE j = z + 1
    <3>1. i \in 1..z
      BY <1>8, <1>13, <2>2
    <3>. QED  BY <1>8, <1>9, <2>2, <3>1
  <2>. QED  BY <1>8, <2>1, <2>2
<1>14. ASSUME NEW f \in Whole(R, U, opt), Upto(a, Block(f)) PROVE Holds(q, f) \/ Upto(p, Block(f))
  <2>1. CASE Holds(s.entries, f)
    <3>1. PICK i \in 1..z : s.entries[i] = f
      BY <2>1 DEF Holds, z
    <3>2. i \in 1..Len(q) /\ q[i] = f
      BY <1>8, <3>1
    <3>. QED  BY <3>2 DEF Holds
  <2>2. CASE f = e
    <3>1. z + 1 \in 1..Len(q) /\ q[z + 1] = f
      BY <1>8, <2>2
    <3>. QED  BY <3>1 DEF Holds
  <2>. QED  BY <1>4, <1>14, <2>1, <2>2
<1>15. t.next = MarkerOf(q[Len(q)])
  BY <1>6, <1>7, <1>8
<1>16. ScanOK(R, U, opt, a, m, t)
  BY <1>2, <1>7, <1>8, <1>12, <1>13, <1>14, <1>15 DEF ScanOK, q
<1>. QED  BY <1>16 DEF t, p, n, e

\* A turn of the loop keeps the scan right, and ends it or takes it further.
LEMMA TurnIs ==
  ASSUME NEW R, NEW U, NEW opt, NEW a \in Text, NEW m, NEW s, Listable(R, U, opt), ScanOK(R, U, opt, a, m, s)
  PROVE  LET t == Turn(R, U, opt, s) IN
         /\ ScanOK(R, U, opt, a, m, t)
         /\ t.over \/ (Ahead(R, U, opt, t) \subseteq Ahead(R, U, opt, s) /\ Ahead(R, U, opt, t) # Ahead(R, U, opt, s))
<1> DEFINE t == Turn(R, U, opt, s)
           x == First(R, U, opt, s)
           ends == Ahead(R, U, opt, s) = {} \/ ~HasPrefix(KvKey(opt, x), opt.prefix)
<1>1. t = IF s.over THEN s
          ELSE IF ends THEN [s EXCEPT !.over = TRUE]
          ELSE Meet(R, opt, s, x)
  BY DEF Turn, Ahead, First
<1>2. s \in ScanRecord /\ s.seek \in Text
  BY DEF ScanOK, ScanRecord
<1>3. CASE s.over
  BY <1>1, <1>3
<1>4. CASE ~s.over /\ ends
  <2>1. t = [s EXCEPT !.over = TRUE]
    BY <1>1, <1>4
  <2>2. ScanOK(R, U, opt, a, m, t)
    BY <1>4, <2>1, ScanEnds
  <2>3. t.over
    BY <1>2, <2>1 DEF ScanRecord
  <2>. QED  BY <2>2, <2>3
<1>5. CASE ~s.over /\ ~ends
  <2> DEFINE e == EntryOf(opt, x)
  <2>1. t = IF Hidden(R, opt, x) THEN [s EXCEPT !.seek = Past(e)]
            ELSE IF Len(s.entries) >= opt.max THEN [s EXCEPT !.over = TRUE, !.truncated = TRUE]
            ELSE [s EXCEPT !.seek = Past(e), !.entries = Append(@, e), !.next = MarkerOf(e)]
    BY <1>1, <1>5 DEF Meet
  <2>2. /\ x \in Items(R, U, opt) /\ ~Before(KvKey(opt, x), s.seek)
        /\ \A y \in Items(R, U, opt) : ~Before(KvKey(opt, y), s.seek) => ~Before(KvKey(opt, y), KvKey(opt, x))
    BY <1>5, FirstIs
  <2>3. opt \in Options /\ Items(R, U, opt) \subseteq ItemRecord(opt)
    BY DEF Listable
  <2>4. HasPrefix(x.key, opt.prefix) /\ KvKey(opt, x) \in Text
    BY <1>5, <2>2, <2>3, ItemKeyIs
  <2>. HIDE DEF x
  <2>5. /\ Found(R, U, opt, e) /\ Upto(s.seek, Past(e)) /\ Before(KvKey(opt, x), Past(e))
    BY <1>5, <2>2, <2>4, MeetsWhole
  <2>6. Past(e) \in Text
    BY <2>5, FoundPossible
  <2>7. ASSUME t.seek = Past(e)
        PROVE  Ahead(R, U, opt, t) \subseteq Ahead(R, U, opt, s) /\ Ahead(R, U, opt, t) # Ahead(R, U, opt, s)
    <3>1. x \in Ahead(R, U, opt, s) /\ x \notin Ahead(R, U, opt, t)
      BY <2>2, <2>5, <2>7 DEF Ahead
    <3>2. ASSUME NEW y \in Items(R, U, opt), ~Before(KvKey(opt, y), Past(e)) PROVE ~Before(KvKey(opt, y), s.seek)
      <4>1. KvKey(opt, y) \in Text /\ Upto(Past(e), KvKey(opt, y))
        BY <2>3, <3>2, ItemKeyIs DEF Upto
      <4>2. Upto(s.seek, KvKey(opt, y))
        BY <1>2, <2>5, <2>6, <4>1, UptoOrder
      <4>. QED  BY <4>2 DEF Upto
    <3>3. Ahead(R, U, opt, t) \subseteq Ahead(R, U, opt, s)
      BY <2>7, <3>2 DEF Ahead
    <3>. QED  BY <3>1, <3>3
  <2>8. CASE Hidden(R, opt, x)
    <3>1. t = [s EXCEPT !.seek = Past(e)]
      BY <2>1, <2>8
    <3>2. ScanOK(R, U, opt, a, m, t)
      BY <1>5, <2>2, <2>4, <2>8, <3>1, ScanSkips
    <3>3. t.seek = Past(e)
      BY <1>2, <3>1 DEF ScanRecord
    <3>. QED  BY <2>7, <3>2, <3>3
  <2>9. CASE ~Hidden(R, opt, x) /\ Len(s.entries) >= opt.max
    <3>1. t = [s EXCEPT !.over = TRUE, !.truncated = TRUE]
      BY <2>1, <2>9
    <3>2. ScanOK(R, U, opt, a, m, t)
      <4>1. ScanOK(R, U, opt, a, m, [s EXCEPT !.over = TRUE, !.truncated = TRUE])
        BY <1>5, ScanCut
      <4>. QED  BY <3>1, <4>1
    <3>3. t.over
      BY <1>2, <3>1 DEF ScanRecord
    <3>. QED  BY <3>2, <3>3
  <2>10. CASE ~Hidden(R, opt, x) /\ ~(Len(s.entries) >= opt.max)
    <3>1. t = [s EXCEPT !.seek = Past(e), !.entries = Append(@, e), !.next = MarkerOf(e)]
      BY <2>1, <2>10
    <3>2. ScanOK(R, U, opt, a, m, t)
      <4>1. ScanOK(R, U, opt, a, m, [s EXCEPT !.seek = Past(e), !.entries = Append(@, e), !.next = MarkerOf(e)])
        BY <1>5, <2>2, <2>4, ScanAdds
      <4>. QED  BY <3>1, <4>1
    <3>3. t.seek = Past(e)
      BY <1>2, <3>1 DEF ScanRecord
    <3>. QED  BY <2>7, <3>2, <3>3
  <2>. QED  BY <2>8, <2>9, <2>10
<1>. QED  BY <1>3, <1>4, <1>5

\* A function can be applied again and again.
Orbit(S, f, b, n, g) == g \in [0..n -> S] /\ g[0] = b /\ \A i \in 1..n : g[i] = f[g[i - 1]]

\* There is a function that holds the results of the turns.
LEMMA Iterated ==
  ASSUME NEW S, NEW f \in [S -> S], NEW b \in S, NEW n \in Nat
  PROVE  \E g : Orbit(S, f, b, n, g)
<1> DEFINE Good(k) == \E g \in [0..k -> S] : g[0] = b /\ \A i \in 1..k : g[i] = f[g[i - 1]]
           Wrong == {k \in Nat : ~Good(k)}
<1>1. Wrong = {}
  <2> SUFFICES ASSUME Wrong # {} PROVE FALSE
    OBVIOUS
  <2>1. PICK k \in Wrong : \A j \in Wrong : k <= j
    BY LeastElement
  <2>2. k \in Nat /\ ~Good(k)
    BY <2>1
  <2>3. k # 0
    <3>1. Good(0)
      <4> DEFINE h == [i \in 0..0 |-> b]
      <4>1. h \in [0..0 -> S] /\ h[0] = b /\ \A i \in 1..0 : h[i] = f[h[i - 1]]
        OBVIOUS
      <4>. HIDE DEF h
      <4>. QED  BY <4>1
    <3>. HIDE DEF Good
    <3>. QED  BY <2>2, <3>1
  <2>4. k - 1 \in Nat /\ ~(k <= k - 1)
    BY <2>2, <2>3
  <2>5. Good(k - 1)
    <3>. HIDE DEF Good
    <3>. QED  BY <2>1, <2>4
  <2>6. PICK g \in [0..(k - 1) -> S] : g[0] = b /\ \A i \in 1..(k - 1) : g[i] = f[g[i - 1]]
    BY <2>5
  <2> DEFINE h == [i \in 0..k |-> IF i = k THEN f[g[k - 1]] ELSE g[i]]
  <2>7. k - 1 \in 0..(k - 1) /\ f[g[k - 1]] \in S
    BY <2>4, <2>6
  <2>8. \A i \in 0..k : i # k => i \in 0..(k - 1)
    BY <2>2
  <2>9. h \in [0..k -> S]
    BY <2>6, <2>7, <2>8
  <2>10. h[0] = b
    BY <2>2, <2>3, <2>6
  <2>11. ASSUME NEW i \in 1..k PROVE h[i] = f[h[i - 1]]
    <3>1. i \in 0..k /\ i - 1 \in 0..k /\ i - 1 # k /\ h[i - 1] = g[i - 1]
      BY <2>2
    <3>2. CASE i = k
      BY <3>1, <3>2
    <3>3. CASE i # k
      <4>1. i \in 1..(k - 1) /\ h[i] = g[i]
        BY <2>2, <3>1, <3>3
      <4>. QED  BY <2>6, <3>1, <4>1
    <3>. QED  BY <3>2, <3>3
  <2>. HIDE DEF h
  <2>12. Good(k)
    BY <2>9, <2>10, <2>11
  <2>. HIDE DEF Good
  <2>. QED  BY <2>2, <2>12
<1>2. n \notin Wrong
  BY <1>1
<1>3. Good(n)
  <2>. HIDE DEF Good
  <2>. QED  BY <1>2
<1>. QED  BY <1>3 DEF Orbit

\* A scan whatever it starts with: its entries are of items with the prefix.
ScanTyped(R, U, opt, s) ==
  s \in ScanRecord /\ \A i \in 1..Len(s.entries) : Found(R, U, opt, s.entries[i])

\* A turn lists only what is in the store, wherever the page started.
LEMMA TurnTyped ==
  ASSUME NEW R, NEW U, NEW opt, NEW s, Listable(R, U, opt), ScanTyped(R, U, opt, s)
  PROVE  ScanTyped(R, U, opt, Turn(R, U, opt, s))
<1> DEFINE t == Turn(R, U, opt, s)
           x == First(R, U, opt, s)
           ends == Ahead(R, U, opt, s) = {} \/ ~HasPrefix(KvKey(opt, x), opt.prefix)
<1>1. t = IF s.over THEN s
          ELSE IF ends THEN [s EXCEPT !.over = TRUE]
          ELSE Meet(R, opt, s, x)
  BY DEF Turn, Ahead, First
<1>2. s \in ScanRecord /\ s.entries \in Seq(EntryRecord)
  BY DEF ScanTyped, ScanRecord
<1>3. CASE s.over
  BY <1>1, <1>3
<1>4. CASE ~s.over /\ ends
  <2>1. t \in ScanRecord /\ t.entries = s.entries
    BY <1>1, <1>2, <1>4 DEF ScanRecord
  <2>. QED  BY <2>1 DEF ScanTyped
<1>5. CASE ~s.over /\ ~ends
  <2> DEFINE e == EntryOf(opt, x)
             p == Past(e)
             n == MarkerOf(e)
  <2>1. t = IF Hidden(R, opt, x) THEN [s EXCEPT !.seek = p]
            ELSE IF Len(s.entries) >= opt.max THEN [s EXCEPT !.over = TRUE, !.truncated = TRUE]
            ELSE [s EXCEPT !.seek = p, !.entries = Append(@, e), !.next = n]
    BY <1>1, <1>5 DEF Meet
  <2>2. x \in Items(R, U, opt)
    BY <1>5, FirstIs
  <2>3. HasPrefix(x.key, opt.prefix)
    BY <1>5, <2>2, ItemKeyIs DEF Listable
  <2>4. Found(R, U, opt, e)
    BY <2>2, <2>3 DEF Found
  <2>5. p \in Text /\ e \in EntryRecord /\ n \in MarkerRecord
    BY <2>4, FoundPossible, MarkerOfIs
  <2>. HIDE DEF e, p, n
  <2>6. Append(s.entries, e) \in Seq(EntryRecord)
    BY <1>2, <2>5
  <2>7. CASE Hidden(R, opt, x)
    <3>1. t \in ScanRecord /\ t.entries = s.entries
      BY <1>2, <2>1, <2>5, <2>7 DEF ScanRecord
    <3>. QED  BY <3>1 DEF ScanTyped
  <2>8. CASE ~Hidden(R, opt, x) /\ Len(s.entries) >= opt.max
    <3>1. t \in ScanRecord /\ t.entries = s.entries
      BY <1>2, <2>1, <2>8 DEF ScanRecord
    <3>. QED  BY <3>1 DEF ScanTyped
  <2>9. CASE ~Hidden(R, opt, x) /\ ~(Len(s.entries) >= opt.max)
    <3>1. t = [s EXCEPT !.seek = p, !.entries = Append(@, e), !.next = n]
      BY <2>1, <2>9
    <3>2. t \in ScanRecord /\ t.entries = Append(s.entries, e)
      BY <1>2, <2>5, <2>6, <3>1 DEF ScanRecord
    <3>. HIDE DEF t
    <3>3. ASSUME NEW i \in 1..Len(t.entries) PROVE Found(R, U, opt, t.entries[i])
      <4>1. CASE i \in 1..Len(s.entries)
        <5>1. t.entries[i] = s.entries[i]
          BY <1>2, <2>5, <3>2, <4>1
        <5>. QED  BY <4>1, <5>1 DEF ScanTyped
      <4>2. CASE i = Len(s.entries) + 1
        BY <1>2, <2>4, <2>5, <3>2, <4>2
      <4>. QED  BY <1>2, <2>5, <3>2, <4>1, <4>2
    <3>. QED  BY <3>2, <3>3 DEF ScanTyped, t
  <2>. QED  BY <2>7, <2>8, <2>9
<1>. QED  BY <1>3, <1>4, <1>5

\* A page is a scan that is over, if it starts where the listing can be cut.
LEMMA PageIs ==
  ASSUME NEW R, NEW U, NEW opt, NEW m \in MarkerRecord, Listable(R, U, opt), Start(R, opt, m) \in Text
  PROVE  /\ ScanTyped(R, U, opt, Page(R, U, opt, m))
         /\ Boundary(opt, Start(R, opt, m)) =>
              ScanOK(R, U, opt, Start(R, opt, m), m, Page(R, U, opt, m)) /\ Page(R, U, opt, m).over
<1> DEFINE a == Start(R, opt, m)
           I == Items(R, U, opt)
           N == Cardinality(I) + 1
           b == [seek |-> a, entries |-> <<>>, over |-> FALSE, truncated |-> FALSE, next |-> m]
           Def(g) == g = [i \in 0..N |-> IF i = 0 THEN b ELSE Turn(R, U, opt, g[i - 1])]
           S == {s \in ScanRecord : ScanTyped(R, U, opt, s)}
           f == [s \in S |-> Turn(R, U, opt, s)]
           scan == CHOOSE g : Def(g)
<1>1. IsFiniteSet(I) /\ Cardinality(I) \in Nat /\ N \in Nat /\ a \in Text
  BY FS_CardinalityType DEF Listable
<1>2. b \in S
  <2>1. b \in ScanRecord
    BY <1>1 DEF ScanRecord
  <2>2. b.entries = <<>>
    OBVIOUS
  <2>. QED  BY <2>1, <2>2 DEF ScanTyped
<1>3. \A s \in S : Turn(R, U, opt, s) \in S
  <2>1. ASSUME NEW s \in S PROVE ScanTyped(R, U, opt, Turn(R, U, opt, s))
    BY TurnTyped
  <2>. QED  BY <2>1 DEF ScanTyped
<1>4. f \in [S -> S]
  BY <1>3
<1>5. \A s \in S : f[s] = Turn(R, U, opt, s)
  OBVIOUS
<1>6. Page(R, U, opt, m) = scan[N]
  BY DEF Page
<1>. HIDE DEF b, f, S, a, N
<1>7. PICK g \in [0..N -> S] : g[0] = b /\ \A i \in 1..N : g[i] = f[g[i - 1]]
  <2>1. N \in Nat /\ b \in S /\ f \in [S -> S]
    BY <1>1, <1>2, <1>4
  <2>2. PICK g : Orbit(S, f, b, N, g)
    BY <2>1, Iterated
  <2>. QED  BY <2>2 DEF Orbit
<1>8. Def(g)
  <2>1. ASSUME NEW i \in 0..N, i # 0 PROVE g[i] = Turn(R, U, opt, g[i - 1])
    <3>1. i \in 1..N /\ i - 1 \in 0..N
      BY <1>1, <2>1
    <3>2. g[i - 1] \in S
      BY <1>7, <3>1
    <3>. QED  BY <1>5, <1>7, <3>1, <3>2
  <2>. QED  BY <1>7, <2>1
<1>9. Def(scan)
  <2>. HIDE DEF Def
  <2>. QED  BY <1>8
<1>. HIDE DEF scan
<1>10. 0 \in 0..N /\ scan[0] = b
  BY <1>1, <1>9
<1>11. \A i \in 1..N : scan[i] = Turn(R, U, opt, scan[i - 1])
  <2>1. ASSUME NEW i \in 1..N PROVE scan[i] = Turn(R, U, opt, scan[i - 1])
    <3>1. i \in 0..N /\ i # 0
      BY <1>1
    <3>. QED  BY <1>9, <3>1
  <2>. QED  BY <2>1
<1>. HIDE DEF Def
<1>12. ScanTyped(R, U, opt, scan[N])
  <2> DEFINE Wrong == {i \in Nat : i <= N /\ scan[i] \notin S}
  <2>1. Wrong = {}
    <3> SUFFICES ASSUME Wrong # {} PROVE FALSE
      OBVIOUS
    <3>1. PICK k \in Wrong : \A j \in Wrong : k <= j
      BY LeastElement
    <3>2. k \in Nat /\ k <= N /\ scan[k] \notin S
      BY <3>1
    <3>3. k # 0
      BY <1>2, <1>10, <3>2
    <3>4. k - 1 \in Nat /\ ~(k <= k - 1) /\ k - 1 <= N /\ k \in 1..N
      BY <1>1, <3>2, <3>3
    <3>5. scan[k - 1] \in S
      BY <3>1, <3>4
    <3>. QED  BY <1>3, <1>11, <3>2, <3>4, <3>5
  <2>2. N \notin Wrong
    BY <2>1
  <2>3. scan[N] \in S
    BY <1>1, <2>2
  <2>. QED  BY <2>3 DEF S
<1>13. ASSUME Boundary(opt, a) PROVE ScanOK(R, U, opt, a, m, scan[N]) /\ scan[N].over
  <2> DEFINE size(i) == Cardinality(Ahead(R, U, opt, scan[i]))
             Good(i) == ScanOK(R, U, opt, a, m, scan[i]) /\ (scan[i].over \/ size(i) + i < N)
             Wrong == {i \in Nat : i <= N /\ ~Good(i)}
  <2>1. \A s : IsFiniteSet(Ahead(R, U, opt, s)) /\ Cardinality(Ahead(R, U, opt, s)) \in Nat
                 /\ Cardinality(Ahead(R, U, opt, s)) <= Cardinality(I)
    <3>1. ASSUME NEW s PROVE Ahead(R, U, opt, s) \subseteq I
      BY DEF Ahead
    <3>. HIDE DEF I
    <3>. QED  BY <1>1, <3>1, FS_Subset, FS_CardinalityType
  <2>2. Good(0)
    <3>1. size(0) \in Nat /\ size(0) <= Cardinality(I)
      BY <2>1
    <3>. HIDE DEF size
    <3>2. size(0) + 0 < N
      BY <1>1, <3>1 DEF N
    <3>3. b \in ScanRecord
      BY <1>2 DEF S
    <3>4. b.seek = a /\ b.entries = <<>> /\ ~b.over /\ b.next = m
      BY DEF b
    <3>5. Upto(a, a) /\ Boundary(opt, a)
      BY <1>1, <1>13, UptoOrder
    <3>6. ScanOK(R, U, opt, a, m, b)
      BY <3>3, <3>4, <3>5 DEF ScanOK
    <3>. QED  BY <1>10, <3>2, <3>6
  <2>3. Wrong = {}
    <3> SUFFICES ASSUME Wrong # {} PROVE FALSE
      OBVIOUS
    <3>1. PICK k \in Wrong : \A j \in Wrong : k <= j
      BY LeastElement
    <3>2. k \in Nat /\ k <= N /\ ~Good(k)
      BY <3>1
    <3>3. k # 0
      <4>. HIDE DEF Good
      <4>. QED  BY <2>2, <3>2
    <3>4. k - 1 \in Nat /\ ~(k <= k - 1) /\ k - 1 <= N /\ k \in 1..N
      BY <1>1, <3>2, <3>3
    <3>5. Good(k - 1)
      <4>. HIDE DEF Good
      <4>. QED  BY <3>1, <3>4
    <3> DEFINE s == scan[k - 1]
               t == scan[k]
               w == Turn(R, U, opt, s)
    <3>6. t = w /\ ScanOK(R, U, opt, a, m, s)
      BY <1>11, <3>4, <3>5
    <3>7. /\ ScanOK(R, U, opt, a, m, w)
          /\ w.over \/ (Ahead(R, U, opt, w) \subseteq Ahead(R, U, opt, s) /\ Ahead(R, U, opt, w) # Ahead(R, U, opt, s))
      <4>. HIDE DEF s
      <4>. QED  BY <1>1, <3>6, TurnIs
    <3>8. s.over => w.over
      BY DEF Turn
    <3>9. CASE t.over
      <4>. HIDE DEF w, s, t
      <4>1. ScanOK(R, U, opt, a, m, t)
        BY <3>6, <3>7
      <4>. QED  BY <3>2, <3>9, <4>1 DEF t
    <3>10. CASE ~t.over
      <4>1. size(k - 1) + (k - 1) < N
        <5>. HIDE DEF w
        <5>. QED  BY <3>5, <3>6, <3>8, <3>10
      <4>2. size(k) < size(k - 1)
        <5> DEFINE A == Ahead(R, U, opt, s)  B == Ahead(R, U, opt, t)
        <5>1. B \subseteq A /\ B # A
          <6>. HIDE DEF w, s, t
          <6>. QED  BY <3>6, <3>7, <3>10
        <5>2. IsFiniteSet(A) /\ Cardinality(A) \in Nat /\ Cardinality(B) \in Nat
          BY <2>1
        <5>. HIDE DEF A, B
        <5>3. Cardinality(B) <= Cardinality(A) /\ (Cardinality(B) = Cardinality(A) => B = A)
          BY <5>1, <5>2, FS_Subset
        <5>4. Cardinality(B) < Cardinality(A)
          BY <5>1, <5>2, <5>3
        <5>. QED  BY <5>4 DEF A, B
      <4>3. size(k) \in Nat /\ size(k - 1) \in Nat
        BY <2>1
      <4>. HIDE DEF size
      <4>4. size(k) + k < N
        BY <1>1, <3>2, <4>1, <4>2, <4>3
      <4>5. ScanOK(R, U, opt, a, m, scan[k])
        <5>. HIDE DEF w
        <5>. QED  BY <3>6, <3>7
      <4>. QED  BY <3>2, <4>4, <4>5
    <3>. QED  BY <3>9, <3>10
  <2>4. Good(N)
    <3>1. N \notin Wrong /\ N <= N
      BY <1>1, <2>3
    <3>. HIDE DEF Good
    <3>. QED  BY <1>1, <3>1
  <2>5. scan[N].over
    <3>1. size(N) \in Nat
      BY <2>1
    <3>2. scan[N].over \/ size(N) + N < N
      BY <2>4
    <3>. HIDE DEF size
    <3>. QED  BY <1>1, <3>1, <3>2
  <2>. QED  BY <2>4, <2>5
<1>. QED  BY <1>6, <1>12, <1>13 DEF a

-----------------------------------------------------------------------------
(* Where a page starts *)

\* An object whose key ends with the delimiter is listed with a delimiter only as
\* the placeholder of the folder.
LEMMA PlaceholderIs ==
  ASSUME NEW opt \in Options, NEW e, Possible(opt, e), e.what = "object", opt.delimiter, e.key[Len(e.key)] = Slash
  PROVE  e = Placeholder(opt) /\ opt.kind = "objects" /\ opt.prefix # <<>> /\ opt.prefix[Len(opt.prefix)] = Slash
<1>1. /\ e \in EntryRecord /\ e.key \in Names /\ e.key \in ListKeys /\ opt.prefix \in Names
      /\ opt.kind \in {"objects", "versions", "uploads"} /\ HasPrefix(e.key, opt.prefix)
  BY DEF Possible, EntryRecord, Options
<1>2. opt.kind = "objects" /\ e.id = 0
  BY <1>1 DEF Possible
<1>3. e.key # <<>> /\ Len(e.key) \in Nat /\ Len(opt.prefix) \in Nat
  BY <1>1, ListKeysAre, NameIs
<1>4. Len(e.key) \in 1..Len(e.key)
  <2>1. Len(e.key) # 0
    BY <1>1, <1>3 DEF Names
  <2>. QED  BY <1>3, <2>1
<1>5. ~(Len(e.key) > Len(opt.prefix))
  BY <1>1, <1>4 DEF Possible
<1>6. Len(e.key) = Len(opt.prefix) /\ \A i \in 1..Len(opt.prefix) : e.key[i] = opt.prefix[i]
  BY <1>1, <1>3, <1>5 DEF HasPrefix
<1>7. e.key = opt.prefix
  BY <1>1, <1>6, SameName
<1>8. e = [what |-> "object", key |-> opt.prefix, id |-> 0]
  BY <1>1, <1>2, <1>7 DEF EntryRecord
<1>. QED  BY <1>2, <1>3, <1>7, <1>8 DEF Placeholder, Entry

\* An object that afterKey takes for a common prefix.
Slashed(opt, e) == e.what = "object" /\ opt.delimiter /\ e.key[Len(e.key)] = Slash

\* Where list goes on after an entry: behind the null version of the key, wherever
\* that is now, or behind the key if it has none.
Place(R, opt, e, pos) ==
  IF e.what = "null"
  THEN \/ NullOf(R, e.key) = {} /\ pos = PrefixSuccessor(ObjectPrefix(e.key))
       \/ \E v \in R : v.key = e.key /\ v.null /\ pos = Past(Entry("null", e.key, v.seq))
  ELSE pos = IF Slashed(opt, e) THEN PrefixSuccessor(opt.prefix) ELSE Past(e)

\* A marker from which list goes on at pos.
Resumes(R, opt, at, pos) ==
  \/ at = NoMarker /\ pos = opt.prefix
  \/ \E e : Possible(opt, e) /\ at = MarkerOf(e) /\ Place(R, opt, e, pos)

\* The places of a null version's marker are all among the versions of its key.
LEMMA NullPlace ==
  ASSUME NEW R \in SUBSET VersionRecord, NEW opt \in Options, NEW e, Possible(opt, e), e.what = "null", NEW pos,
         Place(R, opt, e, pos)
  PROVE  Among(e.key, pos) /\ Boundary(opt, pos)
<1>1. CASE NullOf(R, e.key) = {} /\ pos = PrefixSuccessor(ObjectPrefix(e.key))
  BY <1>1, PastAmong, KeyBoundary
<1>2. ASSUME NEW v \in R, v.key = e.key, v.null, pos = Past(Entry("null", e.key, v.seq))
      PROVE  Among(e.key, pos) /\ Boundary(opt, pos)
  <2> DEFINE f == Entry("null", e.key, v.seq)
  <2>1. v.seq \in Nat \ {0}
    BY DEF VersionRecord
  <2>2. f.what = "null" /\ f.key = e.key /\ f.id = v.seq
    BY DEF Entry
  <2>3. f \in EntryRecord
    <3>1. e.key \in Names
      BY DEF Possible, EntryRecord
    <3>. QED  BY <2>1, <3>1 DEF Entry, EntryRecord
  <2>. HIDE DEF f
  <2>4. Possible(opt, f)
    BY <2>1, <2>2, <2>3 DEF Possible
  <2>5. Among(f.key, Past(f)) /\ Boundary(opt, Past(f))
    BY <2>2, <2>4, PastAmong, PastBoundary
  <2>. QED  BY <1>2, <2>2, <2>5 DEF f
<1>. QED  BY <1>1, <1>2 DEF Place

\* afterKey returns a place in the store ...
LEMMA AfterKeyIs ==
  ASSUME NEW k \in Names, k # <<>>, NEW delimiter \in BOOLEAN
  PROVE  AfterKey(k, delimiter) \in Text
BY NameIs, SuccessorIs, ObjectPrefixIs DEF AfterKey

\* ... as does every marker, a stale one too.
LEMMA StartTyped ==
  ASSUME NEW R \in SUBSET VersionRecord, NEW opt \in Options, NEW m \in MarkerRecord
  PROVE  Start(R, opt, m) \in Text
<1> DEFINE k == m.key
<1>1. /\ k \in Names /\ m.version \in Int /\ opt.prefix \in Names /\ opt.delimiter \in BOOLEAN
  BY DEF MarkerRecord, Options
<1>2. opt.prefix \in Text /\ k \in Text
  BY <1>1, NameIs
<1>3. ObjectPrefix(k) \in Text /\ PrefixSuccessor(ObjectPrefix(k)) \in Text
  BY <1>1, ObjectPrefixIs, SuccessorIs
<1>4. \A z \in Int : StoreKey(k, z) \o <<Nul>> \in Text
  BY <1>1, StoreKeyIs, AppendIs DEF Nul
<1>5. k # <<>> => AfterKey(k, opt.delimiter) \in Text
  BY <1>1, AfterKeyIs
<1>6. UploadStart(opt, m) \in Text
  <2>1. UploadKey(k, m.version) \o <<Nul>> \in Text
    BY <1>1, <1>4 DEF UploadKey, StoreKey
  <2>. QED  BY <1>2, <1>3, <2>1 DEF UploadStart
<1>7. ObjectKey(k, m.version) \o <<Nul>> \in Text
  <2> DEFINE z == MaxSeq - m.version
  <2>1. z \in Int
    BY <1>1, ListKeysAre
  <2>2. ObjectKey(k, m.version) = ObjectPrefix(k) \o <<z>>
    BY DEF ObjectKey
  <2>. HIDE DEF z
  <2>. QED  BY <1>4, <2>1, <2>2 DEF StoreKey
<1>8. ASSUME NullOf(R, k) # {}
      PROVE  (CHOOSE l \in {RecordKey(v) : v \in NullOf(R, k)} : TRUE) \o <<Nul>> \in Text
  <2> DEFINE L == {RecordKey(v) : v \in NullOf(R, k)}
             l == CHOOSE l \in L : TRUE
  <2>1. L # {}
    BY <1>8
  <2>2. l \in L
    BY <2>1
  <2>3. PICK v \in NullOf(R, k) : l = RecordKey(v)
    BY <2>2
  <2>4. v.key = k /\ v.seq \in Int
    BY DEF NullOf, VersionRecord
  <2> DEFINE z == MaxSeq - v.seq
  <2>5. z \in Int
    BY <2>4, ListKeysAre
  <2>6. l = ObjectPrefix(k) \o <<z>>
    BY <2>3, <2>4 DEF RecordKey, ObjectKey
  <2>. HIDE DEF z, l
  <2>7. l \o <<Nul>> \in Text
    BY <1>4, <2>5, <2>6 DEF StoreKey
  <2>. QED  BY <2>7 DEF l
<1>9. ListStart(R, opt, m) \in Text
  BY <1>2, <1>3, <1>5, <1>7, <1>8 DEF ListStart
<1>. QED  BY <1>6, <1>9 DEF Start

\* A marker from which the listing can go on is taken to where the last page ended.
LEMMA StartIs ==
  ASSUME NEW R \in SUBSET VersionRecord, NEW opt \in Options, NEW m, NEW pos, Resumes(R, opt, m, pos),
         ~(opt.delimiter /\ opt.kind = "uploads"),
         \A v, w \in R : v.key = w.key /\ v.null /\ w.null => v = w
  PROVE  Start(R, opt, m) = pos /\ Boundary(opt, pos)
<1>1. opt.prefix \in Names /\ opt.kind \in {"objects", "versions", "uploads"}
  BY DEF Options
<1>2. CASE m = NoMarker /\ pos = opt.prefix
  <2>1. m.key = <<>>
    BY <1>2 DEF NoMarker, Marker
  <2>2. Start(R, opt, m) = opt.prefix
    BY <2>1 DEF Start, ListStart, UploadStart
  <2>. QED  BY <1>2, <2>2, PrefixBoundary
<1>3. ASSUME NEW e, Possible(opt, e), m = MarkerOf(e), Place(R, opt, e, pos)
      PROVE  Start(R, opt, m) = pos /\ Boundary(opt, pos)
  <2> DEFINE k == e.key
  <2>1. e \in EntryRecord /\ k \in Names /\ e.id \in Nat /\ HasPrefix(k, opt.prefix)
    BY <1>3 DEF Possible, EntryRecord
  <2>2. m.key = k /\ m.version = IF e.what = "null" THEN -1 ELSE e.id
    BY <1>3 DEF MarkerOf, Marker, Null
  <2>3. k # <<>>
    <3>1. CASE e.what = "prefix"
      <4>1. Len(k) > Len(opt.prefix) /\ Len(opt.prefix) \in Nat
        BY <1>1, <1>3, <3>1, NameIs DEF Possible
      <4>. QED  BY <4>1
    <3>2. CASE e.what # "prefix"
      BY <1>3, <3>2, ListKeysAre DEF Possible
    <3>. QED  BY <3>1, <3>2
  <2>4. ~Before(k, opt.prefix)
    BY <1>1, <2>1, NameIs, PrefixFirst DEF Upto
  <2>5. e.what # "null" /\ ~Slashed(opt, e) => pos = Past(e) /\ Boundary(opt, pos)
    <3> SUFFICES ASSUME e.what # "null", ~Slashed(opt, e) PROVE pos = Past(e) /\ Boundary(opt, pos)
      OBVIOUS
    <3>1. pos = Past(e)
      BY <1>3 DEF Place
    <3>. QED  BY <1>3, <3>1, PastBoundary
  <2>6. CASE opt.kind = "uploads"
    <3>1. e.what = "upload" /\ e.id # 0 /\ ~Slashed(opt, e)
      BY <1>3, <2>6 DEF Possible, Slashed
    <3>2. Past(e) = UploadKey(k, e.id) \o <<Nul>>
      BY <3>1 DEF Past
    <3>3. m.version = e.id
      BY <2>2, <3>1
    <3>4. Start(R, opt, m) = Past(e)
      BY <2>2, <2>3, <2>6, <3>1, <3>2, <3>3 DEF Start, UploadStart
    <3>. QED  BY <2>5, <3>1, <3>4
  <2>7. CASE opt.kind # "uploads" /\ e.what = "prefix"
    <3>1. opt.delimiter /\ k[Len(k)] = Slash /\ e.id = 0 /\ ~Slashed(opt, e)
      BY <1>3, <2>7 DEF Possible, Slashed
    <3>2. m.version = 0 /\ Past(e) = PrefixSuccessor(k)
      BY <2>2, <2>7, <3>1 DEF Past
    <3>3. Start(R, opt, m) = AfterKey(k, opt.delimiter)
      BY <2>2, <2>3, <2>4, <2>7, <3>2 DEF Start, ListStart
    <3>4. AfterKey(k, opt.delimiter) = PrefixSuccessor(k)
      BY <2>3, <3>1 DEF AfterKey
    <3>. QED  BY <2>5, <2>7, <3>1, <3>2, <3>3, <3>4
  <2>8. CASE opt.kind = "objects" /\ e.what # "prefix"
    <3>1. e.what = "object"
      BY <1>3, <2>8 DEF Possible
    <3>2. Past(e) = PrefixSuccessor(ObjectPrefix(k))
      BY <3>1 DEF Past
    <3>3. Start(R, opt, m) = AfterKey(k, opt.delimiter)
      BY <2>2, <2>3, <2>4, <2>8 DEF Start, ListStart
    <3>4. CASE ~Slashed(opt, e)
      <4>1. AfterKey(k, opt.delimiter) = PrefixSuccessor(ObjectPrefix(k))
        BY <3>1, <3>4 DEF AfterKey, Slashed
      <4>. QED  BY <2>5, <3>1, <3>2, <3>3, <3>4, <4>1
    <3>5. CASE Slashed(opt, e)
      <4>1. e = Placeholder(opt) /\ opt.prefix # <<>>
        BY <1>3, <3>5, PlaceholderIs DEF Slashed
      <4>2. k = opt.prefix
        BY <4>1 DEF Placeholder, Entry
      <4>3. AfterKey(k, opt.delimiter) = PrefixSuccessor(k)
        BY <2>3, <3>5 DEF AfterKey, Slashed
      <4>4. pos = PrefixSuccessor(opt.prefix)
        BY <1>3, <3>1, <3>5 DEF Place
      <4>. QED  BY <3>3, <4>1, <4>2, <4>3, <4>4, PrefixEnd
    <3>. QED  BY <3>4, <3>5
  <2>9. CASE opt.kind = "versions" /\ e.what = "version"
    <3>1. e.id # 0 /\ ~Slashed(opt, e)
      BY <1>3, <2>9 DEF Possible, Slashed
    <3>2. Past(e) = ObjectKey(k, e.id) \o <<Nul>>
      BY <2>9 DEF Past
    <3>3. m.version = e.id /\ m.version # 0 /\ m.version # -1
      BY <2>1, <2>2, <2>9, <3>1
    <3>4. Start(R, opt, m) = Past(e)
      BY <2>2, <2>3, <2>4, <2>9, <3>2, <3>3 DEF Start, ListStart, Null
    <3>. QED  BY <2>5, <2>9, <3>1, <3>4
  <2>10. CASE opt.kind = "versions" /\ e.what = "null"
    <3>0. m.version = -1 /\ m.version # 0
      BY <2>2, <2>10
    <3>1. Boundary(opt, pos)
      BY <1>3, <2>10, NullPlace
    <3>2. CASE NullOf(R, k) = {} /\ pos = PrefixSuccessor(ObjectPrefix(k))
      <4>1. Start(R, opt, m) = PrefixSuccessor(ObjectPrefix(k))
        BY <2>2, <2>3, <2>4, <2>10, <3>0, <3>2 DEF Start, ListStart, Null
      <4>. QED  BY <3>1, <3>2, <4>1
    <3>3. ASSUME NEW v \in R, v.key = k, v.null, pos = Past(Entry("null", k, v.seq))
          PROVE  Start(R, opt, m) = pos
      <4>1. NullOf(R, k) = {v}
        BY <3>3 DEF NullOf
      <4>2. (CHOOSE l \in {RecordKey(w) : w \in NullOf(R, k)} : TRUE) = RecordKey(v)
        BY <4>1
      <4>3. RecordKey(v) = ObjectKey(k, v.seq)
        BY <3>3 DEF RecordKey
      <4>4. pos = ObjectKey(k, v.seq) \o <<Nul>>
        BY <3>3 DEF Past, Entry
      <4>5. Start(R, opt, m) = (CHOOSE l \in {RecordKey(w) : w \in NullOf(R, k)} : TRUE) \o <<Nul>>
        BY <2>2, <2>3, <2>4, <2>10, <3>0, <4>1 DEF Start, ListStart, Null
      <4>. QED  BY <4>2, <4>3, <4>4, <4>5
    <3>. QED  BY <1>3, <2>10, <3>1, <3>2, <3>3 DEF Place
  <2>11. opt.kind = "versions" /\ e.what # "prefix" => e.what \in {"version", "null"}
    BY <1>3 DEF Possible
  <2>. QED  BY <1>1, <2>6, <2>7, <2>8, <2>9, <2>10, <2>11
<1>. QED  BY <1>2, <1>3 DEF Resumes

\* A marker that goes on in the records R goes on in S, too: at the same place, or
\* at another among the versions of a key of K, which is passed over to none of
\* the entries of other keys.
Follows(S, opt, at, pos, K, to) ==
  /\ Resumes(S, opt, at, to)
  /\ \A e : Possible(opt, e) /\ e.key \notin K =>
       (Upto(Past(e), pos) => Upto(Past(e), to)) /\ (Upto(pos, Block(e)) => Upto(to, Block(e)))

\* The key whose null version is the marker and has gone is one of K.
Counted(R, at, K) == \A k \in ListKeys : at = Marker(k, Null) /\ NullOf(R, k) = {} => k \in K

\* The marker is found again whatever happens to the records.
LEMMA Resumed ==
  ASSUME NEW R \in SUBSET VersionRecord, NEW S \in SUBSET VersionRecord, NEW opt \in Options, NEW at, NEW pos,
         NEW J, NEW K, J \subseteq K, Resumes(R, opt, at, pos), Counted(R, at, J),
         \A v \in R : v \in S \/ (v.null /\ at = Marker(v.key, Null) => v.key \in K)
  PROVE  Counted(S, at, K) /\ \E to : Follows(S, opt, at, pos, K, to)
<1>1. ASSUME NEW k \in ListKeys, at = Marker(k, Null), NullOf(S, k) = {} PROVE k \in K
  <2>1. CASE NullOf(R, k) = {}
    BY <1>1, <2>1 DEF Counted
  <2>2. CASE NullOf(R, k) # {}
    <3>1. PICK v \in R : v.key = k /\ v.null
      BY <2>2 DEF NullOf
    <3>2. v \notin S
      BY <1>1, <3>1 DEF NullOf
    <3>. QED  BY <1>1, <3>1, <3>2
  <2>. QED  BY <2>1, <2>2
<1>2. ASSUME Resumes(S, opt, at, pos) PROVE Follows(S, opt, at, pos, K, pos)
  BY <1>2 DEF Follows
<1>3. CASE at = NoMarker /\ pos = opt.prefix
  <2>1. Resumes(S, opt, at, pos)
    BY <1>3 DEF Resumes
  <2>. QED  BY <1>1, <1>2, <2>1 DEF Counted
<1>4. ASSUME NEW g, Possible(opt, g), at = MarkerOf(g), Place(R, opt, g, pos)
      PROVE  \E to : Follows(S, opt, at, pos, K, to)
  <2>1. CASE g.what # "null"
    <3>1. Place(S, opt, g, pos)
      BY <1>4, <2>1 DEF Place
    <3>2. Resumes(S, opt, at, pos)
      BY <1>4, <3>1 DEF Resumes
    <3>. QED  BY <1>2, <3>2
  <2>2. CASE g.what = "null"
    <3>1. at = Marker(g.key, Null) /\ g.key \in ListKeys
      BY <1>4, <2>2 DEF MarkerOf, Possible
    <3>2. CASE g.key \notin K
      <4>1. NullOf(R, g.key) # {}
        BY <3>1, <3>2 DEF Counted
      <4>2. PICK v \in R : v.key = g.key /\ v.null /\ pos = Past(Entry("null", g.key, v.seq))
        BY <1>4, <2>2, <4>1 DEF Place
      <4>3. v \in S
        BY <3>1, <3>2, <4>2
      <4>4. Place(S, opt, g, pos)
        BY <2>2, <4>2, <4>3 DEF Place
      <4>5. Resumes(S, opt, at, pos)
        BY <1>4, <4>4 DEF Resumes
      <4>. QED  BY <1>2, <4>5
    <3>3. CASE g.key \in K
      <4>1. PICK to : Place(S, opt, g, to)
        <5>1. CASE NullOf(S, g.key) = {}
          BY <2>2, <5>1 DEF Place
        <5>2. CASE NullOf(S, g.key) # {}
          <6>1. PICK v \in S : v.key = g.key /\ v.null
            BY <5>2 DEF NullOf
          <6>. QED  BY <2>2, <6>1 DEF Place
        <5>. QED  BY <5>1, <5>2
      <4>2. Among(g.key, pos) /\ Among(g.key, to)
        BY <1>4, <2>2, <4>1, NullPlace
      <4>3. ASSUME NEW e, Possible(opt, e), e.key \notin K
            PROVE  (Upto(Past(e), pos) => Upto(Past(e), to)) /\ (Upto(pos, Block(e)) => Upto(to, Block(e)))
        BY <1>4, <2>2, <3>3, <4>2, <4>3, SameSide
      <4>4. Resumes(S, opt, at, to)
        BY <1>4, <4>1 DEF Resumes
      <4>5. Follows(S, opt, at, pos, K, to)
        BY <4>3, <4>4 DEF Follows
      <4>. QED  BY <4>5
    <3>. QED  BY <3>2, <3>3
  <2>. QED  BY <2>1, <2>2
<1>. QED  BY <1>1, <1>3, <1>4 DEF Counted, Resumes

-----------------------------------------------------------------------------
(* The inductive invariant *)

PagerRecord ==
  [pc : {"idle", "paging", "done"}, opt : Options \cup {<<>>}, at : MarkerRecord,
   pages : Seq(Seq(EntryRecord)), purge : BOOLEAN, todo : Seq(EntryRecord), deleted : Nat]

ListTypeOK ==
  /\ records \in SUBSET VersionRecord /\ IsFiniteSet(records)
  /\ uploads \in SUBSET UploadRecord /\ IsFiniteSet(uploads)
  /\ changes \in Nat /\ pager \in PagerRecord
  /\ pager.pc = "idle" => pager.at = NoMarker /\ pager.pages = <<>> /\ pager.todo = <<>>
  /\ pager.pc # "idle" => pager.opt \in Options
  /\ pager.pc # "idle" /\ pager.purge => ~pager.opt.delimiter /\ pager.opt.kind # "uploads"
  /\ pager.todo # <<>> => pager.purge
  /\ \A i \in 1..Len(pager.todo) : Possible(pager.opt, pager.todo[i])

\* No sequence is used twice, and a key has one null version.
VersionsOK ==
  /\ \A v \in records : v.seq < NewSeq
  /\ \A v, w \in records : v.key = w.key /\ v.seq = w.seq => v = w
  /\ \A v, w \in records : v.key = w.key /\ v.null /\ w.null => v = w

\* A version that waits to be deleted is not the null version of its key, nor will be.
TodoOK ==
  \A i \in 1..Len(pager.todo) :
    pager.todo[i].what = "version" =>
      /\ pager.todo[i].id < NewSeq
      /\ \A v \in records : v.key = pager.todo[i].key /\ v.seq = pager.todo[i].id => ~v.null

WasGiven(pages, e) == \E p \in 1..Len(pages) : Holds(pages[p], e)

\* Deleting the entry t leaves the entry e.
Spared(t, e) ==
  /\ t.what = "object" => e.key # t.key
  /\ t.what = "version" => e.key # t.key \/ e.id # t.id
  /\ t.what = "null" => ~(e.what = "null" /\ e.key = t.key)

\* The listing has got to pos: what was given lies before it, each entry once, and
\* what has been there all the time and was not given lies behind it.  The keys
\* that moved are left out.
ReadTo(pos) ==
  /\ Resumes(records, pager.opt, pager.at, pos) /\ Counted(records, pager.at, moved)
  /\ \A e : WasGiven(pager.pages, e) => Possible(pager.opt, e) /\ (e.key \in moved \/ Upto(Past(e), pos))
  /\ \A p, q \in 1..Len(pager.pages) :
       \A i \in 1..Len(pager.pages[p]), j \in 1..Len(pager.pages[q]) :
         pager.pages[p][i] = pager.pages[q][j] => (p = q /\ i = j) \/ pager.pages[p][i].key \in moved
  /\ ~CutShort => \A e \in stayed :
       \/ e.key \in moved \/ WasGiven(pager.pages, e)
       \/ pager.pc = "paging" /\ e \in Whole(records, uploads, pager.opt) /\ Upto(pos, Block(e))
  /\ \A i \in 1..Len(pager.todo) : \A e \in stayed :
       e.key \in moved \/ WasGiven(pager.pages, e) \/ Spared(pager.todo[i], e)

\* The listings that are not left out.
Plain == pager.pc # "idle" /\ ~(pager.opt.delimiter /\ pager.opt.kind = "uploads")

ListInv ==
  /\ ListTypeOK /\ VersionsOK /\ TodoOK
  /\ Plain => \E pos : ReadTo(pos)

\* Sequences that are used once make a store that can be listed.
LEMMA ListableIs ==
  ASSUME NEW R \in SUBSET VersionRecord, IsFiniteSet(R), NEW U \in SUBSET UploadRecord, IsFiniteSet(U),
         NEW opt \in Options, \A v, w \in R : v.key = w.key /\ v.seq = w.seq => v = w
  PROVE  Listable(R, U, opt)
<1> DEFINE I == Items(R, U, opt)
<1>1. I \subseteq ItemRecord(opt) /\ IsFiniteSet(I)
  BY DEF Items, ItemRecord
<1>2. ASSUME NEW x \in I, NEW y \in I, KvKey(opt, x) = KvKey(opt, y) PROVE x = y
  <2>1. /\ x.key \in Names /\ ItemSymbol(opt, x) \in Int /\ KvKey(opt, x) = StoreKey(x.key, ItemSymbol(opt, x))
        /\ y.key \in Names /\ ItemSymbol(opt, y) \in Int /\ KvKey(opt, y) = StoreKey(y.key, ItemSymbol(opt, y))
        /\ KvKey(opt, x) \in Text
    BY <1>1, ItemKeyIs
  <2>2. HasPrefix(KvKey(opt, x), KvKey(opt, y))
    BY <1>2, <2>1, TextIs DEF HasPrefix
  <2>3. x.key = y.key /\ ItemSymbol(opt, x) = ItemSymbol(opt, y)
    BY <2>1, <2>2, StoreKeys
  <2>4. CASE opt.kind = "uploads"
    <3>1. x \in UploadRecord /\ y \in UploadRecord /\ x.id = y.id
      BY <1>1, <2>3, <2>4 DEF ItemRecord, ItemSymbol
    <3>. QED  BY <2>3, <3>1 DEF UploadRecord
  <2>5. CASE opt.kind # "uploads"
    <3>1. x \in R /\ y \in R /\ MaxSeq - x.seq = MaxSeq - y.seq
      BY <2>3, <2>5 DEF Items, ItemSymbol
    <3>2. x.seq \in Nat /\ y.seq \in Nat
      BY <3>1 DEF VersionRecord
    <3>3. x.seq = y.seq
      BY <3>1, <3>2, ListKeysAre
    <3>. QED  BY <2>3, <3>1, <3>3
  <2>. QED  BY <2>4, <2>5
<1>. QED  BY <1>1, <1>2 DEF Listable

\* No later version takes the place of one that waits to be deleted.
LEMMA TodoKept ==
  ASSUME ListTypeOK, TodoOK, NewSeq \in Nat, NewSeq' \in Nat, NewSeq <= NewSeq',
         \A i \in 1..Len(pager'.todo) : \E j \in 1..Len(pager.todo) : pager'.todo[i] = pager.todo[j],
         \A v \in records' : v \in records \/ v.seq = NewSeq
  PROVE  TodoOK'
<1>1. pager.todo \in Seq(EntryRecord)
  BY DEF ListTypeOK, PagerRecord
<1>2. ASSUME NEW i \in 1..Len(pager'.todo), pager'.todo[i].what = "version"
      PROVE  /\ pager'.todo[i].id < NewSeq'
             /\ \A v \in records' : v.key = pager'.todo[i].key /\ v.seq = pager'.todo[i].id => ~v.null
  <2>1. PICK j \in 1..Len(pager.todo) : pager'.todo[i] = pager.todo[j]
    OBVIOUS
  <2>2. pager.todo[j].id \in Nat
    <3>1. pager.todo[j] \in EntryRecord
      BY <1>1
    <3>. QED  BY <3>1 DEF EntryRecord
  <2>3. /\ pager.todo[j].id < NewSeq
        /\ \A v \in records : v.key = pager.todo[j].key /\ v.seq = pager.todo[j].id => ~v.null
    BY <1>2, <2>1 DEF TodoOK
  <2>4. pager.todo[j].id # NewSeq /\ pager.todo[j].id < NewSeq'
    BY <2>2, <2>3
  <2>. QED  BY <2>1, <2>3, <2>4
<1>. QED  BY <1>2 DEF TodoOK

\* A change between two pages takes the reader nowhere.
LEMMA ChangeStep ==
  ASSUME ListInv, ListTypeOK', VersionsOK', pager.pc = "paging", UNCHANGED pager,
         stayed' = stayed \cap Whole(records', uploads', pager.opt), moved \subseteq moved',
         \A v \in records : v \in records' \/ (v.null /\ pager.at = Marker(v.key, Null) => v.key \in moved'),
         NewSeq' = NewSeq + 1, \A v \in records' : v \in records \/ v.seq = NewSeq
  PROVE  ListInv'
<1>0. TodoOK'
  <2>1. ListTypeOK /\ TodoOK
    BY DEF ListInv
  <2>2. changes \in Nat /\ pager.deleted \in Nat
    BY <2>1 DEF ListTypeOK, PagerRecord
  <2>3. NewSeq \in Nat
    BY <2>2 DEF NewSeq
  <2>4. NewSeq' \in Nat /\ NewSeq <= NewSeq'
    BY <2>3
  <2>5. \A i \in 1..Len(pager'.todo) : \E j \in 1..Len(pager.todo) : pager'.todo[i] = pager.todo[j]
    OBVIOUS
  <2>. QED  BY <2>1, <2>3, <2>4, <2>5, TodoKept
<1> SUFFICES ASSUME Plain' PROVE \E pos : ReadTo(pos)'
  BY <1>0 DEF ListInv
<1>1. Plain
  BY DEF Plain
<1>2. PICK pos : ReadTo(pos)
  BY <1>1 DEF ListInv
<1>3. pager.opt \in Options /\ records \in SUBSET VersionRecord /\ records' \in SUBSET VersionRecord
  BY DEF ListInv, ListTypeOK
<1>4. Counted(records', pager.at, moved') /\ \E to : Follows(records', pager.opt, pager.at, pos, moved', to)
  <2>1. Resumes(records, pager.opt, pager.at, pos) /\ Counted(records, pager.at, moved)
    BY <1>2 DEF ReadTo
  <2>2. PICK S, K, J, R, opt, at : /\ S = records' /\ K = moved' /\ J = moved /\ R = records
                                   /\ opt = pager.opt /\ at = pager.at
    OBVIOUS
  <2>3. Counted(S, at, K) /\ \E to : Follows(S, opt, at, pos, K, to)
    BY <1>3, <2>1, <2>2, Resumed
  <2>. QED  BY <2>2, <2>3
<1>5. PICK to : Follows(records', pager.opt, pager.at, pos, moved', to)
  BY <1>4
<1>6. Resumes(records', pager'.opt, pager'.at, to) /\ Counted(records', pager'.at, moved')
  BY <1>4, <1>5 DEF Follows
<1>7. ASSUME NEW e, WasGiven(pager'.pages, e)
      PROVE  Possible(pager'.opt, e) /\ (e.key \in moved' \/ Upto(Past(e), to))
  <2>1. Possible(pager.opt, e) /\ (e.key \in moved \/ Upto(Past(e), pos))
    BY <1>2, <1>7 DEF ReadTo
  <2>. QED  BY <1>5, <2>1 DEF Follows
<1>8. \A p, q \in 1..Len(pager'.pages) :
        \A i \in 1..Len(pager'.pages[p]), j \in 1..Len(pager'.pages[q]) :
          pager'.pages[p][i] = pager'.pages[q][j] => (p = q /\ i = j) \/ pager'.pages[p][i].key \in moved'
  BY <1>2 DEF ReadTo
<1>9. ASSUME ~CutShort', NEW e \in stayed', e.key \notin moved', ~WasGiven(pager'.pages, e)
      PROVE  pager'.pc = "paging" /\ e \in Whole(records', uploads', pager'.opt) /\ Upto(to, Block(e))
  <2>1. ~CutShort /\ e \in stayed /\ e \in Whole(records', uploads', pager'.opt) /\ e.key \notin moved
    BY <1>9 DEF CutShort
  <2>2. Upto(pos, Block(e)) /\ e \in Whole(records, uploads, pager.opt)
    BY <1>2, <1>9, <2>1 DEF ReadTo
  <2>3. Possible(pager.opt, e)
    <3>1. Listable(records, uploads, pager.opt)
      BY <1>3, ListableIs DEF ListInv, ListTypeOK, VersionsOK
    <3>2. Found(records, uploads, pager.opt, e)
      BY <2>2, WholeFound
    <3>. QED  BY <3>1, <3>2, FoundPossible
  <2>4. Upto(to, Block(e))
    BY <1>5, <1>9, <2>2, <2>3 DEF Follows
  <2>. QED  BY <2>1, <2>4
<1>10. \A i \in 1..Len(pager'.todo) : \A e \in stayed' :
         e.key \in moved' \/ WasGiven(pager'.pages, e) \/ Spared(pager'.todo[i], e)
  BY <1>2 DEF ReadTo
<1>11. ReadTo(to)'
  BY <1>6, <1>7, <1>8, <1>9, <1>10 DEF ReadTo
<1>. QED  BY <1>11

\* What WithRecord leaves.
LEMMA WithRecordIs ==
  ASSUME ListTypeOK, VersionsOK, NEW key \in ListKeys, NEW marker \in BOOLEAN, NEW null \in BOOLEAN
  PROVE  LET W == WithRecord(key, marker, null) IN
         /\ W \in SUBSET VersionRecord /\ IsFiniteSet(W)
         /\ \A v \in W : v.seq < NewSeq + 1
         /\ \A v, w \in W : v.key = w.key /\ v.seq = w.seq => v = w
         /\ \A v, w \in W : v.key = w.key /\ v.null /\ w.null => v = w
         /\ \A v \in records : v \in W \/ (null /\ v \in NullOf(records, key))
         /\ \A v \in W : v \in records \/ (v.key = key /\ v.seq = NewSeq)
<1> DEFINE n == NewSeq
           v0 == [key |-> key, seq |-> n, marker |-> marker, null |-> null]
           K == {w \in records : ~(null /\ w \in NullOf(records, key))}
           W == WithRecord(key, marker, null)
<1>1. W = K \cup {v0}
  BY DEF WithRecord
<1>2. n \in Nat \ {0}
  BY DEF ListTypeOK, PagerRecord, NewSeq
<1>3. \A v \in records : v.seq \in Nat /\ v.seq < n
  BY DEF ListTypeOK, VersionRecord, VersionsOK
<1>. HIDE DEF n
<1>4. v0 \in VersionRecord /\ v0.key = key /\ v0.seq = n /\ v0.null = null
  BY <1>2 DEF VersionRecord
<1>. HIDE DEF v0, W
<1>5. K \subseteq records /\ IsFiniteSet(K)
  BY FS_Subset DEF ListTypeOK
<1>6. W \in SUBSET VersionRecord
  BY <1>1, <1>4, <1>5 DEF ListTypeOK
<1>7. IsFiniteSet(W)
  <2>. HIDE DEF K
  <2>. QED  BY <1>1, <1>5, FS_AddElement
<1>8. \A v \in W : v.seq < n + 1
  BY <1>1, <1>2, <1>3, <1>4, <1>5
<1>9. ASSUME NEW v \in W, NEW w \in W, v.key = w.key, v.seq = w.seq PROVE v = w
  <2>1. CASE v \in K /\ w \in K
    BY <1>5, <1>9, <2>1 DEF VersionsOK
  <2>2. CASE v = v0 /\ w \in K
    BY <1>2, <1>3, <1>4, <1>5, <1>9, <2>2
  <2>3. CASE v \in K /\ w = v0
    BY <1>2, <1>3, <1>4, <1>5, <1>9, <2>3
  <2>. QED  BY <1>1, <2>1, <2>2, <2>3
<1>10. ASSUME NEW v \in W, NEW w \in W, v.key = w.key, v.null, w.null PROVE v = w
  <2>1. CASE v \in K /\ w \in K
    BY <1>5, <1>10, <2>1 DEF VersionsOK
  <2>2. CASE v = v0 /\ w \in K
    BY <1>4, <1>10, <2>2 DEF NullOf
  <2>3. CASE v \in K /\ w = v0
    BY <1>4, <1>10, <2>3 DEF NullOf
  <2>. QED  BY <1>1, <2>1, <2>2, <2>3
<1>11. \A v \in records : v \in W \/ (null /\ v \in NullOf(records, key))
  BY <1>1
<1>12. \A v \in W : v \in records \/ (v.key = key /\ v.seq = n)
  BY <1>1, <1>4
<1>. QED  BY <1>6, <1>7, <1>8, <1>9, <1>10, <1>11, <1>12 DEF n, W

\* A put or a delete marker between two pages.
LEMMA PutRecordStep ==
  ASSUME ListInv, NEW key \in ListKeys, NEW marker \in BOOLEAN, NEW null \in BOOLEAN, PutRecord(key, marker, null)
  PROVE  ListInv'
<1> DEFINE W == WithRecord(key, marker, null)
<1>1. /\ pager.pc = "paging" /\ UNCHANGED <<pager, uploads>> /\ changes' = changes + 1 /\ records' = W
      /\ stayed' = stayed \cap Whole(records', uploads', pager.opt)
      /\ moved' = moved \cup {k \in {key} : null /\ NullOf(records, k) # {} /\ pager.at = Marker(k, Null)}
  BY DEF PutRecord, Store, Changing
<1>2. ListTypeOK /\ VersionsOK
  BY DEF ListInv
<1>3. /\ W \in SUBSET VersionRecord /\ IsFiniteSet(W)
      /\ \A v \in W : v.seq < NewSeq + 1
      /\ \A v, w \in W : v.key = w.key /\ v.seq = w.seq => v = w
      /\ \A v, w \in W : v.key = w.key /\ v.null /\ w.null => v = w
      /\ \A v \in records : v \in W \/ (null /\ v \in NullOf(records, key))
      /\ \A v \in W : v \in records \/ (v.key = key /\ v.seq = NewSeq)
  BY <1>2, WithRecordIs
<1>. HIDE DEF W
<1>4. NewSeq' = NewSeq + 1
  <2>1. changes \in Nat /\ pager.deleted \in Nat
    BY <1>2 DEF ListTypeOK, PagerRecord
  <2>. QED  BY <1>1, <2>1 DEF NewSeq
<1>5. ListTypeOK'
  BY <1>1, <1>2, <1>3 DEF ListTypeOK
<1>6. VersionsOK'
  BY <1>1, <1>3, <1>4 DEF VersionsOK
<1>7. \A v \in records : v \in records' \/ (v.null /\ pager.at = Marker(v.key, Null) => v.key \in moved')
  <2>1. ASSUME NEW v \in records, v \notin records', v.null, pager.at = Marker(v.key, Null) PROVE v.key \in moved'
    <3>1. null /\ v \in NullOf(records, key)
      BY <1>1, <1>3, <2>1
    <3>2. v.key = key /\ NullOf(records, key) # {}
      BY <3>1 DEF NullOf
    <3>. QED  BY <1>1, <2>1, <3>1, <3>2
  <2>. QED  BY <2>1
<1>8. moved \subseteq moved'
  BY <1>1
<1>9. \A v \in records' : v \in records \/ v.seq = NewSeq
  BY <1>1, <1>3
<1>. QED  BY <1>1, <1>4, <1>5, <1>6, <1>7, <1>8, <1>9, ChangeStep

\* A version is deleted between two pages.
LEMMA RemoveRecordStep == ASSUME ListInv, NEW v \in records, RemoveRecord(v) PROVE ListInv'
<1>1. /\ pager.pc = "paging" /\ UNCHANGED <<pager, uploads>> /\ changes' = changes + 1 /\ records' = records \ {v}
      /\ stayed' = stayed \cap Whole(records', uploads', pager.opt)
      /\ moved' = moved \cup {k \in {v.key} : v.null /\ pager.at = Marker(k, Null)}
  BY DEF RemoveRecord, Store, Changing
<1>2. ListTypeOK /\ VersionsOK
  BY DEF ListInv
<1>3. NewSeq' = NewSeq + 1 /\ NewSeq \in Nat
  <2>1. changes \in Nat /\ pager.deleted \in Nat
    BY <1>2 DEF ListTypeOK, PagerRecord
  <2>. QED  BY <1>1, <2>1 DEF NewSeq
<1>4. ListTypeOK'
  <2>1. records' \subseteq records /\ IsFiniteSet(records')
    BY <1>1, <1>2, FS_Subset DEF ListTypeOK
  <2>2. UNCHANGED pager /\ UNCHANGED uploads /\ changes' = changes + 1
    BY <1>1
  <2>. QED  BY <1>2, <2>1, <2>2 DEF ListTypeOK
<1>5. VersionsOK'
  <2>1. \A w \in records' : w \in records /\ w.seq \in Nat
    BY <1>1, <1>2 DEF ListTypeOK, VersionRecord
  <2>2. \A w \in records' : w.seq < NewSeq'
    BY <1>2, <1>3, <2>1 DEF VersionsOK
  <2>. QED  BY <1>2, <2>1, <2>2 DEF VersionsOK
<1>6. \A w \in records : w \in records' \/ (w.null /\ pager.at = Marker(w.key, Null) => w.key \in moved')
  BY <1>1
<1>7. moved \subseteq moved'
  BY <1>1
<1>. QED  BY <1>1, <1>3, <1>4, <1>5, <1>6, <1>7, ChangeStep

\* An upload begins between two pages.
LEMMA PutUploadStep == ASSUME ListInv, NEW key \in ListKeys, PutUpload(key) PROVE ListInv'
<1> DEFINE u == [key |-> key, id |-> NewSeq]
<1>1. /\ pager.pc = "paging" /\ UNCHANGED <<pager, records, moved>> /\ changes' = changes + 1
      /\ uploads' = uploads \cup {u}
      /\ stayed' = stayed \cap Whole(records', uploads', pager.opt)
  BY DEF PutUpload, Store, Changing
<1>2. ListTypeOK /\ VersionsOK
  BY DEF ListInv
<1>3. NewSeq' = NewSeq + 1 /\ NewSeq \in Nat \ {0}
  <2>1. changes \in Nat /\ pager.deleted \in Nat
    BY <1>2 DEF ListTypeOK, PagerRecord
  <2>. QED  BY <1>1, <2>1 DEF NewSeq
<1>4. u \in UploadRecord
  BY <1>3 DEF UploadRecord
<1>. HIDE DEF u
<1>5. ListTypeOK'
  <2>1. IsFiniteSet(uploads') /\ uploads' \in SUBSET UploadRecord
    BY <1>1, <1>2, <1>4, FS_AddElement DEF ListTypeOK
  <2>. QED  BY <1>1, <1>2, <2>1 DEF ListTypeOK
<1>6. VersionsOK'
  <2>1. \A w \in records : w.seq \in Nat /\ w.seq < NewSeq
    BY <1>2 DEF ListTypeOK, VersionRecord, VersionsOK
  <2>2. \A w \in records' : w.seq < NewSeq'
    BY <1>1, <1>3, <2>1
  <2>. QED  BY <1>1, <1>2, <2>2 DEF VersionsOK
<1>. QED  BY <1>1, <1>3, <1>5, <1>6, ChangeStep

\* An upload ends between two pages.
LEMMA RemoveUploadStep == ASSUME ListInv, NEW u \in uploads, RemoveUpload(u) PROVE ListInv'
<1>1. /\ pager.pc = "paging" /\ UNCHANGED <<pager, records, moved>> /\ changes' = changes + 1
      /\ uploads' = uploads \ {u}
      /\ stayed' = stayed \cap Whole(records', uploads', pager.opt)
  BY DEF RemoveUpload, Store, Changing
<1>2. ListTypeOK /\ VersionsOK
  BY DEF ListInv
<1>3. NewSeq' = NewSeq + 1 /\ NewSeq \in Nat
  <2>1. changes \in Nat /\ pager.deleted \in Nat
    BY <1>2 DEF ListTypeOK, PagerRecord
  <2>. QED  BY <1>1, <2>1 DEF NewSeq
<1>4. ListTypeOK'
  <2>1. uploads' \subseteq uploads /\ IsFiniteSet(uploads')
    BY <1>1, <1>2, FS_Subset DEF ListTypeOK
  <2>. QED  BY <1>1, <1>2, <2>1 DEF ListTypeOK
<1>5. VersionsOK'
  <2>1. \A w \in records : w.seq \in Nat /\ w.seq < NewSeq
    BY <1>2 DEF ListTypeOK, VersionRecord, VersionsOK
  <2>2. \A w \in records' : w.seq < NewSeq'
    BY <1>1, <1>3, <2>1
  <2>. QED  BY <1>1, <1>2, <2>2 DEF VersionsOK
<1>. QED  BY <1>1, <1>3, <1>4, <1>5, ChangeStep

\* The first page is still to come.
LEMMA StartListingStep ==
  ASSUME ListInv, NEW kind \in ListKinds, NEW prefix \in Prefixes, NEW delimiter \in BOOLEAN, NEW purge \in BOOLEAN,
         NEW max \in PageSizes, StartListing(kind, prefix, delimiter, max, purge)
  PROVE  ListInv'
<1> DEFINE opt == [kind |-> kind, prefix |-> prefix, delimiter |-> delimiter, max |-> max]
<1>1. /\ pager.pc = "idle" /\ UNCHANGED <<records, uploads, changes, moved>>
      /\ purge => kind \in Purges /\ ~delimiter
      /\ pager' = [pager EXCEPT !.pc = "paging", !.opt = opt, !.purge = purge]
      /\ stayed' = Whole(records, uploads, opt)
  BY DEF StartListing
<1>2. ListTypeOK /\ VersionsOK
  BY DEF ListInv
<1>3. opt \in Options /\ opt.kind = kind /\ opt.delimiter = delimiter
  BY ListingAssumption, ListKeysAre DEF Options
<1>4. kind \in Purges => kind # "uploads"
  BY ListingAssumption
<1>. HIDE DEF opt
<1>5. /\ pager \in PagerRecord /\ pager.at = NoMarker /\ pager.pages = <<>> /\ pager.todo = <<>>
  BY <1>1, <1>2 DEF ListTypeOK
<1>6. /\ pager' \in PagerRecord /\ pager'.pc = "paging" /\ pager'.opt = opt /\ pager'.purge = purge
      /\ pager'.at = NoMarker /\ pager'.pages = <<>> /\ pager'.todo = <<>> /\ pager'.deleted = pager.deleted
  BY <1>1, <1>3, <1>5 DEF PagerRecord
<1>7. ListTypeOK'
  BY <1>1, <1>2, <1>3, <1>4, <1>6 DEF ListTypeOK
<1>8. VersionsOK'
  BY <1>1, <1>2, <1>6 DEF VersionsOK, NewSeq
<1>14. TodoOK'
  BY <1>6 DEF TodoOK
<1>9. \A e : ~WasGiven(pager'.pages, e)
  BY <1>6 DEF WasGiven
<1>10. Resumes(records', opt, NoMarker, opt.prefix)
  BY DEF Resumes
<1>11. Listable(records, uploads, opt)
  BY <1>2, <1>3, ListableIs DEF ListTypeOK, VersionsOK
<1>12. ASSUME NEW e \in stayed' PROVE e \in Whole(records', uploads', opt) /\ Upto(opt.prefix, Block(e))
  <2>1. e \in Whole(records, uploads, opt)
    BY <1>1
  <2>2. Found(records, uploads, opt, e)
    BY <2>1, WholeFound
  <2>3. Possible(opt, e)
    BY <1>11, <2>2, FoundPossible
  <2>4. Block(e) \in Text /\ HasPrefix(Block(e), opt.prefix)
    BY <1>3, <2>3, BlockIs
  <2>5. opt.prefix \in Text
    <3>1. opt.prefix \in Names
      BY <1>3 DEF Options
    <3>. QED  BY <3>1, NameIs
  <2>. QED  BY <1>1, <2>1, <2>4, <2>5, PrefixFirst
<1>15. Counted(records', NoMarker, moved')
  BY DEF Counted, NoMarker, Marker, Null
<1>13. ReadTo(opt.prefix)'
  BY <1>6, <1>9, <1>10, <1>12, <1>15 DEF ReadTo
<1>. QED  BY <1>7, <1>8, <1>13, <1>14 DEF ListInv

\* An entry is left as it is.
LEMMA LeaveOneStep == ASSUME ListInv, LeaveOne PROVE ListInv'
<1>1. /\ pager.todo # <<>> /\ pager' = [pager EXCEPT !.todo = Tail(@)]
      /\ UNCHANGED <<records, uploads, changes, stayed, moved>>
  BY DEF LeaveOne
<1>2. ListTypeOK /\ VersionsOK
  BY DEF ListInv
<1>3. pager \in PagerRecord /\ pager.todo \in Seq(EntryRecord) /\ pager.pc # "idle"
  BY <1>1, <1>2 DEF ListTypeOK, PagerRecord
<1> DEFINE q == Tail(pager.todo)
<1>4. q \in Seq(EntryRecord) /\ \A i \in 1..Len(q) : i + 1 \in 1..Len(pager.todo) /\ q[i] = pager.todo[i + 1]
  BY <1>1, <1>3
<1>5. pager' = [pager EXCEPT !.todo = q]
  BY <1>1
<1>. HIDE DEF q
<1>6. /\ pager' \in PagerRecord /\ pager'.pc = pager.pc /\ pager'.opt = pager.opt /\ pager'.purge = pager.purge
      /\ pager'.at = pager.at /\ pager'.pages = pager.pages /\ pager'.todo = q /\ pager'.deleted = pager.deleted
  BY <1>3, <1>4, <1>5 DEF PagerRecord
<1>7. ListTypeOK'
  BY <1>1, <1>2, <1>3, <1>4, <1>6 DEF ListTypeOK
<1>8. VersionsOK'
  BY <1>1, <1>2, <1>6 DEF VersionsOK, NewSeq
<1>10. TodoOK'
  <2>1. TodoOK /\ NewSeq' = NewSeq /\ NewSeq \in Nat
    <3>1. changes \in Nat /\ pager.deleted \in Nat
      BY <1>2 DEF ListTypeOK, PagerRecord
    <3>. QED  BY <1>1, <1>6, <3>1 DEF ListInv, NewSeq
  <2>2. \A i \in 1..Len(pager'.todo) : \E j \in 1..Len(pager.todo) : pager'.todo[i] = pager.todo[j]
    BY <1>4, <1>6
  <2>3. NewSeq' \in Nat /\ NewSeq <= NewSeq'
    BY <2>1
  <2>. QED  BY <1>1, <1>2, <2>1, <2>2, <2>3, TodoKept
<1>9. ASSUME Plain' PROVE \E pos : ReadTo(pos)'
  <2>1. Plain /\ (CutShort' <=> CutShort)
    BY <1>1, <1>6, <1>9 DEF Plain, CutShort
  <2>2. PICK pos : ReadTo(pos)
    BY <1>3, <2>1 DEF ListInv
  <2>3. ReadTo(pos)'
    BY <1>1, <1>4, <1>6, <2>1, <2>2 DEF ReadTo
  <2>. QED  BY <2>3
<1>. QED  BY <1>7, <1>8, <1>9, <1>10 DEF ListInv

\* An entry that was given is deleted: nothing else goes.
LEMMA DeleteOneStep == ASSUME ListInv, NEW null \in BOOLEAN, DeleteOne(null) PROVE ListInv'
<1> DEFINE e == Head(pager.todo)
           q == Tail(pager.todo)
           opt == pager.opt
<1>1. /\ pager.todo # <<>> /\ pager' = [pager EXCEPT !.todo = Tail(@), !.deleted = @ + 1]
      /\ records' = CASE e.what = "object" -> WithRecord(e.key, TRUE, null)
                      [] e.what = "version" -> {v \in records : v.key # e.key \/ v.seq # e.id}
                      [] e.what = "null" -> records \ NullOf(records, e.key)
      /\ moved' = moved \cup {k \in {e.key} : e.what = "null" /\ pager.at = Marker(k, Null)}
      /\ UNCHANGED <<uploads, changes, stayed>>
  BY DEF DeleteOne
<1>2. ListTypeOK /\ VersionsOK /\ TodoOK
  BY DEF ListInv
<1>3. /\ pager \in PagerRecord /\ pager.todo \in Seq(EntryRecord) /\ pager.pc # "idle" /\ pager.deleted \in Nat
      /\ changes \in Nat
  BY <1>1, <1>2 DEF ListTypeOK, PagerRecord
<1>4. /\ q \in Seq(EntryRecord) /\ \A i \in 1..Len(q) : i + 1 \in 1..Len(pager.todo) /\ q[i] = pager.todo[i + 1]
      /\ e = pager.todo[1] /\ 1 \in 1..Len(pager.todo)
  BY <1>1, <1>3
<1> DEFINE d == pager.deleted + 1
<1>5. pager' = [pager EXCEPT !.todo = q, !.deleted = d] /\ d \in Nat
  BY <1>1, <1>3
<1>. HIDE DEF d
<1>6. /\ opt \in Options /\ ~opt.delimiter /\ opt.kind # "uploads" /\ Possible(opt, e)
  BY <1>1, <1>2, <1>3, <1>4 DEF ListTypeOK
<1>7. /\ e \in EntryRecord /\ e.key \in ListKeys /\ e.what # "prefix"
      /\ opt.kind = "objects" => e.what = "object"
      /\ opt.kind = "versions" => e.what \in {"version", "null"}
      /\ opt.kind \in {"objects", "versions"}
  BY <1>6 DEF Possible, Options
<1>. HIDE DEF q, e
<1>8. /\ pager' \in PagerRecord /\ pager'.pc = pager.pc /\ pager'.opt = pager.opt /\ pager'.purge = pager.purge
      /\ pager'.at = pager.at /\ pager'.pages = pager.pages /\ pager'.todo = q /\ pager'.deleted = d
  BY <1>3, <1>4, <1>5 DEF PagerRecord
<1>9. NewSeq' = NewSeq + 1 /\ NewSeq \in Nat
  <2>1. pager'.deleted = pager.deleted + 1
    BY <1>8 DEF d
  <2>. QED  BY <1>1, <1>3, <2>1 DEF NewSeq
<1>10. /\ records' \in SUBSET VersionRecord /\ IsFiniteSet(records')
       /\ \A v \in records' : v.seq < NewSeq + 1
       /\ \A v, w \in records' : v.key = w.key /\ v.seq = w.seq => v = w
       /\ \A v, w \in records' : v.key = w.key /\ v.null /\ w.null => v = w
       /\ \A v \in records' : v \in records \/ v.seq = NewSeq
  <2>1. CASE e.what = "object"
    <3>1. records' = WithRecord(e.key, TRUE, null)
      BY <1>1, <2>1
    <3>2. PICK k \in ListKeys, yes \in BOOLEAN : k = e.key /\ yes = TRUE
      BY <1>7
    <3> DEFINE W == WithRecord(k, yes, null)
    <3>3. /\ W \in SUBSET VersionRecord /\ IsFiniteSet(W)
          /\ \A v \in W : v.seq < NewSeq + 1
          /\ \A v, w \in W : v.key = w.key /\ v.seq = w.seq => v = w
          /\ \A v, w \in W : v.key = w.key /\ v.null /\ w.null => v = w
          /\ \A v \in W : v \in records \/ (v.key = k /\ v.seq = NewSeq)
      BY <1>2, WithRecordIs
    <3>4. records' = W
      BY <3>1, <3>2
    <3>. HIDE DEF W
    <3>. QED  BY <3>3, <3>4
  <2>2. CASE e.what \in {"version", "null"}
    <3>1. records' \subseteq records
      BY <1>1, <2>2
    <3>2. IsFiniteSet(records') /\ \A v \in records' : v.seq \in Nat /\ v.seq < NewSeq
      BY <1>2, <3>1, FS_Subset DEF ListTypeOK, VersionRecord, VersionsOK
    <3>3. \A v \in records' : v.seq < NewSeq + 1
      BY <1>9, <3>2
    <3>4. records' \in SUBSET VersionRecord /\ \A v \in records' : v \in records
      BY <1>2, <3>1 DEF ListTypeOK
    <3>. QED  BY <1>2, <3>2, <3>3, <3>4 DEF VersionsOK
  <2>. QED  BY <1>7, <2>1, <2>2
<1>11. ListTypeOK'
  BY <1>1, <1>2, <1>3, <1>4, <1>8, <1>10 DEF ListTypeOK
<1>12. VersionsOK'
  BY <1>9, <1>10 DEF VersionsOK
<1>14. TodoOK'
  <2>1. \A i \in 1..Len(pager'.todo) : \E j \in 1..Len(pager.todo) : pager'.todo[i] = pager.todo[j]
    BY <1>4, <1>8
  <2>2. NewSeq' \in Nat /\ NewSeq <= NewSeq'
    BY <1>9
  <2>. QED  BY <1>2, <1>9, <1>10, <2>1, <2>2, TodoKept
<1>13. ASSUME Plain' PROVE \E pos : ReadTo(pos)'
  <2>1. Plain /\ ~CutShort /\ moved \subseteq moved'
    BY <1>1, <1>6, <1>8, <1>13 DEF Plain, CutShort
  <2>2. PICK pos : ReadTo(pos)
    BY <1>3, <2>1 DEF ListInv
  <2>3. ASSUME NEW f \in stayed, f.key \notin moved, ~WasGiven(pager.pages, f)
        PROVE  f \in Whole(records', uploads, opt) /\ Possible(opt, f)
    <3>1. f \in Whole(records, uploads, opt) /\ Spared(e, f)
      BY <1>4, <2>1, <2>2, <2>3 DEF ReadTo
    <3>7. Possible(opt, f)
      <4>1. Listable(records, uploads, opt)
        BY <1>2, <1>6, ListableIs DEF ListTypeOK, VersionsOK
      <4>2. Found(records, uploads, opt, f)
        BY <3>1, WholeFound
      <4>. QED  BY <4>1, <4>2, FoundPossible
    <3>2. PICK y \in Items(records, uploads, opt) :
            /\ HasPrefix(y.key, opt.prefix) /\ f = EntryOf(opt, y)
            /\ opt.kind = "objects" => Latest(records, y) /\ ~y.marker
      BY <3>1, WholeFound
    <3>3. y \in records /\ Items(records', uploads, opt) = records'
      BY <1>6 DEF Items
    <3>4. f = IF opt.kind = "objects" THEN Entry("object", y.key, 0)
              ELSE Entry(IF y.null THEN "null" ELSE "version", y.key, y.seq)
      BY <1>6, <1>7, <3>2 DEF EntryOf, CommonPrefix
    <3>5. y \in records'
      <4>1. CASE e.what = "object"
        <5>1. records' = WithRecord(e.key, TRUE, null)
          BY <1>1, <4>1
        <5>2. f.key # e.key
          BY <3>1, <4>1 DEF Spared
        <5>3. y.key # e.key
          BY <3>4, <5>2 DEF Entry
        <5>. QED  BY <3>3, <5>1, <5>3 DEF WithRecord, NullOf
      <4>2. CASE e.what = "version"
        <5>1. records' = {v \in records : v.key # e.key \/ v.seq # e.id}
          BY <1>1, <4>2
        <5>2. f.key # e.key \/ f.id # e.id
          BY <3>1, <4>2 DEF Spared
        <5>3. f.key = y.key /\ f.id = y.seq
          BY <1>7, <3>4, <4>2 DEF Entry
        <5>. QED  BY <3>3, <5>1, <5>2, <5>3
      <4>3. CASE e.what = "null"
        <5>1. records' = records \ NullOf(records, e.key)
          BY <1>1, <4>3
        <5>2. ~(f.what = "null" /\ f.key = e.key)
          BY <3>1, <4>3 DEF Spared
        <5>3. f.key = y.key /\ (y.null => f.what = "null")
          BY <1>7, <3>4, <4>3 DEF Entry
        <5>. QED  BY <3>3, <5>1, <5>2, <5>3 DEF NullOf
      <4>. QED  BY <1>7, <4>1, <4>2, <4>3
    <3>6. opt.kind = "objects" => Latest(records', y)
      <4> SUFFICES ASSUME opt.kind = "objects", NEW w \in records', w.key = y.key PROVE w.seq <= y.seq
        BY DEF Latest
      <4>1. e.what = "object"
        BY <1>7
      <4>2. records' = WithRecord(e.key, TRUE, null) /\ f.key # e.key
        BY <1>1, <3>1, <4>1 DEF Spared
      <4>3. y.key # e.key
        BY <3>4, <4>2 DEF Entry
      <4>4. w \in records
        BY <4>2, <4>3 DEF WithRecord
      <4>. QED  BY <3>2, <4>4 DEF Latest
    <3>. QED  BY <3>2, <3>3, <3>5, <3>6, <3>7 DEF Whole
  <2>4. Counted(records', pager.at, moved') /\ \E to : Follows(records', opt, pager.at, pos, moved', to)
    <3>1. Resumes(records, opt, pager.at, pos) /\ Counted(records, pager.at, moved)
      BY <2>2 DEF ReadTo
    <3>2. ASSUME NEW v \in records, v \notin records', v.null, pager.at = Marker(v.key, Null)
          PROVE  v.key \in moved'
      <4>1. opt.kind = "versions"
        <5> SUFFICES ASSUME opt.kind = "objects" PROVE FALSE
          BY <1>7
        <5>1. CASE pager.at = NoMarker
          BY <3>2, <5>1 DEF NoMarker, Marker, Null
        <5>2. ASSUME NEW g, Possible(opt, g), pager.at = MarkerOf(g) PROVE FALSE
          <6>1. g.what # "null" /\ g.id = 0
            BY <5>2 DEF Possible
          <6>. QED  BY <3>2, <5>2, <6>1 DEF MarkerOf, Marker, Null
        <5>. QED  BY <3>1, <5>1, <5>2 DEF Resumes
      <4>2. CASE e.what = "null"
        <5>1. records' = records \ NullOf(records, e.key)
          BY <1>1, <4>2
        <5>2. v.key = e.key
          BY <3>2, <5>1 DEF NullOf
        <5>. QED  BY <1>1, <3>2, <4>2, <5>2
      <4>3. CASE e.what = "version"
        <5>1. records' = {w \in records : w.key # e.key \/ w.seq # e.id}
          BY <1>1, <4>3
        <5>2. v.key = e.key /\ v.seq = e.id
          BY <3>2, <5>1
        <5>. QED  BY <1>2, <1>4, <3>2, <4>3, <5>2 DEF TodoOK
      <4>. QED  BY <1>7, <4>1, <4>2, <4>3
    <3>3. PICK S, K, J, R, o, at : /\ S = records' /\ K = moved' /\ J = moved /\ R = records
                                   /\ o = opt /\ at = pager.at
      OBVIOUS
    <3>4. /\ R \in SUBSET VersionRecord /\ S \in SUBSET VersionRecord /\ o \in Options /\ J \subseteq K
          /\ Resumes(R, o, at, pos) /\ Counted(R, at, J)
          /\ \A v \in R : v \in S \/ (v.null /\ at = Marker(v.key, Null) => v.key \in K)
      BY <1>2, <1>6, <1>10, <2>1, <3>1, <3>2, <3>3 DEF ListTypeOK
    <3>5. Counted(S, at, K) /\ \E to : Follows(S, o, at, pos, K, to)
      BY <3>4, Resumed
    <3>. QED  BY <3>3, <3>5
  <2>6. PICK to : Follows(records', opt, pager.at, pos, moved', to)
    BY <2>4
  <2>5. ReadTo(to)'
    <3>1. ASSUME NEW f, WasGiven(pager'.pages, f)
          PROVE  Possible(pager'.opt, f) /\ (f.key \in moved' \/ Upto(Past(f), to))
      <4>1. Possible(opt, f) /\ (f.key \in moved \/ Upto(Past(f), pos))
        BY <1>8, <2>2, <3>1 DEF ReadTo
      <4>. QED  BY <1>8, <2>1, <2>6, <4>1 DEF Follows
    <3>2. \A a, b \in 1..Len(pager'.pages) :
            \A i \in 1..Len(pager'.pages[a]), j \in 1..Len(pager'.pages[b]) :
              pager'.pages[a][i] = pager'.pages[b][j] => (a = b /\ i = j) \/ pager'.pages[a][i].key \in moved'
      BY <1>8, <2>1, <2>2 DEF ReadTo
    <3>3. ASSUME NEW f \in stayed', f.key \notin moved', ~WasGiven(pager'.pages, f)
          PROVE  pager'.pc = "paging" /\ f \in Whole(records', uploads', pager'.opt) /\ Upto(to, Block(f))
      <4>1. f \in stayed /\ ~WasGiven(pager.pages, f) /\ f.key \notin moved
        BY <1>1, <1>8, <2>1, <3>3
      <4>2. pager.pc = "paging" /\ Upto(pos, Block(f))
        BY <2>1, <2>2, <4>1 DEF ReadTo
      <4>3. f \in Whole(records', uploads, opt) /\ Possible(opt, f)
        BY <2>3, <4>1
      <4>4. Upto(to, Block(f))
        BY <2>6, <3>3, <4>2, <4>3 DEF Follows
      <4>. QED  BY <1>1, <1>8, <4>2, <4>3, <4>4
    <3>4. ASSUME NEW i \in 1..Len(pager'.todo), NEW f \in stayed'
          PROVE  f.key \in moved' \/ WasGiven(pager'.pages, f) \/ Spared(pager'.todo[i], f)
      <4>1. i + 1 \in 1..Len(pager.todo) /\ pager'.todo[i] = pager.todo[i + 1] /\ f \in stayed
        BY <1>1, <1>4, <1>8
      <4>2. \A j \in 1..Len(pager.todo) : f.key \in moved \/ WasGiven(pager.pages, f) \/ Spared(pager.todo[j], f)
        BY <2>2, <4>1 DEF ReadTo
      <4>. QED  BY <1>8, <2>1, <4>1, <4>2
    <3>5. Resumes(records', pager'.opt, pager'.at, to) /\ Counted(records', pager'.at, moved')
      BY <1>8, <2>4, <2>6 DEF Follows
    <3>. QED  BY <3>1, <3>2, <3>3, <3>4, <3>5 DEF ReadTo
  <2>. QED  BY <2>5
<1>. QED  BY <1>11, <1>12, <1>13, <1>14 DEF ListInv

\* Where a page takes the listing: past its last entry.
Reach(pos, entries) == IF entries = <<>> THEN pos ELSE Past(entries[Len(entries)])

\* A page goes no further back than it started, and no further on than it has seen.
LEMMA ReachIs ==
  ASSUME NEW R, NEW U, NEW opt, NEW pos \in Text, NEW m, NEW s, Listable(R, U, opt), ScanOK(R, U, opt, pos, m, s)
  PROVE  LET to == Reach(pos, s.entries) IN
         /\ to \in Text /\ Upto(pos, to) /\ Upto(to, s.seek)
         /\ \A i \in 1..Len(s.entries) : Upto(Past(s.entries[i]), to)
<1> DEFINE E == s.entries
           to == Reach(pos, E)
<1>1. E \in Seq(EntryRecord) /\ s.seek \in Text /\ Upto(pos, s.seek) /\ opt \in Options
  BY DEF ScanOK, ScanRecord, Listable
<1>2. CASE E = <<>>
  BY <1>1, <1>2, UptoOrder DEF Reach
<1>3. CASE E # <<>>
  <2> DEFINE n == Len(E)
             e == E[n]
  <2>1. n \in 1..Len(E) /\ to = Past(e)
    BY <1>1, <1>3 DEF Reach
  <2>2. Found(R, U, opt, e) /\ Upto(pos, Block(e)) /\ Upto(Past(e), s.seek)
    BY <2>1 DEF ScanOK
  <2>3. Possible(opt, e)
    BY <2>2, FoundPossible
  <2>4. Block(e) \in Text /\ Past(e) \in Text /\ Before(Block(e), Past(e))
    BY <1>1, <2>3, BlockIs
  <2>5. Upto(Block(e), Past(e)) /\ Upto(pos, Past(e)) /\ Upto(Past(e), Past(e))
    BY <2>2, <2>4, UptoOrder
  <2>6. ASSUME NEW i \in 1..Len(E) PROVE Upto(Past(E[i]), Past(e))
    <3>1. CASE i = n
      BY <2>5, <3>1
    <3>2. CASE i # n
      <4>1. i < n
        BY <1>1, <3>2
      <4>2. Upto(Past(E[i]), Block(e)) /\ Found(R, U, opt, E[i])
        BY <2>1, <4>1 DEF ScanOK
      <4>3. Past(E[i]) \in Text
        BY <4>2, FoundPossible
      <4>. QED  BY <2>4, <2>5, <4>2, <4>3, UptoOrder
    <3>. QED  BY <3>1, <3>2
  <2>. QED  BY <2>1, <2>2, <2>4, <2>5, <2>6
<1>. QED  BY <1>2, <1>3

\* The record that an entry of a version listing was made from.
LEMMA FoundVersion ==
  ASSUME NEW R, NEW U, NEW opt \in Options, NEW e, Found(R, U, opt, e), e.what \in {"version", "null"}
  PROVE  \E x \in R : x.key = e.key /\ x.seq = e.id /\ (IF x.null THEN e.what = "null" ELSE e.what = "version")
<1>1. PICK x \in Items(R, U, opt) : e = EntryOf(opt, x)
  BY DEF Found
<1>2. opt.kind \in {"objects", "versions", "uploads"}
  BY DEF Options
<1>3. CommonPrefix(x.key, opt) = <<>>
  BY <1>1 DEF EntryOf, Entry
<1>4. opt.kind = "versions"
  <2>1. opt.kind = "objects" => e.what = "object"
    BY <1>1, <1>3 DEF EntryOf, Entry
  <2>2. opt.kind = "uploads" => e.what = "upload"
    BY <1>1, <1>3 DEF EntryOf, Entry
  <2>. QED  BY <1>2, <2>1, <2>2
<1>5. e = Entry(IF x.null THEN "null" ELSE "version", x.key, x.seq)
  BY <1>1, <1>3, <1>4 DEF EntryOf
<1>6. x \in R
  BY <1>4 DEF Items
<1>. QED  BY <1>5, <1>6 DEF Entry

\* Where the next page starts: there, unless the last entry is the placeholder.
Reached(opt, pos, entries) ==
  IF entries # <<>> /\ Slashed(opt, entries[Len(entries)]) THEN PrefixSuccessor(opt.prefix) ELSE Reach(pos, entries)

\* The page ended with the placeholder of the folder that is listed.
EndsThere(opt, entries) ==
  /\ opt.delimiter /\ opt.kind = "objects" /\ opt.prefix # <<>> /\ opt.prefix[Len(opt.prefix)] = Slash
  /\ entries # <<>> /\ entries[Len(entries)] = Placeholder(opt)

\* The next page starts behind all that was given.
LEMMA ReachedIs ==
  ASSUME NEW R, NEW U, NEW opt, NEW pos \in Text, NEW m, NEW s, Listable(R, U, opt), ScanOK(R, U, opt, pos, m, s)
  PROVE  LET to == Reached(opt, pos, s.entries) IN
         /\ to \in Text /\ (Upto(to, s.seek) \/ EndsThere(opt, s.entries))
         /\ \A i \in 1..Len(s.entries) : Upto(Past(s.entries[i]), to)
         /\ \A e : Possible(opt, e) /\ Upto(Past(e), pos) => Upto(Past(e), to)
<1> DEFINE E == s.entries
           to == Reach(pos, E)
<1>1. E \in Seq(EntryRecord) /\ opt \in Options
  BY DEF ScanOK, ScanRecord, Listable
<1>2. /\ to \in Text /\ Upto(pos, to) /\ Upto(to, s.seek)
      /\ \A i \in 1..Len(E) : Upto(Past(E[i]), to)
  BY ReachIs
<1>3. CASE ~(E # <<>> /\ Slashed(opt, E[Len(E)]))
  <2>1. Reached(opt, pos, E) = to
    BY <1>3 DEF Reached
  <2>2. ASSUME NEW e, Possible(opt, e), Upto(Past(e), pos) PROVE Upto(Past(e), to)
    <3>1. Past(e) \in Text
      BY <1>1, <2>2, BlockIs
    <3>. HIDE DEF to
    <3>. QED  BY <1>2, <2>2, <3>1, UptoOrder
  <2>. QED  BY <1>2, <2>1, <2>2
<1>4. CASE E # <<>> /\ Slashed(opt, E[Len(E)])
  <2>1. PICK l : l = E[Len(E)]
    OBVIOUS
  <2>2. Len(E) \in 1..Len(E)
    BY <1>1, <1>4
  <2>3. \A i \in 1..Len(E) : Possible(opt, E[i])
    BY FoundPossible DEF ScanOK
  <2>4. l = Placeholder(opt) /\ opt.kind = "objects" /\ opt.prefix # <<>> /\ opt.prefix[Len(opt.prefix)] = Slash
    BY <1>1, <1>4, <2>1, <2>2, <2>3, PlaceholderIs DEF Slashed
  <2>5. EndsThere(opt, E)
    BY <1>4, <2>1, <2>4 DEF EndsThere, Slashed
  <2>6. Reached(opt, pos, E) = PrefixSuccessor(opt.prefix)
    BY <1>4 DEF Reached
  <2>7. \A e : Possible(opt, e) => Upto(Past(e), PrefixSuccessor(opt.prefix))
    BY <1>1, <2>4, PrefixEnd
  <2>8. PrefixSuccessor(opt.prefix) \in Text
    BY <1>1, <2>4, PrefixEnd DEF Boundary
  <2>. QED  BY <2>3, <2>5, <2>6, <2>7, <2>8
<1>. QED  BY <1>3, <1>4

\* The marker of a page takes the next one up there.
LEMMA PageResumes ==
  ASSUME NEW R, NEW U, NEW opt, NEW pos, NEW m, NEW s, NEW K, Listable(R, U, opt), ScanOK(R, U, opt, pos, m, s),
         Resumes(R, opt, m, pos), Counted(R, m, K)
  PROVE  Resumes(R, opt, s.next, Reached(opt, pos, s.entries)) /\ Counted(R, s.next, K)
<1> DEFINE E == s.entries
<1>1. E \in Seq(EntryRecord) /\ opt \in Options
  BY DEF ScanOK, ScanRecord, Listable
<1>2. CASE E = <<>>
  <2>1. s.next = m
    BY <1>2 DEF ScanOK
  <2>. QED  BY <1>2, <2>1 DEF Reach, Reached
<1>3. CASE E # <<>>
  <2>1. PICK e : e = E[Len(E)]
    OBVIOUS
  <2>2. Len(E) \in 1..Len(E)
    BY <1>1, <1>3
  <2>3. Found(R, U, opt, e)
    BY <2>1, <2>2 DEF ScanOK
  <2>4. Possible(opt, e)
    BY <2>3, FoundPossible
  <2>5. /\ s.next = MarkerOf(e)
        /\ Reached(opt, pos, E) = IF Slashed(opt, e) THEN PrefixSuccessor(opt.prefix) ELSE Past(e)
    BY <1>3, <2>1 DEF ScanOK, Reach, Reached
  <2>6. CASE e.what # "null"
    <3>1. Place(R, opt, e, Reached(opt, pos, E))
      BY <2>5, <2>6 DEF Place
    <3>2. e.id \in Nat
      BY <2>4 DEF Possible, EntryRecord
    <3>3. Counted(R, s.next, K)
      BY <2>5, <2>6, <3>2 DEF Counted, MarkerOf, Marker, Null
    <3>. QED  BY <2>4, <2>5, <3>1, <3>3 DEF Resumes
  <2>7. CASE e.what = "null"
    <3>1. PICK x \in R : x.key = e.key /\ x.seq = e.id /\ (IF x.null THEN e.what = "null" ELSE e.what = "version")
      BY <1>1, <2>3, <2>7, FoundVersion
    <3>2. x.null
      BY <2>7, <3>1
    <3>3. e = Entry("null", e.key, x.seq)
      BY <2>4, <2>7, <3>1 DEF Possible, EntryRecord, Entry
    <3>4. Reached(opt, pos, E) = Past(e)
      BY <2>5, <2>7 DEF Slashed
    <3>5. Place(R, opt, e, Reached(opt, pos, E))
      BY <2>7, <3>1, <3>2, <3>3, <3>4 DEF Place
    <3>6. s.next = Marker(e.key, Null) /\ x \in NullOf(R, e.key)
      BY <2>5, <2>7, <3>1, <3>2 DEF MarkerOf, NullOf
    <3>7. Counted(R, s.next, K)
      BY <3>6 DEF Counted, Marker
    <3>. QED  BY <2>4, <2>5, <3>5, <3>7 DEF Resumes
  <2>. QED  BY <2>6, <2>7
<1>. QED  BY <1>2, <1>3

\* Of two entries of one listing, to delete the one leaves the other.
LEMMA EntriesSpared ==
  ASSUME NEW R, NEW U, NEW opt, NEW t, NEW e, Listable(R, U, opt), ~opt.delimiter, opt.kind # "uploads",
         \A v, w \in R : v.key = w.key /\ v.seq = w.seq => v = w,
         \A v, w \in R : v.key = w.key /\ v.null /\ w.null => v = w,
         Found(R, U, opt, t), Found(R, U, opt, e), t # e
  PROVE  Spared(t, e)
<1>1. opt \in Options /\ Possible(opt, t) /\ Possible(opt, e)
  BY FoundPossible DEF Listable
<1>2. /\ t \in EntryRecord /\ e \in EntryRecord /\ t.what # "prefix" /\ e.what # "prefix"
      /\ opt.kind \in {"objects", "versions"}
  BY <1>1 DEF Possible, Options
<1>3. ASSUME t.what = e.what, t.key = e.key, t.id = e.id PROVE FALSE
  BY <1>2, <1>3 DEF EntryRecord
<1>4. CASE opt.kind = "objects"
  <2>1. t.what = "object" /\ e.what = "object" /\ t.id = 0 /\ e.id = 0
    BY <1>1, <1>2, <1>4 DEF Possible
  <2>. QED  BY <1>3, <2>1 DEF Spared
<1>5. CASE opt.kind = "versions"
  <2>1. t.what \in {"version", "null"} /\ e.what \in {"version", "null"}
    BY <1>1, <1>2, <1>5 DEF Possible
  <2>2. PICK x \in R : x.key = t.key /\ x.seq = t.id /\ (IF x.null THEN t.what = "null" ELSE t.what = "version")
    BY <1>1, <2>1, FoundVersion
  <2>3. PICK y \in R : y.key = e.key /\ y.seq = e.id /\ (IF y.null THEN e.what = "null" ELSE e.what = "version")
    BY <1>1, <2>1, FoundVersion
  <2>4. x # y
    BY <1>3, <2>2, <2>3
  <2>5. t.what = "version" => e.key # t.key \/ e.id # t.id
    BY <2>2, <2>3, <2>4
  <2>6. t.what = "null" => ~(e.what = "null" /\ e.key = t.key)
    BY <2>2, <2>3, <2>4
  <2>. QED  BY <2>1, <2>5, <2>6 DEF Spared
<1>. QED  BY <1>2, <1>4, <1>5

\* A page more.
LEMMA NextPageStep == ASSUME ListInv, NextPage PROVE ListInv'
<1> DEFINE opt == pager.opt
           page == Page(records, uploads, opt, pager.at)
           E == page.entries
           T == IF pager.purge THEN E ELSE <<>>
           c == IF page.truncated THEN "paging" ELSE "done"
           n == Len(pager.pages)
<1>1. /\ pager.pc = "paging" /\ pager.todo = <<>>
      /\ pager' = [pager EXCEPT !.at = page.next, !.pages = Append(@, E), !.pc = c, !.todo = T]
      /\ UNCHANGED <<records, uploads, changes, stayed, moved>>
  BY DEF NextPage
<1>2. ListTypeOK /\ VersionsOK /\ TodoOK
  BY DEF ListInv
<1>3. /\ pager \in PagerRecord /\ pager.pages \in Seq(Seq(EntryRecord)) /\ pager.at \in MarkerRecord /\ opt \in Options
      /\ records \in SUBSET VersionRecord /\ pager.purge \in BOOLEAN
      /\ pager.purge => ~opt.delimiter /\ opt.kind # "uploads"
  BY <1>1, <1>2 DEF ListTypeOK, PagerRecord
<1>4. Listable(records, uploads, opt)
  BY <1>2, <1>3, ListableIs DEF ListTypeOK, VersionsOK
<1>5. Start(records, opt, pager.at) \in Text
  BY <1>3, StartTyped
<1>6. /\ ScanTyped(records, uploads, opt, page)
      /\ Boundary(opt, Start(records, opt, pager.at)) =>
           ScanOK(records, uploads, opt, Start(records, opt, pager.at), pager.at, page) /\ page.over
  BY <1>3, <1>4, <1>5, PageIs
<1>. HIDE DEF page
<1>7. /\ page \in ScanRecord /\ E \in Seq(EntryRecord) /\ page.next \in MarkerRecord /\ page.truncated \in BOOLEAN
      /\ \A i \in 1..Len(E) : Found(records, uploads, opt, E[i])
  BY <1>6 DEF ScanTyped, ScanRecord
<1>8. \A i \in 1..Len(E) : Possible(opt, E[i])
  BY <1>4, <1>7, FoundPossible
<1>. HIDE DEF E
<1>9. c \in {"paging", "done"} /\ T \in Seq(EntryRecord) /\ n \in Nat
  BY <1>3, <1>7
<1>10. /\ T # <<>> => T = E /\ pager.purge
       /\ \A i \in 1..Len(T) : i \in 1..Len(E) /\ T[i] = E[i] /\ pager.purge
  OBVIOUS
<1>11. c = "paging" <=> page.truncated
  OBVIOUS
<1>. HIDE DEF T, c
<1> DEFINE P == Append(pager.pages, E)
<1>12. /\ P \in Seq(Seq(EntryRecord)) /\ Len(P) = n + 1 /\ P[n + 1] = E
       /\ \A p \in 1..n : P[p] = pager.pages[p]
  BY <1>3, <1>7
<1>13. pager' = [pager EXCEPT !.at = page.next, !.pages = P, !.pc = c, !.todo = T]
  BY <1>1
<1>. HIDE DEF P, n
<1>14. /\ pager' \in PagerRecord /\ pager'.pc = c /\ pager'.opt = opt /\ pager'.purge = pager.purge
       /\ pager'.at = page.next /\ pager'.pages = P /\ pager'.todo = T /\ pager'.deleted = pager.deleted
  BY <1>3, <1>7, <1>9, <1>12, <1>13 DEF PagerRecord
<1>15. ListTypeOK'
  <2>1. pager'.pc # "idle" /\ \A i \in 1..Len(pager'.todo) : Possible(pager'.opt, pager'.todo[i])
    BY <1>8, <1>9, <1>10, <1>14
  <2>. QED  BY <1>1, <1>2, <1>3, <1>10, <1>14, <2>1 DEF ListTypeOK
<1>16. VersionsOK'
  BY <1>1, <1>2, <1>14 DEF VersionsOK, NewSeq
<1>17. TodoOK'
  <2> SUFFICES ASSUME NEW i \in 1..Len(T), T[i].what = "version"
               PROVE  /\ T[i].id < NewSeq
                      /\ \A v \in records : v.key = T[i].key /\ v.seq = T[i].id => ~v.null
    BY <1>1, <1>14 DEF TodoOK, NewSeq
  <2>1. Found(records, uploads, opt, T[i])
    BY <1>7, <1>10
  <2>2. PICK x \in records : x.key = T[i].key /\ x.seq = T[i].id /\ (IF x.null THEN T[i].what = "null" ELSE T[i].what = "version")
    BY <1>3, <2>1, FoundVersion
  <2>3. ~x.null
    BY <2>2
  <2>. QED  BY <1>2, <2>2, <2>3 DEF VersionsOK
<1>18. ASSUME Plain' PROVE \E pos : ReadTo(pos)'
  <2>1. \A e : WasGiven(P, e) <=> WasGiven(pager.pages, e) \/ Holds(E, e)
    <3>1. \A p \in 1..(n + 1) : p \in 1..n \/ p = n + 1
      BY <1>9
    <3>2. 1..n \subseteq 1..(n + 1) /\ n + 1 \in 1..(n + 1)
      BY <1>9
    <3>3. n = Len(pager.pages)
      BY DEF n
    <3>4. ASSUME NEW e, WasGiven(P, e) PROVE WasGiven(pager.pages, e) \/ Holds(E, e)
      <4>1. PICK p \in 1..(n + 1) : Holds(P[p], e)
        BY <1>12, <3>4 DEF WasGiven
      <4>. QED  BY <1>12, <3>1, <3>3, <4>1 DEF WasGiven
    <3>5. ASSUME NEW e, WasGiven(pager.pages, e) PROVE WasGiven(P, e)
      <4>1. PICK p \in 1..n : Holds(pager.pages[p], e)
        BY <3>3, <3>5 DEF WasGiven
      <4>. QED  BY <1>12, <3>2, <4>1 DEF WasGiven
    <3>6. ASSUME NEW e, Holds(E, e) PROVE WasGiven(P, e)
      BY <1>12, <3>2, <3>6 DEF WasGiven
    <3>. QED  BY <3>4, <3>5, <3>6
  <2>2. /\ Plain /\ ~(opt.delimiter /\ opt.kind = "uploads")
        /\ CutShort \/ EndsThere(opt, E) => CutShort'
    <3>1. /\ DOMAIN P = 1..(n + 1) /\ DOMAIN pager.pages = 1..n /\ 1..n \subseteq 1..(n + 1)
          /\ n + 1 \in 1..(n + 1)
      BY <1>3, <1>9, <1>12 DEF n
    <3>2. Plain /\ ~(opt.delimiter /\ opt.kind = "uploads")
      BY <1>1, <1>14, <1>18 DEF Plain
    <3>3. CutShort => CutShort'
      BY <1>12, <1>14, <3>1 DEF CutShort
    <3>4. EndsThere(opt, E) => CutShort'
      BY <1>12, <1>14, <3>1 DEF CutShort, EndsThere
    <3>. QED  BY <3>2, <3>3, <3>4
  <2>3. PICK pos : ReadTo(pos)
    BY <1>1, <2>2 DEF ListInv
  <2>4. Resumes(records, opt, pager.at, pos) /\ Counted(records, pager.at, moved)
    BY <2>3 DEF ReadTo
  <2>5. Start(records, opt, pager.at) = pos /\ Boundary(opt, pos)
    BY <1>2, <1>3, <2>2, <2>4, StartIs DEF VersionsOK
  <2>6. ScanOK(records, uploads, opt, pos, pager.at, page) /\ page.over /\ pos \in Text
    BY <1>6, <2>5 DEF Boundary
  <2>7. PICK to : to = Reached(opt, pos, E)
    OBVIOUS
  <2>8. /\ to \in Text /\ (Upto(to, page.seek) \/ EndsThere(opt, E)) /\ page.seek \in Text
        /\ \A i \in 1..Len(E) : Upto(Past(E[i]), to)
        /\ \A e : Possible(opt, e) /\ Upto(Past(e), pos) => Upto(Past(e), to)
    <3>1. page.seek \in Text
      BY <1>7 DEF ScanRecord
    <3>2. LET z == Reached(opt, pos, page.entries) IN
          /\ z \in Text /\ (Upto(z, page.seek) \/ EndsThere(opt, page.entries))
          /\ \A i \in 1..Len(page.entries) : Upto(Past(page.entries[i]), z)
          /\ \A e : Possible(opt, e) /\ Upto(Past(e), pos) => Upto(Past(e), z)
      BY <1>4, <2>6, ReachedIs
    <3>. QED  BY <2>7, <3>1, <3>2 DEF E
  <2>9. /\ \A i \in 1..Len(E) : Upto(pos, Block(E[i]))
        /\ \A i, j \in 1..Len(E) : i < j => Upto(Past(E[i]), Block(E[j]))
        /\ \A e \in Whole(records, uploads, opt) : Upto(pos, Block(e)) =>
             Holds(E, e) \/ (Upto(page.seek, Block(e)) /\ page.truncated)
    BY <2>6 DEF ScanOK, E
  <2>10. \A e : Possible(opt, e) => Block(e) \in Text /\ Past(e) \in Text /\ Before(Block(e), Past(e))
    BY <1>3, BlockIs
  <2>11. Resumes(records', pager'.opt, pager'.at, to) /\ Counted(records', pager'.at, moved')
    <3>1. Resumes(records, opt, page.next, Reached(opt, pos, page.entries)) /\ Counted(records, page.next, moved)
      BY <1>4, <2>4, <2>6, PageResumes
    <3>. QED  BY <1>1, <1>14, <2>7, <3>1 DEF E
  <2>12. ASSUME NEW e, WasGiven(pager'.pages, e)
         PROVE  Possible(pager'.opt, e) /\ (e.key \in moved' \/ Upto(Past(e), to))
    <3>1. CASE WasGiven(pager.pages, e)
      <4>1. Possible(opt, e) /\ (e.key \in moved \/ Upto(Past(e), pos))
        BY <2>3, <3>1 DEF ReadTo
      <4>. QED  BY <1>1, <1>14, <2>8, <4>1
    <3>2. CASE Holds(E, e)
      BY <1>8, <1>14, <2>8, <3>2 DEF Holds
    <3>. QED  BY <1>14, <2>1, <2>12, <3>1, <3>2
  <2>13. ASSUME NEW i \in 1..Len(E), WasGiven(pager.pages, E[i]), E[i].key \notin moved PROVE FALSE
    <3>1. Upto(Past(E[i]), pos) /\ Upto(pos, Block(E[i])) /\ Possible(opt, E[i])
      BY <1>8, <2>3, <2>9, <2>13 DEF ReadTo
    <3>. QED  BY <2>6, <2>10, <3>1, UptoOrder
  <2>14. ASSUME NEW i \in 1..Len(E), NEW j \in 1..Len(E), i < j, E[i] = E[j] PROVE FALSE
    <3>1. Upto(Past(E[i]), Block(E[i])) /\ Possible(opt, E[i])
      BY <1>8, <2>9, <2>14
    <3>. QED  BY <2>10, <3>1, UptoOrder
  <2>15. ASSUME NEW p \in 1..Len(pager'.pages), NEW q \in 1..Len(pager'.pages),
                NEW i \in 1..Len(pager'.pages[p]), NEW j \in 1..Len(pager'.pages[q]),
                pager'.pages[p][i] = pager'.pages[q][j], pager'.pages[p][i].key \notin moved'
         PROVE  p = q /\ i = j
    <3>1. (p \in 1..n \/ p = n + 1) /\ (q \in 1..n \/ q = n + 1) /\ n = Len(pager.pages)
      <4>1. p \in 1..(n + 1) /\ q \in 1..(n + 1)
        BY <1>12, <1>14
      <4>2. n = Len(pager.pages)
        BY DEF n
      <4>3. \A k \in 1..(n + 1) : k \in 1..n \/ k = n + 1
        BY <1>9
      <4>. QED  BY <4>1, <4>2, <4>3
    <3>2. CASE p \in 1..n /\ q \in 1..n
      <4>1. /\ p \in 1..Len(pager.pages) /\ q \in 1..Len(pager.pages)
            /\ pager'.pages[p] = pager.pages[p] /\ pager'.pages[q] = pager.pages[q]
        BY <1>12, <1>14, <3>1, <3>2
      <4>2. \A a, b \in 1..Len(pager.pages) :
              \A k \in 1..Len(pager.pages[a]), l \in 1..Len(pager.pages[b]) :
                pager.pages[a][k] = pager.pages[b][l] => (a = b /\ k = l) \/ pager.pages[a][k].key \in moved
        BY <2>3 DEF ReadTo
      <4>. QED  BY <1>1, <2>15, <4>1, <4>2
    <3>3. CASE p \in 1..n /\ q = n + 1
      <4>1. j \in 1..Len(E) /\ pager.pages[p][i] = E[j] /\ i \in 1..Len(pager.pages[p])
        BY <1>12, <1>14, <2>15, <3>3
      <4>2. WasGiven(pager.pages, E[j])
        BY <3>1, <3>3, <4>1 DEF WasGiven, Holds
      <4>3. E[j].key \notin moved
        BY <1>1, <1>12, <1>14, <2>15, <3>3, <4>1
      <4>. QED  BY <2>13, <4>1, <4>2, <4>3
    <3>4. CASE p = n + 1 /\ q \in 1..n
      <4>1. i \in 1..Len(E) /\ pager.pages[q][j] = E[i] /\ j \in 1..Len(pager.pages[q])
        BY <1>12, <1>14, <2>15, <3>4
      <4>2. WasGiven(pager.pages, E[i])
        BY <3>1, <3>4, <4>1 DEF WasGiven, Holds
      <4>3. E[i].key \notin moved
        BY <1>1, <1>12, <1>14, <2>15, <3>4, <4>1
      <4>. QED  BY <2>13, <4>1, <4>2, <4>3
    <3>5. CASE p = n + 1 /\ q = n + 1
      <4>1. i \in 1..Len(E) /\ j \in 1..Len(E) /\ E[i] = E[j]
        BY <1>12, <1>14, <2>15, <3>5
      <4>2. ~(i < j) /\ ~(j < i)
        BY <2>14, <4>1
      <4>3. i \in Nat /\ j \in Nat
        BY <1>7, <4>1
      <4>. QED  BY <3>5, <4>2, <4>3
    <3>. QED  BY <3>1, <3>2, <3>3, <3>4, <3>5
  <2>16. ASSUME ~CutShort', NEW e \in stayed', e.key \notin moved', ~WasGiven(pager'.pages, e)
         PROVE  pager'.pc = "paging" /\ e \in Whole(records', uploads', pager'.opt) /\ Upto(to, Block(e))
    <3>1. e \in stayed /\ ~WasGiven(pager.pages, e) /\ ~Holds(E, e) /\ e.key \notin moved
      BY <1>1, <1>14, <2>1, <2>16
    <3>6. ~CutShort /\ Upto(to, page.seek)
      BY <2>2, <2>8, <2>16
    <3>2. e \in Whole(records, uploads, opt) /\ Upto(pos, Block(e))
      BY <2>3, <3>1, <3>6 DEF ReadTo
    <3>3. Upto(page.seek, Block(e)) /\ page.truncated
      BY <2>9, <3>1, <3>2
    <3>4. Block(e) \in Text
      <4>1. Found(records, uploads, opt, e)
        BY <3>2, WholeFound
      <4>. QED  BY <1>4, <4>1, FoundPossible
    <3>5. Upto(to, Block(e))
      BY <2>8, <3>3, <3>4, <3>6, UptoOrder
    <3>. QED  BY <1>1, <1>11, <1>14, <3>2, <3>3, <3>5
  <2>17. ASSUME NEW i \in 1..Len(pager'.todo), NEW e \in stayed', e.key \notin moved', ~WasGiven(pager'.pages, e)
         PROVE  Spared(pager'.todo[i], e)
    <3>1. pager'.todo[i] = E[i] /\ i \in 1..Len(E) /\ pager.purge
      BY <1>10, <1>14
    <3>6. ~CutShort'
      BY <1>3, <1>14, <3>1 DEF CutShort
    <3>2. e \in Whole(records, uploads, opt)
      BY <1>1, <1>14, <2>16, <2>17, <3>6
    <3>3. Found(records, uploads, opt, e) /\ Found(records, uploads, opt, E[i])
      BY <1>7, <3>1, <3>2, WholeFound
    <3>4. E[i] # e
      BY <1>14, <2>1, <2>17, <3>1 DEF Holds
    <3>5. Spared(E[i], e)
      BY <1>2, <1>3, <1>4, <3>1, <3>3, <3>4, EntriesSpared DEF VersionsOK
    <3>. QED  BY <3>1, <3>5
  <2>18. ReadTo(to)'
    BY <2>11, <2>12, <2>15, <2>16, <2>17 DEF ReadTo
  <2>. QED  BY <2>18
<1>. QED  BY <1>15, <1>16, <1>17, <1>18 DEF ListInv

-----------------------------------------------------------------------------
(* The theorem *)

\* The versions that a key has to begin with.
LEMMA InitialVersionsAre ==
  ASSUME NEW key \in ListKeys, NEW V \in InitialVersions(key)
  PROVE  /\ V \in SUBSET VersionRecord /\ \A v \in V : v.key = key /\ v.seq \in {1, 2}
         /\ \A v, w \in V : v.seq = w.seq => v = w
         /\ \A v, w \in V : v.null /\ w.null => v = w
<1> DEFINE a == [key |-> key, seq |-> 1, marker |-> FALSE, null |-> FALSE]
           b == [key |-> key, seq |-> 2, marker |-> FALSE, null |-> TRUE]
           c == [key |-> key, seq |-> 1, marker |-> FALSE, null |-> TRUE]
           d == [key |-> key, seq |-> 2, marker |-> TRUE, null |-> FALSE]
<1>1. V = {} \/ V = {a} \/ V = {a, b} \/ V = {c, d}
  BY DEF InitialVersions
<1>2. /\ a \in VersionRecord /\ a.key = key /\ a.seq = 1 /\ a.null = FALSE
      /\ b \in VersionRecord /\ b.key = key /\ b.seq = 2 /\ b.null = TRUE
      /\ c \in VersionRecord /\ c.key = key /\ c.seq = 1 /\ c.null = TRUE
      /\ d \in VersionRecord /\ d.key = key /\ d.seq = 2 /\ d.null = FALSE
  BY DEF VersionRecord
<1>3. 1 # 2
  OBVIOUS
<1>. HIDE DEF a, b, c, d
<1>4. \A x \in V : x \in VersionRecord /\ x.key = key /\ x.seq \in {1, 2}
  BY <1>1, <1>2, Zenon
<1>5. \A x, y \in V : x.seq = y.seq => x = y
  BY <1>1, <1>2, <1>3, Zenon
<1>6. \A x, y \in V : x.null /\ y.null => x = y
  BY <1>1, <1>2, Zenon
<1>. QED  BY <1>4, <1>5, <1>6

\* The image of a finite set.
LEMMA ImageFinite ==
  ASSUME NEW S, IsFiniteSet(S), NEW Q, NEW f \in [S -> Q], \A y \in Q : \E x \in S : f[x] = y
  PROVE  IsFiniteSet(Q)
<1>1. f \in Surjection(S, Q)
  BY DEF Surjection
<1>. QED  BY <1>1, FS_Surjection

\* Before the listing nothing has been given, and versions have their own sequences.
LEMMA ListInitial == LInit => ListInv
<1> SUFFICES ASSUME LInit PROVE ListInv
  OBVIOUS
<1>1. PICK f \in [ListKeys -> UNION {InitialVersions(key) : key \in ListKeys}] :
        /\ \A key \in ListKeys : f[key] \in InitialVersions(key)
        /\ records = UNION {f[key] : key \in ListKeys}
  BY DEF LInit
<1>2. /\ uploads \in SUBSET {[key |-> key, id |-> 1] : key \in ListKeys}
      /\ changes = 0 /\ pager = NoListing
  BY DEF LInit
<1>3. ASSUME NEW v \in records
      PROVE  v.key \in ListKeys /\ v \in f[v.key] /\ v \in VersionRecord /\ v.seq \in {1, 2}
  <2>1. PICK key \in ListKeys : v \in f[key]
    BY <1>1
  <2>2. f[key] \in InitialVersions(key)
    BY <1>1
  <2>3. v.key = key /\ v \in VersionRecord /\ v.seq \in {1, 2}
    BY <2>1, <2>2, InitialVersionsAre
  <2>. QED  BY <2>1, <2>3
<1>4. IsFiniteSet(records)
  <2> DEFINE Q == {f[key] : key \in ListKeys}
  <2>1. IsFiniteSet(Q)
    <3>1. f \in [ListKeys -> Q] /\ \A y \in Q : \E key \in ListKeys : f[key] = y
      OBVIOUS
    <3>. HIDE DEF Q
    <3>. QED  BY <3>1, ListingAssumption, ImageFinite
  <2>2. \A V \in Q : IsFiniteSet(V)
    <3>1. ASSUME NEW key \in ListKeys PROVE IsFiniteSet(f[key])
      <4>1. f[key] \in InitialVersions(key)
        BY <1>1
      <4>2. \E a, b, c, d : f[key] \in {{}, {a}, {a, b}, {c, d}}
        BY <4>1 DEF InitialVersions
      <4>3. PICK a, b, c, d : f[key] \in {{}, {a}, {a, b}, {c, d}}
        BY <4>2
      <4>4. IsFiniteSet({})
        BY FS_EmptySet
      <4>5. \A x : IsFiniteSet({x})
        BY FS_Singleton
      <4>6. \A x, y : IsFiniteSet({x} \cup {y})
        BY <4>5, FS_AddElement
      <4>8. f[key] = {} \/ f[key] = {a} \/ f[key] = {a, b} \/ f[key] = {c, d}
        BY <4>3
      <4>9. IsFiniteSet({a, b}) /\ IsFiniteSet({c, d})
        <5>1. IsFiniteSet({a} \cup {b}) /\ {a, b} = {a} \cup {b}
          BY <4>6
        <5>2. IsFiniteSet({c} \cup {d}) /\ {c, d} = {c} \cup {d}
          BY <4>6
        <5>3. IsFiniteSet({a, b})
          BY <5>1, Zenon
        <5>4. IsFiniteSet({c, d})
          BY <5>2, Zenon
        <5>. QED  BY <5>3, <5>4, Zenon
      <4>10. CASE f[key] = {}
        BY <4>4, <4>10, Zenon
      <4>11. CASE f[key] = {a}
        BY <4>5, <4>11, Zenon
      <4>12. CASE f[key] = {a, b} \/ f[key] = {c, d}
        BY <4>9, <4>12, Zenon
      <4>. QED  BY <4>8, <4>10, <4>11, <4>12, Zenon
    <3>. QED  BY <3>1
  <2>. QED  BY <1>1, <2>1, <2>2, FS_UNION
<1>5. IsFiniteSet(uploads) /\ uploads \in SUBSET UploadRecord
  <2> DEFINE Q == {[key |-> key, id |-> 1] : key \in ListKeys}
  <2>1. IsFiniteSet(Q)
    <3> DEFINE g == [key \in ListKeys |-> [key |-> key, id |-> 1]]
    <3>1. g \in [ListKeys -> Q] /\ \A y \in Q : \E key \in ListKeys : g[key] = y
      OBVIOUS
    <3>. HIDE DEF g, Q
    <3>. QED  BY <3>1, ListingAssumption, ImageFinite
  <2>2. Q \subseteq UploadRecord
    BY DEF UploadRecord
  <2>. QED  BY <1>2, <2>1, <2>2, FS_Subset
<1>6. /\ pager \in PagerRecord /\ pager.pc = "idle" /\ pager.at = NoMarker /\ pager.pages = <<>>
      /\ pager.todo = <<>> /\ pager.deleted = 0
  <2>1. NoMarker \in MarkerRecord
    BY DEF NoMarker, Marker, MarkerRecord, Names
  <2>. QED  BY <1>2, <2>1 DEF NoListing, PagerRecord
<1>7. ListTypeOK
  <2>1. records \in SUBSET VersionRecord
    BY <1>3
  <2>. QED  BY <1>2, <1>4, <1>5, <1>6, <2>1 DEF ListTypeOK
<1>8. VersionsOK
  <2>1. NewSeq = 3
    BY <1>2, <1>6 DEF NewSeq
  <2>2. \A v \in records : v.seq < NewSeq
    BY <1>3, <2>1
  <2>3. \A v, w \in records : v.key = w.key /\ v.seq = w.seq => v = w
    BY <1>1, <1>3, InitialVersionsAre
  <2>4. \A v, w \in records : v.key = w.key /\ v.null /\ w.null => v = w
    BY <1>1, <1>3, InitialVersionsAre
  <2>. QED  BY <2>2, <2>3, <2>4 DEF VersionsOK
<1>9. TodoOK
  BY <1>6 DEF TodoOK
<1>10. ~Plain
  BY <1>6 DEF Plain
<1>. QED  BY <1>7, <1>8, <1>9, <1>10 DEF ListInv

\* Nothing happens.
LEMMA ListStutter == ASSUME ListInv, UNCHANGED lvars PROVE ListInv'
<1>1. /\ UNCHANGED records /\ UNCHANGED uploads /\ UNCHANGED changes /\ UNCHANGED pager
      /\ UNCHANGED stayed /\ UNCHANGED moved
  BY DEF lvars
<1>2. ListTypeOK' /\ VersionsOK' /\ TodoOK'
  BY <1>1 DEF ListInv, ListTypeOK, VersionsOK, TodoOK, NewSeq
<1>3. ASSUME Plain' PROVE \E pos : ReadTo(pos)'
  <2>1. Plain
    BY <1>1, <1>3 DEF Plain
  <2>2. PICK pos : ReadTo(pos)
    BY <2>1 DEF ListInv
  <2>3. ReadTo(pos)'
    BY <1>1, <2>2 DEF ReadTo, CutShort
  <2>. QED  BY <2>3
<1>. QED  BY <1>2, <1>3 DEF ListInv

\* Every step keeps the invariant.
LEMMA ListStep == ASSUME ListInv, LNext PROVE ListInv'
BY PutRecordStep, RemoveRecordStep, PutUploadStep, RemoveUploadStep, StartListingStep, NextPageStep,
   LeaveOneStep, DeleteOneStep DEF LNext

\* A listing that has got somewhere has given what it owes.
LEMMA ListInvGives == ListInv => ListedOnce
<1> SUFFICES ASSUME ListInv, Plain
             PROVE  /\ pager.pc = "done" /\ ~CutShort =>
                         \A e \in stayed : e.key \in moved \/ \E x \in Given : GivenAt(x) = e
                    /\ \A x, y \in Given : GivenAt(x) = GivenAt(y) => x = y \/ GivenAt(x).key \in moved
  BY DEF ListedOnce, Plain
<1>1. PICK pos : ReadTo(pos)
  BY DEF ListInv
<1>2. pager.pages \in Seq(Seq(EntryRecord))
  BY DEF ListInv, ListTypeOK, PagerRecord
<1>3. /\ DOMAIN pager.pages = 1..Len(pager.pages)
      /\ \A p \in DOMAIN pager.pages : DOMAIN pager.pages[p] = 1..Len(pager.pages[p])
  BY <1>2
<1>4. ASSUME pager.pc = "done", ~CutShort, NEW e \in stayed, e.key \notin moved PROVE \E x \in Given : GivenAt(x) = e
  <2>1. WasGiven(pager.pages, e)
    BY <1>1, <1>4 DEF ReadTo
  <2>2. PICK p \in DOMAIN pager.pages : \E i \in DOMAIN pager.pages[p] : pager.pages[p][i] = e
    BY <1>3, <2>1 DEF WasGiven, Holds
  <2>3. PICK i \in DOMAIN pager.pages[p] : pager.pages[p][i] = e
    BY <2>2
  <2>4. <<p, i>> \in Given
    BY <2>2, <2>3 DEF Given
  <2>5. GivenAt(<<p, i>>) = e
    BY <2>3 DEF GivenAt
  <2>. QED  BY <2>4, <2>5
<1>5. ASSUME NEW x \in Given, NEW y \in Given, GivenAt(x) = GivenAt(y), GivenAt(x).key \notin moved PROVE x = y
  <2>5. PICK p \in DOMAIN pager.pages : \E i \in DOMAIN pager.pages[p] : x = <<p, i>>
    BY DEF Given
  <2>1. PICK i \in DOMAIN pager.pages[p] : x = <<p, i>>
    BY <2>5
  <2>6. PICK q \in DOMAIN pager.pages : \E j \in DOMAIN pager.pages[q] : y = <<q, j>>
    BY DEF Given
  <2>2. PICK j \in DOMAIN pager.pages[q] : y = <<q, j>>
    BY <2>6
  <2>3. pager.pages[p][i] = pager.pages[q][j] /\ pager.pages[p][i].key \notin moved
    BY <1>5, <2>1, <2>2 DEF GivenAt
  <2>4. p = q /\ i = j
    <3>1. \A a, b \in 1..Len(pager.pages) :
            \A k \in 1..Len(pager.pages[a]), l \in 1..Len(pager.pages[b]) :
              pager.pages[a][k] = pager.pages[b][l] => (a = b /\ k = l) \/ pager.pages[a][k].key \in moved
      BY <1>1 DEF ReadTo
    <3>2. p \in 1..Len(pager.pages) /\ q \in 1..Len(pager.pages)
      BY <1>3
    <3>3. i \in 1..Len(pager.pages[p]) /\ j \in 1..Len(pager.pages[q])
      BY <1>3
    <3>. QED  BY <2>3, <3>1, <3>2, <3>3
  <2>. QED  BY <2>1, <2>2, <2>4
<1>. QED  BY <1>4, <1>5

\* Whoever reads a listing to its end has been given each entry that was there all
\* the time, and none twice, whatever was put or deleted between the pages: for any
\* keys, prefixes, page sizes and numbers of changes (list, ListUploads, deletePrefix).
\* The exceptions are those of the code: the versions of a key whose null version was
\* deleted or replaced when a page had ended with it, what is behind a page that ended
\* with the folder's placeholder, and listings of uploads with a delimiter.
THEOREM ListingComplete == LSpec => []ListedOnce
<1>1. ASSUME ListInv, [LNext]_lvars PROVE ListInv'
  BY <1>1, ListStep, ListStutter
<1>. QED  BY <1>1, ListInitial, ListInvGives, PTL DEF LSpec
=============================================================================
