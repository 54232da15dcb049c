---------------------------- MODULE MemoryProofs ----------------------------
(* Proofs about Memory, for every number of pages, environments, virtual    *)
(* pages and page tables.                                                   *)
EXTENDS Memory, FiniteSetTheorems, TLAPS

MemType == [free : SUBSET Page, ref : [Page -> Nat],
            frame : [Slot -> Page \cup {NoPage}],
            perm : [Env \X Va -> SUBSET Bits], data : [Page -> Value]]

-----------------------------------------------------------------------------
(* What each operator of pmap.c does to the fields of a memory.             *)

LEMMA AllocFields ==
  ASSUME NEW m \in MemType, m.free # {}
  PROVE  /\ PageAlloc(m) \in MemType
         /\ NextFree(m) \in m.free /\ NextFree(m) \in Page
         /\ PageAlloc(m).free = m.free \ {NextFree(m)}
         /\ PageAlloc(m).ref = m.ref /\ PageAlloc(m).frame = m.frame
         /\ PageAlloc(m).perm = m.perm
<1>1. NextFree(m) \in m.free
  BY Zenon DEF NextFree
<1>2. Zero \in Value
  BY SpaceAssumption
<1> HIDE DEF NextFree
<1> QED BY <1>1, <1>2 DEF MemType, PageAlloc

\* r is m with a new reference to p at entry s.
Refers(m, s, p, r) ==
  /\ r \in MemType
  /\ r.free = m.free /\ r.perm = m.perm
  /\ r.ref = [m.ref EXCEPT ![p] = m.ref[p] + 1]
  /\ r.frame = [m.frame EXCEPT ![s] = p]

LEMMA ReferFields ==
  ASSUME NEW m \in MemType, NEW s \in Slot, NEW p \in Page
  PROVE  Refers(m, s, p, Refer(m, s, p))
<1>1. /\ DOMAIN m = {"free", "ref", "frame", "perm", "data"}
      /\ m.ref \in [Page -> Nat] /\ m.frame \in [Slot -> Page \cup {NoPage}]
      /\ m.free \in SUBSET Page /\ m.perm \in [Env \X Va -> SUBSET Bits]
      /\ m.data \in [Page -> Value]
  BY DEF MemType
<1>2. Refer(m, s, p).free = m.free
  BY <1>1 DEF Refer
<1>3. Refer(m, s, p).ref = [m.ref EXCEPT ![p] = m.ref[p] + 1]
  BY <1>1 DEF Refer
<1>4. Refer(m, s, p).frame = [m.frame EXCEPT ![s] = p]
  BY <1>1 DEF Refer
<1>5. Refer(m, s, p).perm = m.perm /\ Refer(m, s, p).data = m.data
  BY <1>1 DEF Refer
<1>6. Refer(m, s, p) \in MemType
  <2>1. [m.ref EXCEPT ![p] = m.ref[p] + 1] \in [Page -> Nat]
    BY <1>1
  <2>2. [m.frame EXCEPT ![s] = p] \in [Slot -> Page \cup {NoPage}]
    BY <1>1
  <2> QED BY <1>1, <2>1, <2>2 DEF MemType, Refer
<1> QED BY <1>2, <1>3, <1>4, <1>5, <1>6 DEF Refers

LEMMA DecrefFields ==
  ASSUME NEW m \in MemType, NEW p \in Page, m.ref[p] > 0
  PROVE  /\ PageDecref(m, p) \in MemType
         /\ PageDecref(m, p).free = IF m.ref[p] = 1 THEN m.free \cup {p} ELSE m.free
         /\ PageDecref(m, p).ref = [m.ref EXCEPT ![p] = @ - 1]
         /\ PageDecref(m, p).frame = m.frame
         /\ PageDecref(m, p).perm = m.perm
<1>1. /\ DOMAIN m = {"free", "ref", "frame", "perm", "data"}
      /\ m.ref \in [Page -> Nat] /\ m.free \in SUBSET Page
  BY DEF MemType
<1>2. /\ PageDecref(m, p).ref = [m.ref EXCEPT ![p] = m.ref[p] - 1]
      /\ PageDecref(m, p).frame = m.frame /\ PageDecref(m, p).perm = m.perm
  BY <1>1 DEF PageDecref
<1>3. PageDecref(m, p).free = IF m.ref[p] = 1 THEN m.free \cup {p} ELSE m.free
  BY <1>1 DEF PageDecref
<1>4. PageDecref(m, p) \in MemType
  <2>1. [m.ref EXCEPT ![p] = m.ref[p] - 1] \in [Page -> Nat]
    BY <1>1
  <2>2. (IF m.ref[p] = 1 THEN m.free \cup {p} ELSE m.free) \in SUBSET Page
    BY <1>1
  <2> QED BY <2>1, <2>2 DEF MemType, PageDecref
<1> QED BY <1>2, <1>3, <1>4

-----------------------------------------------------------------------------
(* The slots of the entries.                                                *)

LEMMA SlotFacts ==
  ASSUME NEW e \in Env, NEW va \in Va
  PROVE  /\ <<e, va>> \in Slot /\ <<e, va>> \in Env \X Va
         /\ <<e, TabOf[va]>> \in Slot /\ <<e, "dir">> \in Slot
         /\ TabOf[va] \in Tab /\ TabOf[va] \notin Va
         /\ \A s \in Env \X Va : s \in Slot /\ s # <<e, TabOf[va]>> /\ s # <<e, "dir">>
         /\ <<e, TabOf[va]>> # <<e, "dir">>
         /\ NoPage \notin Page
<1>1. TabOf[va] \in Tab /\ TabOf[va] \notin Va /\ TabOf[va] # "dir" /\ "dir" \notin Va
  BY SpaceAssumption
<1> QED BY <1>1, SpaceAssumption DEF Slot

LEMMA RefsFinite ==
  ASSUME NEW m, NEW p
  PROVE  IsFiniteSet(Refs(m, p)) /\ Cardinality(Refs(m, p)) \in Nat
<1>1. IsFiniteSet(Slot)
  <2>1. IsFiniteSet({"dir"} \cup Tab \cup Va)
    BY SpaceAssumption, FS_Singleton, FS_Union
  <2> QED BY <2>1, SpaceAssumption, FS_Product DEF Slot
<1>2. Refs(m, p) \in SUBSET Slot
  BY DEF Refs
<1> QED BY <1>1, <1>2, FS_Subset, FS_CardinalityType

-----------------------------------------------------------------------------
(* A memory whose counts are right, the pages that are lost in it and those *)
(* that somebody may write; what each operator does to the three.           *)

Good(m) == m \in MemType /\ RefExact(m) /\ FreeUnused(m)
LostIn(m) == {p \in Page : p \notin m.free /\ Refs(m, p) = {}}
WritableIn(m, p) == \E s \in Env \X Va : m.frame[s] = p /\ "W" \in m.perm[s]

LEMMA AllocGood ==
  ASSUME NEW m, Good(m), m.free # {}
  PROVE  /\ Good(PageAlloc(m))
         /\ NextFree(m) \in Page /\ NextFree(m) \in m.free
         /\ NextFree(m) \notin PageAlloc(m).free /\ PageAlloc(m).free \subseteq m.free
         /\ PageAlloc(m).frame = m.frame /\ PageAlloc(m).perm = m.perm
         /\ LostIn(PageAlloc(m)) = LostIn(m) \cup {NextFree(m)}
<1> DEFINE a == PageAlloc(m)
<1>1. /\ a \in MemType /\ NextFree(m) \in m.free /\ NextFree(m) \in Page
      /\ a.free = m.free \ {NextFree(m)} /\ a.ref = m.ref
      /\ a.frame = m.frame /\ a.perm = m.perm
  BY AllocFields DEF Good
<1> HIDE DEF a
<1>2. \A p : Refs(a, p) = Refs(m, p)
  BY <1>1 DEF Refs
<1>3. RefExact(a) /\ FreeUnused(a)
  BY <1>1, <1>2 DEF Good, RefExact, FreeUnused
<1>4. LostIn(a) = LostIn(m) \cup {NextFree(m)}
  BY <1>1, <1>2 DEF LostIn, Good, FreeUnused
<1> QED BY <1>1, <1>3, <1>4 DEF Good, a

\* Entry s, empty so far, refers to a page that is not free.
LEMMA ReferGood ==
  ASSUME NEW m, Good(m), NEW s \in Slot, m.frame[s] = NoPage,
         NEW p \in Page, p \notin m.free
  PROVE  /\ Good(Refer(m, s, p))
         /\ LostIn(Refer(m, s, p)) = LostIn(m) \ {p}
         /\ Refers(m, s, p, Refer(m, s, p))
<1> DEFINE r == Refer(m, s, p)
<1>1. /\ r \in MemType /\ r.free = m.free /\ r.perm = m.perm
      /\ r.ref = [m.ref EXCEPT ![p] = @ + 1] /\ r.frame = [m.frame EXCEPT ![s] = p]
  BY ReferFields DEF Good, Refers
<1>2. m.frame \in [Slot -> Page \cup {NoPage}] /\ m.ref \in [Page -> Nat] /\ NoPage \notin Page
  BY SpaceAssumption DEF Good, MemType
<1> HIDE DEF r
<1>3. Refs(r, p) = Refs(m, p) \cup {s} /\ s \notin Refs(m, p)
  BY <1>1, <1>2 DEF Refs
<1>4. \A q \in Page \ {p} : Refs(r, q) = Refs(m, q)
  BY <1>1, <1>2 DEF Refs
<1>5. r.ref[p] = m.ref[p] + 1 /\ \A q \in Page \ {p} : r.ref[q] = m.ref[q]
  BY <1>1, <1>2
<1>6. RefExact(r)
  <2>1. r.ref[p] = Cardinality(Refs(r, p))
    BY <1>3, <1>5, RefsFinite, FS_AddElement DEF Good, RefExact
  <2> QED BY <1>4, <1>5, <2>1 DEF Good, RefExact
<1>7. FreeUnused(r)
  BY <1>1, <1>2, <1>4 DEF Good, FreeUnused, MemType
<1>8. LostIn(r) = LostIn(m) \ {p}
  BY <1>1, <1>3, <1>4 DEF LostIn
<1> QED BY <1>1, <1>6, <1>7, <1>8 DEF Good, Refers, r

LEMMA WalkGood ==
  ASSUME NEW m, Good(m), NEW e \in Env, NEW va \in Va, CanWalk(m, e, va)
  PROVE  LET w == PgdirWalk(m, e, va)
         IN  /\ Good(w) /\ w.free \subseteq m.free /\ w.perm = m.perm
             /\ HasTable(w, e, va)
             /\ \A s \in Slot \ {<<e, TabOf[va]>>} : w.frame[s] = m.frame[s]
             /\ LostIn(w) = LostIn(m)
<1> DEFINE w == PgdirWalk(m, e, va)
<1>1. CASE HasTable(m, e, va)
  BY <1>1 DEF PgdirWalk
<1>2. CASE ~HasTable(m, e, va)
  <2> DEFINE a == PageAlloc(m)
             t == <<e, TabOf[va]>>
  <2>1. m.free # {} /\ m.frame[t] = NoPage
    BY <1>2 DEF CanWalk, HasTable
  <2>2. /\ Good(a) /\ NextFree(m) \in Page /\ NextFree(m) \notin a.free
        /\ a.free \subseteq m.free /\ a.frame = m.frame /\ a.perm = m.perm
        /\ LostIn(a) = LostIn(m) \cup {NextFree(m)} /\ NextFree(m) \in m.free
    BY <2>1, AllocGood
  <2>3. w = Refer(a, t, NextFree(m))
    BY <1>2 DEF PgdirWalk
  <2>4. t \in Slot /\ NoPage \notin Page
    BY SlotFacts
  <2> HIDE DEF a, t, w
  <2>5. /\ Good(w) /\ w.free = a.free /\ w.perm = a.perm
        /\ w.frame = [a.frame EXCEPT ![t] = NextFree(m)]
        /\ LostIn(w) = LostIn(a) \ {NextFree(m)}
    <3>1. Good(w) /\ LostIn(w) = LostIn(a) \ {NextFree(m)} /\ Refers(a, t, NextFree(m), w)
      BY <2>1, <2>2, <2>3, <2>4, ReferGood
    <3> QED BY <3>1 DEF Refers
  <2>6. m.frame \in [Slot -> Page \cup {NoPage}]
    BY DEF Good, MemType
  <2>7. w.frame[t] # NoPage /\ \A s \in Slot \ {t} : w.frame[s] = m.frame[s]
    BY <2>2, <2>4, <2>5, <2>6
  <2>8. NextFree(m) \notin LostIn(m)
    BY <2>2 DEF LostIn
  <2> QED BY <2>2, <2>5, <2>7, <2>8 DEF HasTable, t, w
<1> QED BY <1>1, <1>2

\* r is m without the entry s for page p.
Cleared(m, s, p, r) ==
  /\ r \in MemType
  /\ r.free = IF m.ref[p] = 1 THEN m.free \cup {p} ELSE m.free
  /\ r.ref = [m.ref EXCEPT ![p] = m.ref[p] - 1]
  /\ r.frame = [m.frame EXCEPT ![s] = NoPage]
  /\ r.perm = [m.perm EXCEPT ![s] = {}]

LEMMA RemoveFields ==
  ASSUME NEW m \in MemType, NEW e \in Env, NEW va \in Va, NEW p \in Page,
         m.frame[<<e, va>>] = p, m.ref[p] > 0
  PROVE  Cleared(m, <<e, va>>, p, PageRemove(m, e, va))
<1> DEFINE r == PageRemove(m, e, va)
           d == PageDecref(m, p)
           s == <<e, va>>
<1>1. s \in Slot /\ s \in Env \X Va /\ NoPage \notin Page
  BY SlotFacts
<1>2. /\ d \in MemType
      /\ d.free = IF m.ref[p] = 1 THEN m.free \cup {p} ELSE m.free
      /\ d.ref = [m.ref EXCEPT ![p] = @ - 1] /\ d.frame = m.frame /\ d.perm = m.perm
  BY DecrefFields
<1>3. r = [d EXCEPT !.frame[s] = NoPage, !.perm[s] = {}]
  BY <1>1 DEF PageRemove
<1> HIDE DEF r, d, s
<1>4. /\ DOMAIN d = {"free", "ref", "frame", "perm", "data"}
      /\ d.frame \in [Slot -> Page \cup {NoPage}]
      /\ d.perm \in [Env \X Va -> SUBSET Bits]
  BY <1>2 DEF MemType
<1>5. /\ r.free = d.free /\ r.ref = d.ref
      /\ r.frame = [d.frame EXCEPT ![s] = NoPage]
      /\ r.perm = [d.perm EXCEPT ![s] = {}]
  BY <1>3, <1>4
<1>6. r \in MemType
  <2>1. /\ [d.frame EXCEPT ![s] = NoPage] \in [Slot -> Page \cup {NoPage}]
        /\ [d.perm EXCEPT ![s] = {}] \in [Env \X Va -> SUBSET Bits]
    BY <1>4
  <2> QED BY <1>2, <1>3, <2>1 DEF MemType
<1> QED BY <1>2, <1>5, <1>6 DEF r, s, Cleared

\* Of two sets of entries that differ in the entry s only.
LEMMA RefsChange ==
  ASSUME NEW m \in MemType, NEW r \in MemType, NEW s \in Slot,
         NEW p \in Page \cup {NoPage}, r.frame = [m.frame EXCEPT ![s] = p]
  PROVE  \A q \in Page :
           /\ q # p => Refs(r, q) = Refs(m, q) \ {s}
           /\ q = p => Refs(r, q) = Refs(m, q) \cup {s}
           /\ s \in Refs(m, q) <=> m.frame[s] = q
BY DEF MemType, Refs

LEMMA RemoveGood ==
  ASSUME NEW m, Good(m), NEW e \in Env, NEW va \in Va
  PROVE  LET r == PageRemove(m, e, va)
         IN  /\ Good(r) /\ m.free \subseteq r.free
             /\ \A q \in r.free : q \in m.free \/ q = m.frame[<<e, va>>]
             /\ r.frame = [m.frame EXCEPT ![<<e, va>>] = NoPage]
             /\ \A s \in Env \X Va \ {<<e, va>>} : r.perm[s] = m.perm[s]
             /\ LostIn(r) \subseteq LostIn(m)
<1> DEFINE r == PageRemove(m, e, va)
           s == <<e, va>>
<1>1. /\ s \in Slot /\ s \in Env \X Va /\ NoPage \notin Page
      /\ m.frame \in [Slot -> Page \cup {NoPage}] /\ m.perm \in [Env \X Va -> SUBSET Bits]
      /\ m.ref \in [Page -> Nat]
  BY SlotFacts DEF Good, MemType
<1>2. CASE m.frame[s] = NoPage
  <2>1. r = m
    BY <1>2 DEF PageRemove
  <2>2. m.frame = [m.frame EXCEPT ![s] = NoPage]
    BY <1>1, <1>2
  <2> QED BY <2>1, <2>2
<1>3. CASE m.frame[s] # NoPage
  <2> DEFINE p == m.frame[s]
  <2>1. p \in Page /\ s \in Refs(m, p)
    BY <1>1, <1>3 DEF Refs
  <2>2. m.ref[p] = Cardinality(Refs(m, p)) /\ m.ref[p] \in Nat \ {0}
    BY <2>1, RefsFinite, FS_EmptySet DEF Good, RefExact
  <2> HIDE DEF r, s, p
  <2>3. Cleared(m, s, p, r)
    <3>1. /\ m \in MemType /\ m.frame[<<e, va>>] = p /\ m.ref[p] > 0
          /\ s = <<e, va>> /\ r = PageRemove(m, e, va)
      BY <2>2 DEF Good, r, s, p
    <3> QED BY <2>1, <3>1, RemoveFields
  <2>4. /\ Refs(r, p) = Refs(m, p) \ {s}
        /\ \A q \in Page \ {p} : Refs(r, q) = Refs(m, q)
    <3>1. \A q \in Page : /\ Refs(r, q) = Refs(m, q) \ {s}
                          /\ s \in Refs(m, q) <=> p = q
      BY <1>1, <2>3, RefsChange DEF Good, p, Cleared
    <3> QED BY <2>1, <3>1
  <2>5. Cardinality(Refs(r, p)) = Cardinality(Refs(m, p)) - 1
    <3>1. IsFiniteSet(Refs(m, p))
      BY RefsFinite
    <3>2. Cardinality(Refs(m, p) \ {s}) = Cardinality(Refs(m, p)) - 1
      BY <2>1, <3>1, FS_RemoveElement
    <3> QED BY <2>4, <3>2
  <2>6. RefExact(r)
    <3>1. r.ref[p] = Cardinality(Refs(r, p))
      BY <1>1, <2>1, <2>2, <2>3, <2>5 DEF Cleared
    <3>2. \A q \in Page \ {p} : r.ref[q] = m.ref[q]
      BY <1>1, <2>1, <2>3 DEF Cleared
    <3> QED BY <2>4, <3>1, <3>2 DEF RefExact, Good
  <2>7. m.ref[p] = 1 => Refs(r, p) = {}
    <3>1. IsFiniteSet(Refs(r, p)) /\ Cardinality(Refs(r, p)) = m.ref[p] - 1
      BY <2>2, <2>5, RefsFinite
    <3> QED BY <3>1, FS_EmptySet
  <2>8. m.ref[p] # 1 => Refs(r, p) # {}
    <3>1. Cardinality(Refs(r, p)) = m.ref[p] - 1
      BY <2>2, <2>5
    <3> QED BY <2>2, <3>1, FS_EmptySet
  <2>9. FreeUnused(r)
    <3>1. \A q \in m.free \ {p} : Refs(r, q) = {}
      BY <2>4 DEF Good, FreeUnused, MemType
    <3>2. p \notin m.free
      BY <2>1 DEF Good, FreeUnused
    <3> QED BY <2>3, <2>7, <3>1, <3>2 DEF FreeUnused, Cleared
  <2>10. LostIn(r) \subseteq LostIn(m)
    BY <2>3, <2>4, <2>8 DEF LostIn, Cleared
  <2>11. \A t \in Env \X Va \ {s} : r.perm[t] = m.perm[t]
    BY <1>1, <2>3 DEF Cleared
  <2> QED BY <2>3, <2>6, <2>9, <2>10, <2>11 DEF Good, r, s, p, Cleared
<1> QED BY <1>2, <1>3

\* c is m with one more reference to p counted.
Counts(m, p, c) ==
  /\ c \in MemType
  /\ c.free = m.free /\ c.frame = m.frame /\ c.perm = m.perm
  /\ c.ref = [m.ref EXCEPT ![p] = m.ref[p] + 1]

LEMMA CountFields ==
  ASSUME NEW m \in MemType, NEW p \in Page
  PROVE  Counts(m, p, [m EXCEPT !.ref[p] = @ + 1])
<1> DEFINE c == [m EXCEPT !.ref[p] = @ + 1]
<1>1. /\ DOMAIN m = {"free", "ref", "frame", "perm", "data"}
      /\ m.ref \in [Page -> Nat]
  BY DEF MemType
<1>2. /\ c.free = m.free /\ c.frame = m.frame /\ c.perm = m.perm
      /\ c.ref = [m.ref EXCEPT ![p] = m.ref[p] + 1]
  BY <1>1
<1>3. c \in MemType
  <2>1. [m.ref EXCEPT ![p] = m.ref[p] + 1] \in [Page -> Nat]
    BY <1>1
  <2> QED BY <2>1 DEF MemType
<1> QED BY <1>2, <1>3 DEF Counts

\* r is m with page p at entry s.
Puts(m, s, p, perm, r) ==
  /\ r \in MemType
  /\ r.free = m.free /\ r.ref = m.ref
  /\ r.frame = [m.frame EXCEPT ![s] = p]
  /\ r.perm = [m.perm EXCEPT ![s] = perm]

LEMMA PutFields ==
  ASSUME NEW m \in MemType, NEW s \in Env \X Va, NEW p \in Page,
         NEW perm \in SUBSET Bits
  PROVE  Puts(m, s, p, perm, [m EXCEPT !.frame[s] = p, !.perm[s] = perm])
<1> DEFINE r == [m EXCEPT !.frame[s] = p, !.perm[s] = perm]
<1>1. /\ DOMAIN m = {"free", "ref", "frame", "perm", "data"}
      /\ m.frame \in [Slot -> Page \cup {NoPage}]
      /\ m.perm \in [Env \X Va -> SUBSET Bits]
  BY DEF MemType
<1>2. /\ r.free = m.free /\ r.ref = m.ref
      /\ r.frame = [m.frame EXCEPT ![s] = p]
      /\ r.perm = [m.perm EXCEPT ![s] = perm]
  BY <1>1
<1>3. r \in MemType
  <2>1. /\ [m.frame EXCEPT ![s] = p] \in [Slot -> Page \cup {NoPage}]
        /\ [m.perm EXCEPT ![s] = perm] \in [Env \X Va -> SUBSET Bits]
    BY <1>1
  <2> QED BY <2>1 DEF MemType
<1> QED BY <1>2, <1>3 DEF Puts

\* Permissions and contents do not matter for the counts.
LEMMA SameCounts ==
  ASSUME NEW m, Good(m), NEW r \in MemType,
         r.free = m.free, r.ref = m.ref, r.frame = m.frame
  PROVE  Good(r) /\ LostIn(r) = LostIn(m)
BY DEF Good, RefExact, FreeUnused, LostIn, Refs

\* r is m with page p at the entry va of e, and a table for it.
Inserted(m, e, va, p, perm, r) ==
  /\ Good(r) /\ HasTable(r, e, va)
  /\ \A s \in Slot \ {<<e, va>>, <<e, TabOf[va]>>} : r.frame[s] = m.frame[s]
  /\ r.frame[<<e, va>>] = p /\ r.perm[<<e, va>>] = perm
  /\ \A s \in Env \X Va \ {<<e, va>>} : r.perm[s] = m.perm[s]
  /\ LostIn(r) \subseteq LostIn(m) \ {p}

LEMMA InsertGood ==
  ASSUME NEW m, Good(m), NEW e \in Env, NEW va \in Va, CanWalk(m, e, va),
         NEW p \in Page, p \notin m.free, NEW perm \in SUBSET Bits
  PROVE  Inserted(m, e, va, p, perm, PageInsert(m, e, va, p, perm))
<1> DEFINE w == PgdirWalk(m, e, va)
           c == [w EXCEPT !.ref[p] = @ + 1]
           d == PageRemove(c, e, va)
           r == PageInsert(m, e, va, p, perm)
           s == <<e, va>>
           t == <<e, TabOf[va]>>
<1>1. s \in Slot /\ s \in Env \X Va /\ t \in Slot /\ s # t /\ NoPage \notin Page
  BY SlotFacts
<1>2. /\ Good(w) /\ w.free \subseteq m.free /\ w.perm = m.perm
      /\ w.frame[t] # NoPage
      /\ \A x \in Slot \ {t} : w.frame[x] = m.frame[x]
      /\ LostIn(w) = LostIn(m)
  BY WalkGood DEF HasTable
<1>3. r = [d EXCEPT !.frame[s] = p, !.perm[s] = perm]
  BY DEF PageInsert
<1>4. d = IF c.frame[s] = NoPage THEN c ELSE PageRemove(c, e, va)
  BY DEF PageRemove
<1> HIDE DEF w, d, r
<1>5. w \in MemType
  BY <1>2 DEF Good
<1>6. /\ c \in MemType /\ c.free = w.free /\ c.frame = w.frame /\ c.perm = w.perm
      /\ c.ref = [w.ref EXCEPT ![p] = w.ref[p] + 1]
  BY <1>5, CountFields DEF Counts
<1> HIDE DEF c
<1>7. /\ w.frame \in [Slot -> Page \cup {NoPage}] /\ w.perm \in [Env \X Va -> SUBSET Bits]
      /\ w.ref \in [Page -> Nat] /\ p \notin w.free
  BY <1>2, <1>5 DEF MemType
<1> HIDE DEF s, t
<1>8. ASSUME d \in MemType, NEW g, Good(g), d.free = g.free, d.ref = g.ref,
             [d.frame EXCEPT ![s] = p] = g.frame,
             \A x \in Slot \ {s} : d.frame[x] = w.frame[x],
             \A x \in Env \X Va \ {s} : d.perm[x] = w.perm[x],
             LostIn(g) \subseteq LostIn(m)
      PROVE  Inserted(m, e, va, p, perm, r)
  <2>1. /\ r \in MemType /\ r.free = d.free /\ r.ref = d.ref
        /\ r.frame = [d.frame EXCEPT ![s] = p]
        /\ r.perm = [d.perm EXCEPT ![s] = perm]
    <3>1. Puts(d, s, p, perm, r)
      BY <1>1, <1>3, <1>8, PutFields
    <3> QED BY <3>1 DEF Puts
  <2>2. Good(r) /\ LostIn(r) = LostIn(g)
    BY <1>8, <2>1, SameCounts
  <2>3. /\ d.frame \in [Slot -> Page \cup {NoPage}]
        /\ d.perm \in [Env \X Va -> SUBSET Bits]
    BY <1>8 DEF MemType
  <2>4. /\ r.frame[s] = p /\ r.perm[s] = perm
        /\ \A x \in Slot \ {s} : r.frame[x] = w.frame[x]
        /\ \A x \in Env \X Va \ {s} : r.perm[x] = m.perm[x]
    BY <1>1, <1>2, <1>8, <2>1, <2>3
  <2>5. HasTable(r, e, va)
    BY <1>1, <1>2, <2>4 DEF HasTable, t
  <2>6. p \notin LostIn(r)
    BY <1>1, <2>4 DEF LostIn, Refs
  <2> QED BY <1>2, <1>8, <2>2, <2>4, <2>5, <2>6 DEF Inserted, s, t
<1>9. CASE w.frame[s] = NoPage
  <2> DEFINE g == Refer(w, s, p)
  <2>1. d = c
    BY <1>4, <1>6, <1>9
  <2>2. /\ Good(g) /\ g.free = w.free /\ g.frame = [w.frame EXCEPT ![s] = p]
        /\ LostIn(g) = LostIn(w) \ {p}
    <3>1. Good(g) /\ LostIn(g) = LostIn(w) \ {p} /\ Refers(w, s, p, g)
      BY <1>1, <1>2, <1>7, <1>9, ReferGood
    <3> QED BY <3>1 DEF Refers
  <2>3. g.ref = [w.ref EXCEPT ![p] = w.ref[p] + 1]
    <3>1. Refers(w, s, p, g)
      BY <1>1, <1>5, ReferFields
    <3> QED BY <3>1 DEF Refers
  <2> QED BY <1>2, <1>6, <1>8, <2>1, <2>2, <2>3 DEF r
<1>10. ASSUME w.frame[s] # NoPage
       PROVE  /\ w.frame[s] \in Page /\ w.ref[w.frame[s]] \in Nat \ {0}
              /\ c.ref[w.frame[s]] > 0
              /\ Cleared(c, s, w.frame[s], d)
  <2>1. w.frame[s] \in Page /\ s \in Refs(w, w.frame[s])
    BY <1>1, <1>7, <1>10 DEF Refs
  <2>2. w.ref[w.frame[s]] \in Nat \ {0}
    BY <1>2, <2>1, RefsFinite, FS_EmptySet DEF Good, RefExact
  <2>3. c.ref[w.frame[s]] > 0
    BY <1>6, <1>7, <2>1, <2>2
  <2> QED BY <1>6, <2>1, <2>2, <2>3, RemoveFields DEF d, s
<1>11. CASE w.frame[s] = p
  <2>1. Cleared(c, s, p, d) /\ w.ref[p] \in Nat \ {0}
    BY <1>1, <1>10, <1>11
  <2>2. c.ref[p] = w.ref[p] + 1 /\ c.ref[p] # 1
    BY <1>6, <1>7, <2>1
  <2>3. [c.ref EXCEPT ![p] = c.ref[p] - 1] = w.ref
    BY <1>6, <1>7, <2>1
  <2>4. d \in MemType /\ d.free = w.free /\ d.ref = w.ref
    BY <1>6, <2>1, <2>2, <2>3 DEF Cleared
  <2>5. /\ d.frame = [w.frame EXCEPT ![s] = NoPage]
        /\ d.perm = [w.perm EXCEPT ![s] = {}]
    BY <1>6, <2>1 DEF Cleared
  <2>6. [d.frame EXCEPT ![s] = p] = w.frame
    BY <1>1, <1>7, <1>11, <2>5
  <2>7. /\ \A x \in Slot \ {s} : d.frame[x] = w.frame[x]
        /\ \A x \in Env \X Va \ {s} : d.perm[x] = w.perm[x]
    BY <1>1, <1>7, <2>5
  <2> QED BY <1>2, <1>8, <2>4, <2>6, <2>7 DEF r
<1>12. CASE w.frame[s] \notin {NoPage, p}
  <2> DEFINE q == w.frame[s]
             v == PageRemove(w, e, va)
             g == Refer(v, s, p)
  <2>1. Cleared(c, s, q, d) /\ q \in Page /\ w.ref[q] \in Nat \ {0}
    BY <1>10, <1>12
  <2>2. Cleared(w, s, q, v)
    BY <1>5, <2>1, RemoveFields DEF s
  <2>3. /\ Good(v) /\ LostIn(v) \subseteq LostIn(w)
        /\ \A x \in v.free : x \in w.free \/ x = q
    BY <1>2, RemoveGood DEF s
  <2> HIDE DEF q, v, g
  <2>4. v \in MemType /\ p \notin v.free /\ v.frame = [w.frame EXCEPT ![s] = NoPage]
    BY <1>7, <1>12, <2>2, <2>3 DEF Cleared, q
  <2>5. v.frame[s] = NoPage
    BY <1>1, <1>7, <2>4
  <2>6. /\ Good(g) /\ g.free = v.free /\ g.frame = [v.frame EXCEPT ![s] = p]
        /\ LostIn(g) = LostIn(v) \ {p}
    <3>1. Good(g) /\ LostIn(g) = LostIn(v) \ {p} /\ Refers(v, s, p, g)
      BY <1>1, <2>3, <2>4, <2>5, ReferGood DEF g
    <3> QED BY <3>1 DEF Refers
  <2>7. g.ref = [v.ref EXCEPT ![p] = v.ref[p] + 1]
    <3>1. Refers(v, s, p, g)
      BY <1>1, <2>4, ReferFields DEF g
    <3> QED BY <3>1 DEF Refers
  <2>8. c.ref[q] = w.ref[q] /\ p # q
    BY <1>6, <1>7, <1>12, <2>1 DEF q
  <2>9. d.ref = g.ref
    <3>1. d.ref = [c.ref EXCEPT ![q] = c.ref[q] - 1]
      BY <2>1 DEF Cleared
    <3>2. v.ref = [w.ref EXCEPT ![q] = w.ref[q] - 1]
      BY <2>2 DEF Cleared
    <3> QED BY <1>6, <1>7, <2>1, <2>7, <2>8, <3>1, <3>2
  <2>10. d \in MemType /\ d.free = g.free
    BY <1>6, <2>1, <2>2, <2>6, <2>8 DEF Cleared
  <2>11. /\ d.frame = [w.frame EXCEPT ![s] = NoPage]
         /\ d.perm = [w.perm EXCEPT ![s] = {}]
    BY <1>6, <2>1 DEF Cleared
  <2>12. /\ \A x \in Slot \ {s} : d.frame[x] = w.frame[x]
         /\ \A x \in Env \X Va \ {s} : d.perm[x] = w.perm[x]
    BY <1>1, <1>7, <2>11
  <2>13. [d.frame EXCEPT ![s] = p] = g.frame
    BY <2>4, <2>6, <2>11
  <2> QED BY <1>2, <1>8, <2>3, <2>6, <2>9, <2>10, <2>12, <2>13 DEF r
<1> QED BY <1>9, <1>11, <1>12

-----------------------------------------------------------------------------
(* What system calls are made of: the counts stay right, only a free page   *)
(* becomes writable, and a page is lost only when no page is left.          *)

Sound(m, r) ==
  /\ Good(r)
  /\ \A q \in Page : WritableIn(r, q) => WritableIn(m, q) \/ q \in m.free
  /\ LostIn(r) \subseteq LostIn(m) \/ r.free = {}

\* Entries live in tables and directories; e changes its entry va in r.
RootedIn(m) ==
  \A e \in Env :
    /\ state[e] = "FREE" <=> m.frame[<<e, "dir">>] = NoPage
    /\ \A t \in Tab : state[e] = "FREE" => m.frame[<<e, t>>] = NoPage
    /\ \A va \in Va : ~HasTable(m, e, va) => m.frame[<<e, va>>] = NoPage

LEMMA RootedGrows ==
  ASSUME NEW m, NEW r, RootedIn(m), NEW e \in Env, NEW va \in Va, NEW p, NEW perm,
         state[e] # "FREE", Inserted(m, e, va, p, perm, r)
  PROVE  RootedIn(r)
<1>0. /\ HasTable(r, e, va)
      /\ \A s \in Slot \ {<<e, va>>, <<e, TabOf[va]>>} : r.frame[s] = m.frame[s]
  BY DEF Inserted
<1> SUFFICES ASSUME NEW f \in Env
             PROVE  /\ state[f] = "FREE" <=> r.frame[<<f, "dir">>] = NoPage
                    /\ \A t \in Tab : state[f] = "FREE" => r.frame[<<f, t>>] = NoPage
                    /\ \A vb \in Va : ~HasTable(r, f, vb) => r.frame[<<f, vb>>] = NoPage
  BY DEF RootedIn
<1>1. "dir" \notin Tab \cup Va /\ Tab \cap Va = {} /\ TabOf \in [Va -> Tab]
  BY SpaceAssumption
<1>2. r.frame[<<f, "dir">>] = m.frame[<<f, "dir">>]
  BY <1>0, <1>1 DEF Slot
<1>3. ASSUME NEW t \in Tab, <<f, t>> # <<e, TabOf[va]>>
      PROVE  r.frame[<<f, t>>] = m.frame[<<f, t>>]
  BY <1>0, <1>1, <1>3 DEF Slot
<1>4. ASSUME NEW vb \in Va, ~HasTable(r, f, vb) PROVE r.frame[<<f, vb>>] = NoPage
  <2>1. <<f, TabOf[vb]>> # <<e, TabOf[va]>>
    BY <1>0, <1>4 DEF HasTable
  <2>2. TabOf[vb] \in Tab
    BY <1>1
  <2>3. r.frame[<<f, TabOf[vb]>>] = m.frame[<<f, TabOf[vb]>>]
    BY <1>3, <2>1, <2>2
  <2>4. m.frame[<<f, vb>>] = NoPage
    BY <1>4, <2>3 DEF RootedIn, HasTable
  <2>5. <<f, vb>> # <<e, va>> /\ <<f, vb>> # <<e, TabOf[va]>>
    BY <1>1, <2>1
  <2> QED BY <1>0, <2>4, <2>5, SlotFacts
<1>5. \A t \in Tab : state[f] = "FREE" => r.frame[<<f, t>>] = NoPage
  <2> SUFFICES ASSUME NEW t \in Tab, state[f] = "FREE" PROVE r.frame[<<f, t>>] = NoPage
    OBVIOUS
  <2>1. f # e /\ m.frame[<<f, t>>] = NoPage
    BY DEF RootedIn
  <2> QED BY <1>3, <2>1
<1> QED BY <1>2, <1>4, <1>5 DEF RootedIn

LEMMA InsertWritable ==
  ASSUME NEW m, NEW r, NEW e \in Env, NEW va \in Va, NEW p, NEW perm,
         Inserted(m, e, va, p, perm, r), NEW q \in Page, WritableIn(r, q)
  PROVE  WritableIn(m, q) \/ (q = p /\ "W" \in perm)
<1>1. PICK s \in Env \X Va : r.frame[s] = q /\ "W" \in r.perm[s]
  BY DEF WritableIn
<1>2. s \in Slot /\ s # <<e, TabOf[va]>>
  BY SlotFacts
<1> QED BY <1>1, <1>2 DEF WritableIn, Inserted

LEMMA AllocSound ==
  ASSUME NEW m, Good(m), NEW e \in Env, NEW va \in Va, NEW perm \in SUBSET Bits
  PROVE  LET r == EnvPageAlloc(m, e, va, perm)
         IN  /\ Sound(m, r)
             /\ RootedIn(m) /\ state[e] # "FREE" => RootedIn(r)
             /\ LostIn(r) \subseteq LostIn(m) \/ (r.free = {} /\ ~CanWalk(r, e, va))
<1> DEFINE r == EnvPageAlloc(m, e, va, perm)
           a == PageAlloc(m)
<1>1. CASE m.free = {}
  <2>1. r = m
    BY <1>1 DEF EnvPageAlloc
  <2> HIDE DEF r
  <2>2. Sound(m, r)
    BY <2>1 DEF Sound
  <2> QED BY <2>1, <2>2 DEF r
<1>2. CASE m.free # {}
  <2>1. /\ Good(a) /\ NextFree(m) \in Page /\ NextFree(m) \in m.free
        /\ NextFree(m) \notin a.free /\ a.free \subseteq m.free
        /\ a.frame = m.frame /\ a.perm = m.perm
        /\ LostIn(a) = LostIn(m) \cup {NextFree(m)}
    BY <1>2, AllocGood
  <2>2. RootedIn(m) => RootedIn(a)
    BY <2>1 DEF RootedIn, HasTable
  <2>3. \A q : WritableIn(a, q) <=> WritableIn(m, q)
    BY <2>1 DEF WritableIn
  <2>4. CASE ~CanAlloc(m, e, va)
    <3>1. r = a /\ ~CanWalk(a, e, va)
      BY <1>2, <2>4 DEF EnvPageAlloc, CanAlloc
    <3>2. a.free = {}
      BY <3>1 DEF CanWalk
    <3> QED BY <2>1, <2>2, <2>3, <3>1, <3>2 DEF Sound
  <2>5. CASE CanAlloc(m, e, va)
    <3>1. r = PageInsert(a, e, va, NextFree(m), perm) /\ CanWalk(a, e, va)
      BY <1>2, <2>5 DEF EnvPageAlloc, CanAlloc
    <3> HIDE DEF a, r
    <3>2. Inserted(a, e, va, NextFree(m), perm, r)
      BY <2>1, <3>1, InsertGood
    <3>3. RootedIn(m) /\ state[e] # "FREE" => RootedIn(r)
      BY <2>2, <3>2, RootedGrows
    <3>4. \A q \in Page : WritableIn(r, q) => WritableIn(m, q) \/ q \in m.free
      BY <2>1, <2>3, <3>2, InsertWritable
    <3>5. LostIn(r) \subseteq LostIn(m)
      BY <2>1, <3>2 DEF Inserted
    <3>6. Good(r)
      BY <3>2 DEF Inserted
    <3> QED BY <3>3, <3>4, <3>5, <3>6 DEF Sound, r
  <2> QED BY <2>4, <2>5
<1> QED BY <1>1, <1>2

LEMMA MapSound ==
  ASSUME NEW m, Good(m), NEW s \in Env, NEW sva \in Va,
         NEW d \in Env, NEW dva \in Va, NEW perm \in SUBSET Bits
  PROVE  LET r == EnvPageMap(m, s, sva, d, dva, perm)
         IN  /\ Good(r)
             /\ \A q \in Page : WritableIn(r, q) => WritableIn(m, q)
             /\ LostIn(r) \subseteq LostIn(m)
             /\ RootedIn(m) /\ state[d] # "FREE" => RootedIn(r)
<1> DEFINE r == EnvPageMap(m, s, sva, d, dva, perm)
           p == m.frame[<<s, sva>>]
<1>1. CASE ~MayMap(m, s, sva, d, dva, perm)
  BY <1>1 DEF EnvPageMap
<1>2. CASE MayMap(m, s, sva, d, dva, perm)
  <2>1. /\ r = PageInsert(m, d, dva, p, perm) /\ CanWalk(m, d, dva) /\ p # NoPage
        /\ "W" \in perm => "W" \in m.perm[<<s, sva>>]
    BY <1>2 DEF EnvPageMap, MayMap
  <2>2. <<s, sva>> \in Slot /\ <<s, sva>> \in Env \X Va
    BY SlotFacts
  <2>3. p \in Page /\ <<s, sva>> \in Refs(m, p)
    BY <2>1, <2>2 DEF Good, MemType, Refs
  <2>4. p \notin m.free
    BY <2>3 DEF Good, FreeUnused
  <2>5. "W" \in perm => WritableIn(m, p)
    BY <2>1, <2>2 DEF WritableIn
  <2> HIDE DEF p, r
  <2>6. Inserted(m, d, dva, p, perm, r)
    BY <2>1, <2>3, <2>4, InsertGood
  <2>7. RootedIn(m) /\ state[d] # "FREE" => RootedIn(r)
    BY <2>6, RootedGrows
  <2>8. \A q \in Page : WritableIn(r, q) => WritableIn(m, q)
    BY <2>5, <2>6, InsertWritable
  <2> QED BY <2>6, <2>7, <2>8 DEF r, Inserted
<1> QED BY <1>1, <1>2

LEMMA DeliverSound ==
  ASSUME NEW m, Good(m), NEW e \in Env, NEW va \in Va, NEW t \in Env,
         NEW perm \in SUBSET Bits, dstva[t] \in Va
  PROVE  LET r == Deliver(m, e, va, t, perm)
         IN  Sound(m, r) /\ (RootedIn(m) /\ state[t] # "FREE" => RootedIn(r))
<1> DEFINE a == EnvPageAlloc(m, t, dstva[t], perm)
           r == Deliver(m, e, va, t, perm)
<1>1. /\ Sound(m, a)
      /\ RootedIn(m) /\ state[t] # "FREE" => RootedIn(a)
      /\ LostIn(a) \subseteq LostIn(m) \/ (a.free = {} /\ ~CanWalk(a, t, dstva[t]))
  BY AllocSound
<1>2. r = EnvPageMap(a, e, va, t, dstva[t], perm)
  BY DEF Deliver
<1> HIDE DEF a, r
<1>3. /\ Good(r)
      /\ \A q \in Page : WritableIn(r, q) => WritableIn(a, q)
      /\ LostIn(r) \subseteq LostIn(a)
      /\ RootedIn(a) /\ state[t] # "FREE" => RootedIn(r)
  BY <1>1, <1>2, MapSound DEF Sound
<1>4. ~CanWalk(a, t, dstva[t]) => r = a
  BY <1>2 DEF EnvPageMap, MayMap
<1>5. Sound(m, r)
  BY <1>1, <1>3, <1>4 DEF Sound
<1> QED BY <1>1, <1>3, <1>5 DEF r

LEMMA UnmapSound ==
  ASSUME NEW m, Good(m), NEW e \in Env, NEW va \in Va
  PROVE  LET r == PageRemove(m, e, va)
         IN  Sound(m, r) /\ (RootedIn(m) => RootedIn(r))
<1> DEFINE r == PageRemove(m, e, va)
           s == <<e, va>>
<1>1. /\ Good(r) /\ r.frame = [m.frame EXCEPT ![s] = NoPage]
      /\ \A x \in Env \X Va \ {s} : r.perm[x] = m.perm[x]
      /\ LostIn(r) \subseteq LostIn(m)
  BY RemoveGood
<1>2. /\ s \in Slot /\ s \in Env \X Va /\ NoPage \notin Page
      /\ m.frame \in [Slot -> Page \cup {NoPage}]
  BY SlotFacts DEF Good, MemType
<1>3. /\ r.frame[s] = NoPage
      /\ \A x \in Slot \ {s} : r.frame[x] = m.frame[x]
  BY <1>1, <1>2
<1> HIDE DEF r
<1>4. \A q \in Page : WritableIn(r, q) => WritableIn(m, q)
  <2> SUFFICES ASSUME NEW q \in Page, WritableIn(r, q) PROVE WritableIn(m, q)
    OBVIOUS
  <2>1. PICK x \in Env \X Va : r.frame[x] = q /\ "W" \in r.perm[x]
    BY DEF WritableIn
  <2>2. x \in Slot /\ x # s
    BY <1>2, <1>3, <2>1 DEF Slot
  <2> QED BY <1>1, <1>3, <2>1, <2>2 DEF WritableIn
<1>5. ASSUME RootedIn(m) PROVE RootedIn(r)
  <2> SUFFICES ASSUME NEW f \in Env
               PROVE  /\ state[f] = "FREE" <=> r.frame[<<f, "dir">>] = NoPage
                      /\ \A t \in Tab : state[f] = "FREE" => r.frame[<<f, t>>] = NoPage
                      /\ \A vb \in Va : ~HasTable(r, f, vb) => r.frame[<<f, vb>>] = NoPage
    BY DEF RootedIn
  <2>1. "dir" \notin Tab \cup Va /\ Tab \cap Va = {} /\ TabOf \in [Va -> Tab]
    BY SpaceAssumption
  <2>2. r.frame[<<f, "dir">>] = m.frame[<<f, "dir">>]
    BY <1>3, <2>1 DEF Slot
  <2>3. \A t \in Tab : r.frame[<<f, t>>] = m.frame[<<f, t>>]
    BY <1>3, <2>1 DEF Slot
  <2>4. ASSUME NEW vb \in Va, ~HasTable(r, f, vb) PROVE r.frame[<<f, vb>>] = NoPage
    <3>1. ~HasTable(m, f, vb)
      BY <2>1, <2>3, <2>4 DEF HasTable
    <3>2. m.frame[<<f, vb>>] = NoPage
      BY <1>5, <3>1 DEF RootedIn
    <3> QED BY <1>3, <3>2, SlotFacts
  <2> QED BY <1>5, <2>2, <2>3, <2>4 DEF RootedIn
<1> QED BY <1>1, <1>4, <1>5 DEF Sound, r

LEMMA SetupSound ==
  ASSUME NEW m, Good(m), NEW e \in Env, m.free # {}, m.frame[<<e, "dir">>] = NoPage
  PROVE  LET r == EnvSetupVm(m, e)
         IN  /\ Sound(m, r) /\ r.frame[<<e, "dir">>] # NoPage
             /\ \A s \in Slot \ {<<e, "dir">>} : r.frame[s] = m.frame[s]
<1> DEFINE a == PageAlloc(m)
           r == EnvSetupVm(m, e)
           s == <<e, "dir">>
<1>1. /\ Good(a) /\ NextFree(m) \in Page /\ NextFree(m) \in m.free
      /\ NextFree(m) \notin a.free /\ a.frame = m.frame /\ a.perm = m.perm
      /\ LostIn(a) = LostIn(m) \cup {NextFree(m)}
  BY AllocGood
<1>2. r = Refer(a, s, NextFree(m)) /\ a.frame[s] = NoPage /\ s \in Slot
  BY <1>1 DEF EnvSetupVm, Slot
<1>3. NoPage \notin Page /\ Env \X Va \subseteq Slot /\ s \notin Env \X Va
  BY SpaceAssumption DEF Slot
<1> HIDE DEF a, r, s
<1>4. /\ Good(r) /\ LostIn(r) = LostIn(a) \ {NextFree(m)}
      /\ Refers(a, s, NextFree(m), r)
  BY <1>1, <1>2, ReferGood
<1>5. a.frame \in [Slot -> Page \cup {NoPage}]
  BY <1>1 DEF Good, MemType
<1>6. /\ r.frame[s] = NextFree(m) /\ r.perm = m.perm
      /\ \A x \in Slot \ {s} : r.frame[x] = m.frame[x]
  BY <1>1, <1>2, <1>4, <1>5 DEF Refers
<1>7. \A q \in Page : WritableIn(r, q) => WritableIn(m, q)
  BY <1>3, <1>6 DEF WritableIn
<1> QED BY <1>1, <1>3, <1>4, <1>6, <1>7 DEF Sound, r, s

LEMMA FreeSound ==
  ASSUME NEW m, Good(m), NEW e \in Env
  PROVE  LET r == EnvFree(m, e)
         IN  /\ Sound(m, r)
             /\ \A s \in Slot : r.frame[s] = IF s[1] = e THEN NoPage ELSE m.frame[s]
<1> DEFINE r == EnvFree(m, e)
           own(p) == Cardinality(Own(m, e, p))
<1>1. /\ m \in MemType /\ m.free \in SUBSET Page /\ m.ref \in [Page -> Nat]
      /\ m.frame \in [Slot -> Page \cup {NoPage}] /\ NoPage \notin Page
      /\ m.perm \in [Env \X Va -> SUBSET Bits] /\ m.data \in [Page -> Value]
  BY SpaceAssumption DEF Good, MemType
<1>2. /\ r.free = m.free \cup {p \in Page : own(p) > 0 /\ own(p) = m.ref[p]}
      /\ r.ref = [p \in Page |-> m.ref[p] - own(p)]
      /\ r.frame = [s \in Slot |-> IF s[1] = e THEN NoPage ELSE m.frame[s]]
      /\ r.perm = [s \in Env \X Va |-> IF s[1] = e THEN {} ELSE m.perm[s]]
      /\ r.data = m.data
  BY DEF EnvFree
<1>3. ASSUME NEW p \in Page
      PROVE  /\ Refs(r, p) = Refs(m, p) \ Own(m, e, p)
             /\ Own(m, e, p) \subseteq Refs(m, p)
             /\ own(p) \in Nat /\ own(p) <= m.ref[p]
             /\ Cardinality(Refs(r, p)) = m.ref[p] - own(p)
             /\ own(p) = m.ref[p] => Refs(r, p) = {}
             /\ own(p) = 0 => Refs(r, p) = Refs(m, p)
  <2>1. Own(m, e, p) \subseteq Refs(m, p)
    BY DEF Own, Refs
  <2>2. Refs(r, p) = Refs(m, p) \ Own(m, e, p)
    BY <1>1, <1>2 DEF Own, Refs
  <2>3. /\ IsFiniteSet(Refs(m, p)) /\ Cardinality(Refs(m, p)) = m.ref[p]
        /\ Cardinality(Refs(m, p)) \in Nat
    BY RefsFinite DEF Good, RefExact
  <2>4. IsFiniteSet(Own(m, e, p)) /\ own(p) \in Nat /\ own(p) <= m.ref[p]
    BY <2>1, <2>3, FS_Subset, FS_CardinalityType
  <2>5. Cardinality(Refs(r, p)) = m.ref[p] - own(p)
    <3>1. Refs(m, p) \cap Own(m, e, p) = Own(m, e, p)
      BY <2>1
    <3> QED BY <2>2, <2>3, <3>1, FS_Difference
  <2>6. own(p) = m.ref[p] => Refs(r, p) = {}
    BY <2>1, <2>2, <2>3, FS_Subset
  <2>7. own(p) = 0 => Refs(r, p) = Refs(m, p)
    BY <2>2, <2>4, FS_EmptySet
  <2> QED BY <2>1, <2>2, <2>4, <2>5, <2>6, <2>7
<1>4. r \in MemType
  <2>1. r = [free |-> r.free, ref |-> r.ref, frame |-> r.frame, perm |-> r.perm,
             data |-> r.data]
    BY DEF EnvFree
  <2>2. r.free \in SUBSET Page
    BY <1>1, <1>2
  <2>4. r.ref \in [Page -> Nat]
    <3>1. \A p \in Page : m.ref[p] - own(p) \in Nat
      BY <1>1, <1>3
    <3> HIDE DEF own, r
    <3> QED BY <1>2, <3>1
  <2>3. r.frame \in [Slot -> Page \cup {NoPage}] /\ r.perm \in [Env \X Va -> SUBSET Bits]
    BY <1>1, <1>2
  <2> QED BY <1>1, <1>2, <2>1, <2>2, <2>3, <2>4 DEF MemType
<1> HIDE DEF r, own
<1>5. RefExact(r)
  BY <1>2, <1>3 DEF RefExact
<1>6. FreeUnused(r)
  <2> SUFFICES ASSUME NEW p \in r.free PROVE Refs(r, p) = {}
    BY DEF FreeUnused
  <2>1. p \in Page /\ (p \in m.free \/ own(p) = m.ref[p])
    BY <1>1, <1>2
  <2> QED BY <1>3, <2>1 DEF Good, FreeUnused
<1>7. LostIn(r) \subseteq LostIn(m)
  <2> SUFFICES ASSUME NEW p \in Page, p \notin r.free, Refs(r, p) = {}
               PROVE  p \notin m.free /\ Refs(m, p) = {}
    BY DEF LostIn
  <2>1. Cardinality(Refs(r, p)) = 0
    BY FS_EmptySet
  <2>2. own(p) = m.ref[p]
    <3>1. /\ own(p) \in Nat /\ m.ref[p] \in Nat
          /\ Cardinality(Refs(r, p)) = m.ref[p] - own(p)
      BY <1>1, <1>3
    <3> QED BY <2>1, <3>1
  <2>3. own(p) = 0
    BY <1>2, <1>3, <2>2
  <2> QED BY <1>2, <1>3, <2>3
<1>8. \A q \in Page : WritableIn(r, q) => WritableIn(m, q)
  <2> SUFFICES ASSUME NEW q \in Page, NEW s \in Env \X Va, r.frame[s] = q, "W" \in r.perm[s]
               PROVE  m.frame[s] = q /\ "W" \in m.perm[s]
    BY DEF WritableIn
  <2>1. s \in Slot
    BY DEF Slot
  <2> QED BY <1>1, <1>2, <2>1
<1> QED BY <1>2, <1>4, <1>5, <1>6, <1>7, <1>8 DEF Sound, Good, r

-----------------------------------------------------------------------------
(* The invariant, and every action.                                         *)

ProcOK ==
  /\ state \in [Env -> {"FREE", "LOADING", "EMBRYO", "UP", "BLOCKED"}]
  /\ parent \in [Env -> Env \cup {NoEnv}]
  /\ recving \in [Env -> BOOLEAN] /\ dstva \in [Env -> Va \cup {NoVa}]
  /\ panicked \in BOOLEAN

MemInv == ProcOK /\ Good(mem) /\ RootedIn(mem)

LEMMA InvParts == MemInv <=> TypeOK /\ PagesCounted
BY DEF MemInv, ProcOK, Good, MemType, TypeOK, PagesCounted, Rooted, RootedIn

MemStep == MemInv' /\ Sound(mem, mem')

\* A step that leaves every environment that is there where it was.
LEMMA Assemble ==
  ASSUME ProcOK', Sound(mem, mem'), RootedIn(mem'),
         \A f \in Env : state'[f] = "FREE" <=> state[f] = "FREE"
  PROVE  MemStep
BY DEF MemStep, MemInv, Sound, RootedIn, HasTable

LEMMA QuietStep ==
  ASSUME MemInv, ProcOK', UNCHANGED mem,
         \A f \in Env : state'[f] = "FREE" <=> state[f] = "FREE"
  PROVE  MemStep
<1>1. Sound(mem, mem') /\ RootedIn(mem')
  BY DEF MemInv, Sound, RootedIn, HasTable
<1> QED BY <1>1, Assemble

LEMMA ZeroGood == Good(NoMemory)
<1>1. /\ NoMemory.free = Page /\ NoMemory.ref = [p \in Page |-> 0]
      /\ NoMemory.frame = [s \in Slot |-> NoPage]
  BY DEF NoMemory
<1>2. NoMemory \in MemType
  BY SpaceAssumption DEF NoMemory, MemType
<1>3. \A p \in Page : Refs(NoMemory, p) = {}
  BY <1>1, SpaceAssumption DEF Refs
<1> HIDE DEF NoMemory
<1> QED BY <1>1, <1>2, <1>3, FS_EmptySet DEF Good, RefExact, FreeUnused

\* e's first page is its directory.
LEMMA NewRooted ==
  ASSUME ProcOK, RootedIn(mem), NEW e \in Env, state[e] = "FREE", NEW st,
         st # "FREE", state' = [state EXCEPT ![e] = st],
         mem'.frame[<<e, "dir">>] # NoPage,
         \A s \in Slot \ {<<e, "dir">>} : mem'.frame[s] = mem.frame[s]
  PROVE  RootedIn(mem)'
<1> SUFFICES ASSUME NEW f \in Env
             PROVE  /\ state'[f] = "FREE" <=> mem'.frame[<<f, "dir">>] = NoPage
                    /\ \A t \in Tab : state'[f] = "FREE" => mem'.frame[<<f, t>>] = NoPage
                    /\ \A va \in Va : ~HasTable(mem', f, va) => mem'.frame[<<f, va>>] = NoPage
  BY DEF RootedIn, HasTable
<1>1. "dir" \notin Tab \cup Va /\ TabOf \in [Va -> Tab]
  BY SpaceAssumption
<1>2. \A k \in Tab \cup Va : mem'.frame[<<f, k>>] = mem.frame[<<f, k>>]
  BY <1>1 DEF Slot
<1>3. f # e => mem'.frame[<<f, "dir">>] = mem.frame[<<f, "dir">>]
  BY DEF Slot
<1>4. state'[e] = st /\ \A g \in Env \ {e} : state'[g] = state[g]
  BY DEF ProcOK
<1>5. \A va \in Va : HasTable(mem', f, va) <=> HasTable(mem, f, va)
  BY <1>1, <1>2 DEF HasTable
<1> QED BY <1>2, <1>3, <1>4, <1>5 DEF RootedIn

LEMMA SetupStep ==
  ASSUME MemInv, NEW e \in Env, state[e] = "FREE", mem.free # {},
         mem' = EnvSetupVm(mem, e), NEW st \in {"LOADING", "EMBRYO", "UP"},
         state' = [state EXCEPT ![e] = st], ProcOK'
  PROVE  MemStep
<1>1. mem.frame[<<e, "dir">>] = NoPage
  BY DEF MemInv, RootedIn
<1>2. /\ Sound(mem, mem') /\ mem'.frame[<<e, "dir">>] # NoPage
      /\ \A s \in Slot \ {<<e, "dir">>} : mem'.frame[s] = mem.frame[s]
  BY <1>1, SetupSound DEF MemInv
<1>3. RootedIn(mem)'
  BY <1>2, NewRooted DEF MemInv
<1> QED BY <1>2, <1>3 DEF MemStep, MemInv, Sound

\* A write changes nothing but what a page contains.
LEMMA WriteStep ==
  ASSUME MemInv, NEW e \in Env, NEW va \in Va, NEW v \in Value, Write(e, va, v)
  PROVE  MemStep
<1> DEFINE p == mem.frame[<<e, va>>]
<1>1. mem \in MemType /\ <<e, va>> \in Slot
  BY SlotFacts DEF MemInv, Good
<1>2. p \in Page /\ mem' = [mem EXCEPT !.data[p] = v] /\ UNCHANGED procVars
  BY <1>1 DEF Write, MemType
<1> HIDE DEF p
<1>3. /\ mem' \in MemType /\ mem'.free = mem.free /\ mem'.ref = mem.ref
      /\ mem'.frame = mem.frame /\ mem'.perm = mem.perm
  <2>1. /\ DOMAIN mem = {"free", "ref", "frame", "perm", "data"}
        /\ mem.data \in [Page -> Value]
    BY <1>1 DEF MemType
  <2>2. [mem.data EXCEPT ![p] = v] \in [Page -> Value]
    BY <2>1
  <2> QED BY <1>1, <1>2, <2>1, <2>2 DEF MemType
<1>4. Good(mem') /\ LostIn(mem') = LostIn(mem)
  BY <1>3, SameCounts DEF MemInv
<1>5. Sound(mem, mem')
  BY <1>3, <1>4 DEF Sound, WritableIn
<1>6. RootedIn(mem')
  BY <1>3 DEF MemInv, RootedIn, HasTable
<1>7. ProcOK' /\ state' = state
  BY <1>2 DEF MemInv, ProcOK, procVars
<1> QED BY <1>5, <1>6, <1>7, Assemble

\* env_free() takes every entry of t away.
LEMMA FreeStep ==
  ASSUME MemInv, NEW t \in Env, Free(t)
  PROVE  MemStep
<1>1. /\ mem' = EnvFree(mem, t) /\ state' = [state EXCEPT ![t] = "FREE"]
      /\ parent' = [c \in Env |-> IF parent[c] = t \/ c = t THEN NoEnv ELSE parent[c]]
      /\ UNCHANGED <<recving, dstva, panicked>>
  BY DEF Free
<1>2. /\ Sound(mem, mem')
      /\ \A s \in Slot : mem'.frame[s] = IF s[1] = t THEN NoPage ELSE mem.frame[s]
  BY <1>1, FreeSound DEF MemInv
<1>3. ProcOK'
  BY <1>1 DEF MemInv, ProcOK
<1>4. state'[t] = "FREE" /\ \A f \in Env \ {t} : state'[f] = state[f]
  BY <1>1 DEF MemInv, ProcOK
<1>5. \A f \in Env : \A k \in {"dir"} \cup Tab \cup Va :
        mem'.frame[<<f, k>>] = IF f = t THEN NoPage ELSE mem.frame[<<f, k>>]
  BY <1>2 DEF Slot
<1>6. TabOf \in [Va -> Tab]
  BY SpaceAssumption
<1>7. RootedIn(mem)'
  <2> SUFFICES ASSUME NEW f \in Env
               PROVE  /\ state'[f] = "FREE" <=> mem'.frame[<<f, "dir">>] = NoPage
                      /\ \A k \in Tab : state'[f] = "FREE" => mem'.frame[<<f, k>>] = NoPage
                      /\ \A va \in Va : ~HasTable(mem', f, va) => mem'.frame[<<f, va>>] = NoPage
    BY DEF RootedIn, HasTable
  <2>1. CASE f = t
    BY <1>4, <1>5, <2>1
  <2>2. CASE f # t
    <3>1. \A va \in Va : HasTable(mem', f, va) <=> HasTable(mem, f, va)
      BY <1>5, <1>6, <2>2 DEF HasTable
    <3>2. /\ state[f] = "FREE" <=> mem.frame[<<f, "dir">>] = NoPage
          /\ \A k \in Tab : state[f] = "FREE" => mem.frame[<<f, k>>] = NoPage
          /\ \A va \in Va : ~HasTable(mem, f, va) => mem.frame[<<f, va>>] = NoPage
      BY DEF MemInv, RootedIn
    <3>3. state'[f] = state[f] /\ \A k \in {"dir"} \cup Tab \cup Va :
            mem'.frame[<<f, k>>] = mem.frame[<<f, k>>]
      BY <1>4, <1>5, <2>2
    <3> QED BY <3>1, <3>2, <3>3
  <2> QED BY <2>1, <2>2
<1> QED BY <1>2, <1>3, <1>7 DEF MemStep, MemInv, Sound

LEMMA BootStep ==
  ASSUME MemInv, EnvCreate \/ \E va \in Image : RegionAlloc(va)
  PROVE  MemStep
<1>1. Root \in Env /\ Image \subseteq Va
  BY SpaceAssumption
<1>2. CASE Panic
  <2>1. ProcOK' /\ state' = state /\ mem' = mem
    BY <1>2 DEF Panic, MemInv, ProcOK
  <2> QED BY <2>1, QuietStep
<1>3. CASE EnvCreate /\ ~Panic
  <2> DEFINE st == IF Image = {} THEN "UP" ELSE "LOADING"
  <2>1. /\ state[Root] = "FREE" /\ mem.free # {} /\ mem' = EnvSetupVm(mem, Root)
        /\ state' = [state EXCEPT ![Root] = st]
        /\ UNCHANGED <<parent, recving, dstva, panicked>>
    BY <1>3 DEF EnvCreate
  <2>2. st \in {"LOADING", "EMBRYO", "UP"}
    OBVIOUS
  <2> HIDE DEF st
  <2>3. ProcOK'
    BY <1>1, <2>1, <2>2 DEF MemInv, ProcOK
  <2> QED BY <1>1, <2>1, <2>2, <2>3, SetupStep
<1>4. ASSUME NEW va \in Image, RegionAlloc(va), ~Panic PROVE MemStep
  <2> DEFINE st == IF \A v \in Image \ {va} : mem.frame[<<Root, v>>] # NoPage
                   THEN "UP" ELSE "LOADING"
  <2>1. /\ state[Root] = "LOADING" /\ mem' = EnvPageAlloc(mem, Root, va, {"W"})
        /\ state' = [state EXCEPT ![Root] = st]
        /\ UNCHANGED <<parent, recving, dstva, panicked>>
    BY <1>4 DEF RegionAlloc
  <2>2. st \in {"LOADING", "UP"}
    OBVIOUS
  <2> HIDE DEF st
  <2>3. ProcOK' /\ \A f \in Env : state'[f] = "FREE" <=> state[f] = "FREE"
    BY <1>1, <2>1, <2>2 DEF MemInv, ProcOK
  <2>4. {"W"} \in SUBSET Bits
    BY DEF Bits
  <2>5. Sound(mem, mem') /\ RootedIn(mem')
    BY <1>1, <2>1, <2>4, AllocSound DEF MemInv
  <2> QED BY <2>3, <2>5, Assemble
<1> QED BY <1>2, <1>3, <1>4

LEMMA ActStep ==
  ASSUME MemInv, NEW e \in Env, Acts(e)
  PROVE  MemStep
<1>1. Perms \subseteq SUBSET Bits /\ Windows \subseteq Va
  BY SpaceAssumption
<1>2. ASSUME NEW t \in Env, Named(e, t), Up(e) PROVE state[t] # "FREE"
  BY <1>2 DEF Named, Up
<1>3. UNCHANGED procVars =>
        ProcOK' /\ \A f \in Env : state'[f] = "FREE" <=> state[f] = "FREE"
  BY DEF MemInv, ProcOK, procVars
<1>4. ASSUME NEW t \in Env, Wake(t), Receives(t)
      PROVE  ProcOK' /\ \A f \in Env : state'[f] = "FREE" <=> state[f] = "FREE"
  BY <1>4 DEF Wake, Receives, MemInv, ProcOK
<1>5. ASSUME NEW va \in Va, NEW v \in Value, Write(e, va, v) PROVE MemStep
  BY <1>5, WriteStep
<1>6. ASSUME NEW t \in Env, NEW va \in Va, NEW perm \in Perms,
             SysPageAlloc(e, t, va, perm)
      PROVE  MemStep
  <2>1. /\ Up(e) /\ Named(e, t) /\ mem' = EnvPageAlloc(mem, t, va, perm)
        /\ UNCHANGED procVars
    BY <1>6 DEF SysPageAlloc
  <2>2. Sound(mem, mem') /\ RootedIn(mem')
    BY <1>1, <1>2, <2>1, AllocSound DEF MemInv
  <2> QED BY <1>3, <2>1, <2>2, Assemble
<1>7. ASSUME NEW s \in Env, NEW t \in Env, NEW sva \in Va, NEW va \in Va,
             NEW perm \in Perms, SysPageMap(e, s, sva, t, va, perm)
      PROVE  MemStep
  <2>1. /\ Up(e) /\ Named(e, t) /\ mem' = EnvPageMap(mem, s, sva, t, va, perm)
        /\ UNCHANGED procVars
    BY <1>7 DEF SysPageMap
  <2>2. /\ Good(mem') /\ LostIn(mem') \subseteq LostIn(mem)
        /\ \A q \in Page : WritableIn(mem', q) => WritableIn(mem, q)
        /\ RootedIn(mem) /\ state[t] # "FREE" => RootedIn(mem')
    BY <1>1, <2>1, MapSound DEF MemInv
  <2>3. Sound(mem, mem') /\ RootedIn(mem')
    BY <1>2, <2>1, <2>2 DEF Sound, MemInv
  <2> QED BY <1>3, <2>1, <2>3, Assemble
<1>8. ASSUME NEW t \in Env, NEW va \in Va, SysPageUnmap(e, t, va) PROVE MemStep
  <2>1. mem' = PageRemove(mem, t, va) /\ UNCHANGED procVars
    BY <1>8 DEF SysPageUnmap
  <2>2. Sound(mem, mem') /\ RootedIn(mem')
    BY <2>1, UnmapSound DEF MemInv
  <2> QED BY <1>3, <2>1, <2>2, Assemble
<1>9. ASSUME NEW c \in Env, SysExofork(e, c) PROVE MemStep
  <2>1. /\ state[c] = "FREE" /\ mem.free # {} /\ mem' = EnvSetupVm(mem, c)
        /\ state' = [state EXCEPT ![c] = "EMBRYO"]
        /\ parent' = [parent EXCEPT ![c] = e]
        /\ recving' = [recving EXCEPT ![c] = FALSE]
        /\ UNCHANGED <<dstva, panicked>>
    BY <1>9 DEF SysExofork
  <2>2. ProcOK'
    BY <2>1 DEF MemInv, ProcOK
  <2> QED BY <2>1, <2>2, SetupStep
<1>10. ASSUME NEW c \in Env, SysEnvStart(e, c) PROVE MemStep
  <2>1. ProcOK' /\ mem' = mem /\ \A f \in Env : state'[f] = "FREE" <=> state[f] = "FREE"
    BY <1>10 DEF SysEnvStart, MemInv, ProcOK
  <2> QED BY <2>1, QuietStep
<1>11. ASSUME NEW c \in Env, SysEnvDestroy(e, c) PROVE MemStep
  BY <1>11, FreeStep DEF SysEnvDestroy
<1>12. CASE SysIpcRecvBad(e)
  <2>1. ProcOK' /\ mem' = mem /\ state' = state
    BY <1>12 DEF SysIpcRecvBad, MemInv, ProcOK
  <2> QED BY <2>1, QuietStep
<1>13. ASSUME NEW va \in Windows \cup {NoVa}, SysIpcRecv(e, va) PROVE MemStep
  <2>1. ProcOK' /\ mem' = mem /\ \A f \in Env : state'[f] = "FREE" <=> state[f] = "FREE"
    BY <1>1, <1>13 DEF SysIpcRecv, Up, MemInv, ProcOK
  <2> QED BY <2>1, QuietStep
<1>14. ASSUME NEW t \in Env, NEW va, NEW perm, SendValue(e, t, va, perm) PROVE MemStep
  BY <1>4, <1>14, QuietStep DEF SendValue
<1>15. ASSUME NEW t \in Env, NEW va \in Va, NEW perm \in Perms, dstva[t] # NoVa,
              Receives(t), mem' = Deliver(mem, e, va, t, perm),
              Wake(t) \/ UNCHANGED procVars
       PROVE  MemStep
  <2>1. dstva[t] \in Va
    BY <1>15 DEF MemInv, ProcOK
  <2>2. Sound(mem, mem') /\ RootedIn(mem')
    BY <1>1, <1>15, <2>1, DeliverSound DEF MemInv, Receives
  <2> QED BY <1>3, <1>4, <1>15, <2>2, Assemble
<1>16. ASSUME NEW t \in Env, NEW va \in Va, NEW perm \in Perms, SendPage(e, t, va, perm)
       PROVE  MemStep
  BY <1>15, <1>16 DEF SendPage
<1>17. ASSUME NEW t \in Env, NEW va \in Va, NEW perm \in Perms, SendNothing(e, t, va, perm)
       PROVE  MemStep
  <2>1. CASE Panic
    <3>1. ProcOK' /\ state' = state /\ mem' = mem
      BY <2>1 DEF Panic, MemInv, ProcOK
    <3> QED BY <3>1, QuietStep
  <2>2. CASE /\ dstva[t] # NoVa /\ mem' = Deliver(mem, e, va, t, perm)
             /\ Wake(t) \/ UNCHANGED procVars
    BY <1>15, <1>17, <2>2 DEF SendNothing
  <2>3. CASE Wake(t) /\ UNCHANGED mem
    BY <1>4, <1>17, <2>3, QuietStep DEF SendNothing
  <2> QED BY <1>17, <2>1, <2>2, <2>3 DEF SendNothing
<1> QED BY <1>5, <1>6, <1>7, <1>8, <1>9, <1>10, <1>11, <1>12, <1>13, <1>14, <1>16,
           <1>17 DEF Acts

LEMMA EveryStep == MemInv /\ [Next]_memVars => MemStep
<1> SUFFICES ASSUME MemInv, [Next]_memVars PROVE MemStep
  OBVIOUS
<1>1. CASE UNCHANGED memVars
  <2>1. ProcOK' /\ mem' = mem /\ state' = state
    BY <1>1 DEF memVars, procVars, MemInv, ProcOK
  <2> QED BY <2>1, QuietStep
<1> QED BY <1>1, BootStep, ActStep DEF Next, Stopped

LEMMA InitInv == Init => MemInv
<1> SUFFICES ASSUME Init PROVE MemInv
  OBVIOUS
<1>1. ProcOK
  BY DEF Init, ProcOK
<1>2. mem.frame = [s \in Slot |-> NoPage]
  BY DEF Init, NoMemory
<1>3. RootedIn(mem)
  BY <1>2, SlotFacts DEF Init, RootedIn, Slot
<1> QED BY <1>1, <1>3, ZeroGood DEF Init, MemInv

LEMMA InvAlways == Spec => []MemInv
<1>1. MemInv /\ [Next]_memVars => MemInv'
  BY EveryStep DEF MemStep
<1> QED BY InitInv, <1>1, PTL DEF Spec

\* Memory is typed: every entry is empty or holds a page.
THEOREM MemoryTypeCorrect == Spec => []TypeOK
<1>1. MemInv => TypeOK
  BY InvParts
<1> QED BY <1>1, InvAlways, PTL

\* pp_ref is exact, the free list holds no page that is in use, and every entry
\* lies in a table of a living environment: for any number of pages, tables,
\* virtual pages and environments, whatever programs map, unmap, send, fork,
\* destroy or run out of.
THEOREM PagesCountedCorrect == Spec => []PagesCounted
<1>1. MemInv => PagesCounted
  BY InvParts
<1> QED BY <1>1, InvAlways, PTL

\* No call makes a page writable that is mapped and that nobody may write.
THEOREM NoEscalationCorrect == Spec => NoEscalation
<1> DEFINE A == \A p \in Page : Mapped(p) /\ ~Writable(p) => ~Writable(p)'
<1>1. MemInv /\ [Next]_memVars => [A]_memVars
  <2> SUFFICES ASSUME MemInv, [Next]_memVars, NEW p \in Page, Mapped(p), Writable(p)'
               PROVE  Writable(p)
    BY Zenon
  <2>1. WritableIn(mem', p) => WritableIn(mem, p) \/ p \in mem.free
    BY EveryStep DEF MemStep, Sound
  <2>2. Refs(mem, p) # {}
    BY DEF Mapped, Refs, Slot
  <2>3. p \notin mem.free
    BY <2>2 DEF MemInv, Good, FreeUnused
  <2> QED BY <2>1, <2>3 DEF Writable, WritableIn
<1> QED BY <1>1, InvAlways, PTL DEF Spec, NoEscalation

\* A page is lost only by the failing allocation that takes the last one.
THEOREM LostWhenFullCorrect == Spec => LostWhenFull
<1> DEFINE A == Lost' \subseteq Lost \/ mem'.free = {}
<1>1. MemInv /\ [Next]_memVars => [A]_memVars
  BY EveryStep DEF MemStep, Sound, Lost, LostIn
<1> QED BY <1>1, InvAlways, PTL DEF Spec, LostWhenFull
=============================================================================
