---------------------------- MODULE CowForkProofs ----------------------------
(* The programs of CowFork call the kernel as Memory models it, so what     *)
(* MemoryProofs shows holds of them; and what fork(), fork_v0() and         *)
(* pgfault() make of their pages is shared, and contains, what the code     *)
(* means it to.                                                             *)
EXTENDS CowFork, MemoryProofs

-----------------------------------------------------------------------------
(* The inductive invariant.                                                *)

\* Where a program is while one page of the loops is under way.
Copying == {"dup", "own", "dup0", "utemp", "copy", "unmap"}
Places == {"user", "panic", "xalloc", "upcall", "exofork", "exofork0"} \cup Forking

CowTypeOK ==
  /\ plan \in Plans /\ forks \in Nat /\ starved \in BOOLEAN
  /\ pc \in [Env -> Places] /\ child \in [Env -> Env \cup {NoEnv}]
  /\ at \in [Env -> 1 .. 5] /\ pte \in [Env -> SUBSET Bits]
  /\ fault \in [Env -> {"text", "stack", NoVa}]
  /\ fpc \in [Env -> {"alloc", "copy", "map", "unmap"}]
  /\ hand \in [Env -> BOOLEAN] /\ upcall \in [Env -> BOOLEAN]

\* A program is inside fork() or pgfault() only while it is UP, and its child
\* is the EMBRYO it has made.
PlaceOK(e) ==
  /\ state[e] # "UP" => pc[e] = "user" /\ fault[e] = NoVa
  /\ pc[e] \notin Forking => child[e] = NoEnv /\ at[e] = 1
  /\ pc[e] \in Forking \ {"start"} => child[e] # NoEnv
  /\ child[e] # NoEnv => state[child[e]] = "EMBRYO" /\ parent[child[e]] = e
  /\ fault[e] = NoVa => fpc[e] = "alloc"

\* No fault happens before the stack is copy-on-write: fork() is called with a
\* writable stack, and fork_v0() leaves it so.
Steady(e) ==
  \/ pc[e] \in {"xalloc", "upcall", "exofork", "exofork0", "page0"} \cup Copying
  \/ pc[e] = "page" /\ at[e] <= 3
SteadyOK(e) ==
  Steady(e) => fault[e] = NoVa /\ "W" \in mem.perm[<<e, "stack">>]

\* The page the loop is at, in the parent and in the child.
LoopOK(e) ==
  /\ pc[e] \in Copying =>
       /\ at[e] \in 2 .. 4 /\ mem.frame[<<e, Here(e)>>] # NoPage
       /\ pc[e] \in {"dup", "own"} => at[e] # 4
       /\ pc[e] \in {"dup", "dup0"} => pte[e] = mem.perm[<<e, Here(e)>>]
       /\ pc[e] \notin {"dup", "dup0"} => mem.frame[<<child[e], Here(e)>>] # NoPage
       /\ pc[e] = "own" => mem.perm[<<child[e], Here(e)>>] = {"COW"}
       /\ pc[e] = "utemp" => mem.perm[<<child[e], Here(e)>>] = {"W"}
  /\ pc[e] \in {"childcall", "start"} => at[e] = 5

\* What is mapped: the image of a program, of a child what the loop has passed,
\* and "tmp" only between its mapping and its unmapping.
MappedOK(e) ==
  /\ state[e] = "UP" => \A va \in {"text", "stack"} : mem.frame[<<e, va>>] # NoPage
  /\ child[e] # NoEnv =>
       \A i \in {2, 3} : i < at[e] => mem.frame[<<child[e], Order[i]>>] # NoPage
  /\ mem.frame[<<e, "tmp">>] # NoPage =>
       (fault[e] # NoVa /\ fpc[e] # "alloc") \/ pc[e] \in {"copy", "unmap"}

ProgOK(e) == PlaceOK(e) /\ SteadyOK(e) /\ LoopOK(e) /\ MappedOK(e)

\* Two programs may share a page at the same place, when neither may write it.
Plain(f, va, g, vb) ==
  va = vb /\ va # "tmp" /\ "W" \notin mem.perm[<<f, va>>] /\ "W" \notin mem.perm[<<g, vb>>]

\* A program and the child it makes share the page that is being given; after a
\* panic they go on sharing it.  pgfault() has its copy mapped twice.
Making(e, va, c, vb) ==
  /\ state[e] = "UP"
  /\ \/ pc[e] = "own" /\ c = child[e] /\ va = Here(e) /\ vb = Here(e)
     \/ pc[e] \in {"copy", "unmap"} /\ c = child[e] /\ va = "tmp" /\ vb = Here(e)
     \/ fault[e] # NoVa /\ fpc[e] = "unmap" /\ c = e /\ va = "tmp" /\ vb = fault[e]
     \/ /\ pc[e] = "panic" /\ state[c] = "EMBRYO" /\ parent[c] = e
        /\ va = vb /\ va # "tmp"

Shared(f, va, g, vb) ==
  /\ f # g \/ va # vb
  /\ mem.frame[<<f, va>>] = mem.frame[<<g, vb>>] /\ mem.frame[<<f, va>>] # NoPage
Explained(f, va, g, vb) ==
  Plain(f, va, g, vb) \/ Making(f, va, g, vb) \/ Making(g, vb, f, va)
SharingOK == \A f, g \in Env : \A va, vb \in Va :
               Shared(f, va, g, vb) => Explained(f, va, g, vb)

CowInv == CowTypeOK /\ (\A e \in Env : ProgOK(e)) /\ SharingOK

-----------------------------------------------------------------------------
(* What a system call does to the entries.                                 *)

EntriesKept == \A f \in Env, va \in Va :
  mem'.frame[<<f, va>>] = mem.frame[<<f, va>>] /\ mem'.perm[<<f, va>>] = mem.perm[<<f, va>>]

OthersKept(t, k) == \A f \in Env, va \in Va : f # t \/ va # k =>
  mem'.frame[<<f, va>>] = mem.frame[<<f, va>>] /\ mem'.perm[<<f, va>>] = mem.perm[<<f, va>>]

\* Entry k of t holds a page that nobody had.
GotFresh(t, k, perm) ==
  /\ OthersKept(t, k)
  /\ mem'.frame[<<t, k>>] # NoPage /\ mem'.perm[<<t, k>>] = perm
  /\ \A f \in Env, va \in Va : mem.frame[<<f, va>>] # mem'.frame[<<t, k>>]

\* Entry k of t holds the page of entry i of s.
GotMapped(s, i, t, k, perm) ==
  /\ OthersKept(t, k)
  /\ mem'.frame[<<t, k>>] = mem.frame[<<s, i>>] /\ mem.frame[<<s, i>>] # NoPage
  /\ mem'.perm[<<t, k>>] = perm
  /\ "W" \in perm => "W" \in mem.perm[<<s, i>>]

GotCleared(t, k) == OthersKept(t, k) /\ mem'.frame[<<t, k>>] = NoPage

GotFreed(t) ==
  /\ \A va \in Va : mem'.frame[<<t, va>>] = NoPage /\ mem'.perm[<<t, va>>] = {}
  /\ \A f \in Env \ {t}, va \in Va :
       mem'.frame[<<f, va>>] = mem.frame[<<f, va>>] /\ mem'.perm[<<f, va>>] = mem.perm[<<f, va>>]

LEMMA InsertEntries ==
  ASSUME NEW m, NEW t \in Env, NEW k \in Va, NEW p, NEW perm,
         Inserted(m, t, k, p, perm, mem'), m.frame = mem.frame, m.perm = mem.perm
  PROVE  /\ OthersKept(t, k)
         /\ mem'.frame[<<t, k>>] = p /\ mem'.perm[<<t, k>>] = perm
<1>1. ASSUME NEW f \in Env, NEW va \in Va, f # t \/ va # k
      PROVE  /\ mem'.frame[<<f, va>>] = mem.frame[<<f, va>>]
             /\ mem'.perm[<<f, va>>] = mem.perm[<<f, va>>]
  <2>1. /\ <<f, va>> \in Slot \ {<<t, k>>, <<t, TabOf[k]>>}
        /\ <<f, va>> \in Env \X Va \ {<<t, k>>}
    BY <1>1, SlotFacts
  <2> QED BY <2>1 DEF Inserted
<1> QED BY <1>1 DEF OthersKept, Inserted

LEMMA AllocEntries ==
  ASSUME MemInv, NEW t \in Env, NEW k \in Va, NEW perm \in SUBSET Bits,
         mem' = EnvPageAlloc(mem, t, k, perm)
  PROVE  IF CanAlloc(mem, t, k) THEN GotFresh(t, k, perm) ELSE EntriesKept
<1> DEFINE a == PageAlloc(mem)
<1>1. CASE mem.free = {}
  BY <1>1 DEF EnvPageAlloc, EntriesKept, CanAlloc
<1>2. CASE mem.free # {}
  <2>1. /\ Good(a) /\ NextFree(mem) \in Page /\ NextFree(mem) \in mem.free
        /\ NextFree(mem) \notin a.free
        /\ a.frame = mem.frame /\ a.perm = mem.perm
    BY <1>2, AllocGood DEF MemInv
  <2>2. CASE ~CanAlloc(mem, t, k)
    <3>1. mem' = a
      BY <1>2, <2>2 DEF EnvPageAlloc
    <3> QED BY <2>1, <2>2, <3>1 DEF EntriesKept
  <2>3. CASE CanAlloc(mem, t, k)
    <3>1. /\ mem' = PageInsert(a, t, k, NextFree(mem), perm)
          /\ CanWalk(a, t, k)
      BY <1>2, <2>3 DEF EnvPageAlloc, CanAlloc
    <3> HIDE DEF a
    <3>2. Inserted(a, t, k, NextFree(mem), perm, mem')
      BY <2>1, <3>1, InsertGood
    <3>3. /\ OthersKept(t, k)
          /\ mem'.frame[<<t, k>>] = NextFree(mem) /\ mem'.perm[<<t, k>>] = perm
      BY <2>1, <3>2, InsertEntries
    <3>4. Refs(mem, NextFree(mem)) = {}
      BY <2>1 DEF MemInv, Good, FreeUnused
    <3>5. \A f \in Env, va \in Va : mem.frame[<<f, va>>] # NextFree(mem)
      BY <3>4, SlotFacts DEF Refs
    <3>6. NextFree(mem) # NoPage
      BY <2>1, SpaceAssumption
    <3> QED BY <2>3, <3>3, <3>5, <3>6 DEF GotFresh
  <2> QED BY <2>2, <2>3
<1> QED BY <1>1, <1>2

LEMMA MapEntries ==
  ASSUME MemInv, NEW s \in Env, NEW i \in Va, NEW t \in Env, NEW k \in Va,
         NEW perm \in SUBSET Bits, mem' = EnvPageMap(mem, s, i, t, k, perm)
  PROVE  IF MayMap(mem, s, i, t, k, perm) THEN GotMapped(s, i, t, k, perm)
                                          ELSE EntriesKept
<1> DEFINE p == mem.frame[<<s, i>>]
<1>1. CASE ~MayMap(mem, s, i, t, k, perm)
  BY <1>1 DEF EnvPageMap, EntriesKept
<1>2. CASE MayMap(mem, s, i, t, k, perm)
  <2>1. /\ mem' = PageInsert(mem, t, k, p, perm) /\ CanWalk(mem, t, k) /\ p # NoPage
        /\ "W" \in perm => "W" \in mem.perm[<<s, i>>]
    BY <1>2 DEF EnvPageMap, MayMap
  <2>2. p \in Page /\ <<s, i>> \in Refs(mem, p)
    BY <2>1, SlotFacts DEF MemInv, Good, MemType, Refs
  <2>3. p \notin mem.free /\ Good(mem)
    BY <2>2 DEF MemInv, Good, FreeUnused
  <2> HIDE DEF p
  <2>4. Inserted(mem, t, k, p, perm, mem')
    BY <2>1, <2>2, <2>3, InsertGood
  <2>5. /\ OthersKept(t, k)
        /\ mem'.frame[<<t, k>>] = p /\ mem'.perm[<<t, k>>] = perm
    BY <2>4, InsertEntries
  <2> QED BY <1>2, <2>1, <2>5 DEF GotMapped, p
<1> QED BY <1>1, <1>2

LEMMA UnmapEntries ==
  ASSUME MemInv, NEW t \in Env, NEW k \in Va, mem' = PageRemove(mem, t, k)
  PROVE  GotCleared(t, k)
<1> DEFINE s == <<t, k>>
<1>1. /\ mem'.frame = [mem.frame EXCEPT ![s] = NoPage]
      /\ \A x \in Env \X Va \ {s} : mem'.perm[x] = mem.perm[x]
  BY RemoveGood DEF MemInv
<1>2. mem.frame \in [Slot -> Page \cup {NoPage}]
  BY DEF MemInv, Good, MemType
<1>3. s \in Slot
  BY SlotFacts
<1>4. mem'.frame[s] = NoPage
  BY <1>1, <1>2, <1>3
<1>5. ASSUME NEW f \in Env, NEW va \in Va, f # t \/ va # k
      PROVE  /\ mem'.frame[<<f, va>>] = mem.frame[<<f, va>>]
             /\ mem'.perm[<<f, va>>] = mem.perm[<<f, va>>]
  <2> DEFINE x == <<f, va>>
  <2>1. x \in Slot /\ x \in Env \X Va /\ x # s
    BY <1>5, SlotFacts
  <2> HIDE DEF x, s
  <2>2. mem'.frame[x] = mem.frame[x] /\ mem'.perm[x] = mem.perm[x]
    BY <1>1, <1>2, <2>1
  <2> QED BY <2>2 DEF x
<1> QED BY <1>4, <1>5 DEF GotCleared, OthersKept

\* page_remove() clears the entry, when there is one.
LEMMA UnmapCow ==
  ASSUME MemInv, NEW t \in Env, NEW k \in Va, mem' = PageRemove(mem, t, k)
  PROVE  "COW" \in mem'.perm[<<t, k>>] => "COW" \in mem.perm[<<t, k>>]
<1> DEFINE s == <<t, k>>
<1>1. CASE mem.frame[s] = NoPage
  BY <1>1 DEF PageRemove
<1>2. CASE mem.frame[s] # NoPage
  <2> DEFINE p == mem.frame[s]
  <2>1. s \in Slot /\ s \in Env \X Va /\ p \in Page /\ s \in Refs(mem, p)
    BY <1>2, SlotFacts DEF MemInv, Good, MemType, Refs
  <2>2. mem.ref[p] = Cardinality(Refs(mem, p)) /\ mem.ref[p] \in Nat /\ mem.ref[p] # 0
    BY <2>1, RefsFinite, FS_EmptySet DEF MemInv, Good, RefExact, MemType
  <2>3. mem \in MemType /\ mem.perm \in [Env \X Va -> SUBSET Bits]
    BY DEF MemInv, Good, MemType
  <2> HIDE DEF p, s
  <2>4. Cleared(mem, s, p, mem')
    BY <2>1, <2>2, <2>3, RemoveFields DEF p, s
  <2>5. mem'.perm[s] = {}
    BY <2>1, <2>3, <2>4 DEF Cleared
  <2> QED BY <2>5 DEF s
<1> QED BY <1>1, <1>2

LEMMA WriteEntries ==
  ASSUME MemInv, NEW e \in Env, NEW va \in Va, NEW v, Write(e, va, v)
  PROVE  EntriesKept
<1>1. /\ DOMAIN mem = {"free", "ref", "frame", "perm", "data"}
      /\ mem' = [mem EXCEPT !.data[mem.frame[<<e, va>>]] = v]
  BY DEF MemInv, Good, MemType, Write
<1>2. mem'.frame = mem.frame /\ mem'.perm = mem.perm
  BY <1>1
<1> QED BY <1>2 DEF EntriesKept

LEMMA FreeEntries ==
  ASSUME MemInv, NEW t \in Env, Free(t)
  PROVE  GotFreed(t)
<1>1. /\ mem'.frame = [s \in Slot |-> IF s[1] = t THEN NoPage ELSE mem.frame[s]]
      /\ mem'.perm = [s \in Env \X Va |-> IF s[1] = t THEN {} ELSE mem.perm[s]]
  BY DEF Free, EnvFree
<1>2. ASSUME NEW f \in Env, NEW va \in Va
      PROVE  /\ mem'.frame[<<f, va>>] = IF f = t THEN NoPage ELSE mem.frame[<<f, va>>]
             /\ mem'.perm[<<f, va>>] = IF f = t THEN {} ELSE mem.perm[<<f, va>>]
  <2> DEFINE x == <<f, va>>
  <2>1. x \in Slot /\ x \in Env \X Va /\ x[1] = f
    BY SlotFacts
  <2> HIDE DEF x
  <2>2. /\ mem'.frame[x] = IF f = t THEN NoPage ELSE mem.frame[x]
        /\ mem'.perm[x] = IF f = t THEN {} ELSE mem.perm[x]
    BY <1>1, <2>1
  <2> QED BY <2>2 DEF x
<1> QED BY <1>2 DEF GotFreed

LEMMA SetupEntries ==
  ASSUME MemInv, NEW c \in Env, state[c] = "FREE", mem.free # {},
         mem' = EnvSetupVm(mem, c)
  PROVE  EntriesKept
<1>1. mem.frame[<<c, "dir">>] = NoPage
  BY DEF MemInv, RootedIn
<1>2. \A s \in Slot \ {<<c, "dir">>} : mem'.frame[s] = mem.frame[s]
  BY <1>1, SetupSound DEF MemInv
<1>3. mem'.perm = mem.perm
  <2> DEFINE a == PageAlloc(mem)
  <2>1. Good(a) /\ NextFree(mem) \in Page /\ a.perm = mem.perm
    BY AllocGood DEF MemInv
  <2>2. mem' = Refer(a, <<c, "dir">>, NextFree(mem)) /\ <<c, "dir">> \in Slot
    BY DEF EnvSetupVm, Slot
  <2> HIDE DEF a
  <2>3. Refers(a, <<c, "dir">>, NextFree(mem), mem')
    BY <2>1, <2>2, ReferFields DEF Good
  <2> QED BY <2>1, <2>3 DEF Refers
<1>4. \A f \in Env, va \in Va : <<f, va>> \in Slot \ {<<c, "dir">>}
  BY SlotFacts
<1> QED BY <1>2, <1>3, <1>4 DEF EntriesKept


-----------------------------------------------------------------------------
(* The programs a step is not about.  A step of e changes e and c: the child *)
(* e is making, or a slot that is free.                                     *)

Mine(e, c) ==
  /\ e \in Env /\ state[e] = "UP" /\ pc[e] # "panic"
  /\ \/ c = child[e]
     \/ c \in Env /\ state[c] = "FREE" /\ child[e] = NoEnv

Elsewhere(e, c) ==
  \A f \in Env \ {e, c} :
    /\ pc'[f] = pc[f] /\ child'[f] = child[f] /\ at'[f] = at[f] /\ pte'[f] = pte[f]
    /\ fault'[f] = fault[f] /\ fpc'[f] = fpc[f] /\ state'[f] = state[f]
    /\ parent[f] \notin {e, c} => parent'[f] = parent[f]
    /\ \A va \in Va : /\ mem'.frame[<<f, va>>] = mem.frame[<<f, va>>]
                      /\ mem'.perm[<<f, va>>] = mem.perm[<<f, va>>]

\* Each of the two gets a page nobody had, one of theirs, or loses one.
Effect(e, c) ==
  \/ EntriesKept
  \/ \E t \in {e, c}, k \in Va :
       \/ \E perm \in SUBSET Bits : GotFresh(t, k, perm)
       \/ GotCleared(t, k)
       \/ \E s \in {e, c}, i \in Va, perm \in SUBSET Bits :
            /\ s \in Env /\ GotMapped(s, i, t, k, perm)
            /\ i = k \/ i = "tmp" \/ "W" \in mem.perm[<<s, i>>]
  \/ \E t \in {e, c} : GotFreed(t)

\* The pages of the fixed places, and the order of the loops.
LEMMA Layout ==
  /\ "tmp" \in Va /\ "text" \in Va /\ "stack" \in Va /\ "xstk" \in Va
  /\ Order[1] = "tmp" /\ Order[2] = "text" /\ Order[3] = "stack" /\ Order[4] = "xstk"
  /\ Len(Order) = 4
  /\ NoEnv \notin Env /\ NoVa \notin Va
  /\ {} \in Perms /\ {"W"} \in Perms /\ {"COW"} \in Perms
  /\ {} \in SUBSET Bits /\ {"W"} \in SUBSET Bits /\ {"COW"} \in SUBSET Bits
BY LayoutAssumption, SpaceAssumption DEF Order, Bits

\* A free slot has no entries.
LEMMA FreeEmpty ==
  ASSUME MemInv, NEW f \in Env, state[f] = "FREE", NEW va \in Va
  PROVE  mem.frame[<<f, va>>] = NoPage
<1>1. TabOf[va] \in Tab
  BY SpaceAssumption
<1>2. mem.frame[<<f, TabOf[va]>>] = NoPage
  BY <1>1 DEF MemInv, RootedIn
<1> QED BY <1>2 DEF MemInv, RootedIn, HasTable

LEMMA OthersOK ==
  ASSUME MemInv, CowInv, NEW e, NEW c, Mine(e, c), Elsewhere(e, c),
         NEW f \in Env \ {e, c}
  PROVE  ProgOK(f)'
<1> DEFINE d == child[f]
<1>1. ProgOK(f)
  BY DEF CowInv
<1>2. /\ pc'[f] = pc[f] /\ child'[f] = d /\ at'[f] = at[f] /\ pte'[f] = pte[f]
      /\ fault'[f] = fault[f] /\ fpc'[f] = fpc[f] /\ state'[f] = state[f]
      /\ \A va \in Va : /\ mem'.frame[<<f, va>>] = mem.frame[<<f, va>>]
                        /\ mem'.perm[<<f, va>>] = mem.perm[<<f, va>>]
  BY DEF Elsewhere
<1>3. ASSUME d # NoEnv
      PROVE  /\ d \in Env /\ d \notin {e, c} /\ state'[d] = "EMBRYO" /\ parent'[d] = f
             /\ \A va \in Va : /\ mem'.frame[<<d, va>>] = mem.frame[<<d, va>>]
                               /\ mem'.perm[<<d, va>>] = mem.perm[<<d, va>>]
  <2>1. d \in Env /\ state[d] = "EMBRYO" /\ parent[d] = f
    BY <1>1, <1>3 DEF ProgOK, PlaceOK, CowInv, CowTypeOK
  <2>2. c = child[e] /\ c \in Env => parent[c] = e
    BY Layout DEF CowInv, ProgOK, PlaceOK, Mine
  <2>3. d \notin {e, c} /\ f \notin {e, c}
    BY <2>1, <2>2 DEF Mine
  <2> QED BY <2>1, <2>3 DEF Elsewhere
<1>4. \A i \in 1 .. 4 : Order[i] \in Va
  BY Layout
<1> HIDE DEF d
<1>5. PlaceOK(f)'
  BY <1>1, <1>2, <1>3 DEF ProgOK, PlaceOK, d
<1>6. SteadyOK(f)'
  BY <1>1, <1>2, Layout DEF ProgOK, SteadyOK, Steady
<1>7. LoopOK(f)'
  <2>1. SUFFICES ASSUME pc[f] \in Copying
                 PROVE  LoopOK(f)'
    BY <1>1, <1>2 DEF ProgOK, LoopOK
  <2>2. at[f] \in 2 .. 4 /\ Here(f) \in Va /\ Here(f)' = Here(f)
    BY <1>1, <1>2, <1>4, <2>1 DEF ProgOK, LoopOK, Here
  <2>3. d # NoEnv
    BY <1>1, <2>1 DEF ProgOK, PlaceOK, Copying, Forking, d
  <2>4. /\ mem'.frame[<<f, Here(f)>>] = mem.frame[<<f, Here(f)>>]
        /\ mem'.perm[<<f, Here(f)>>] = mem.perm[<<f, Here(f)>>]
        /\ mem'.frame[<<d, Here(f)>>] = mem.frame[<<d, Here(f)>>]
        /\ mem'.perm[<<d, Here(f)>>] = mem.perm[<<d, Here(f)>>]
    BY <1>2, <1>3, <2>2, <2>3
  <2> QED BY <1>1, <1>2, <2>2, <2>4 DEF ProgOK, LoopOK, d
<1>8. MappedOK(f)'
  <2>1. child'[f] # NoEnv =>
          \A i \in {2, 3} : i < at'[f] => mem'.frame[<<child'[f], Order[i]>>] # NoPage
    <3> SUFFICES ASSUME d # NoEnv, NEW i \in {2, 3}, i < at[f]
                 PROVE  mem'.frame[<<d, Order[i]>>] # NoPage
      BY <1>2
    <3>1. mem.frame[<<d, Order[i]>>] # NoPage /\ Order[i] \in Va
      BY <1>1, <1>4 DEF ProgOK, MappedOK, d
    <3> QED BY <1>3, <3>1
  <2> QED BY <1>1, <1>2, <2>1, Layout DEF ProgOK, MappedOK
<1> QED BY <1>5, <1>6, <1>7, <1>8 DEF ProgOK

\* The embryo is as it was made, its "tmp" empty, whatever else it has got.
LEMMA ChildOK ==
  ASSUME MemInv, CowInv, NEW e, NEW c \in Env, Mine(e, c),
         state'[c] = "UP" => \A va \in {"text", "stack"} : mem'.frame[<<c, va>>] # NoPage,
         pc'[c] = "user", child'[c] = child[c], at'[c] = at[c],
         fault'[c] = fault[c], fpc'[c] = fpc[c],
         mem'.frame[<<c, "tmp">>] = NoPage
  PROVE  ProgOK(c)'
<1>1. state[c] # "UP"
  BY Layout DEF Mine, CowInv, ProgOK, PlaceOK
<1>2. /\ pc[c] = "user" /\ fault[c] = NoVa /\ child[c] = NoEnv /\ at[c] = 1 /\ fpc[c] = "alloc"
  BY <1>1 DEF CowInv, ProgOK, PlaceOK, Forking
<1>3. PlaceOK(c)'
  BY <1>2 DEF PlaceOK, Forking
<1>4. SteadyOK(c)' /\ LoopOK(c)'
  BY <1>2 DEF SteadyOK, Steady, LoopOK, Copying
<1>5. MappedOK(c)'
  BY <1>2 DEF MappedOK
<1> QED BY <1>3, <1>4, <1>5 DEF ProgOK

-----------------------------------------------------------------------------
(* Sharing with the programs a step is not about.                           *)

LEMMA FarPlain ==
  ASSUME MemInv, CowInv, NEW e, NEW c, Mine(e, c), NEW f \in {e, c}, f \in Env,
         NEW g \in Env \ {e, c}, NEW va \in Va, NEW vb \in Va, Shared(f, va, g, vb)
  PROVE  Plain(f, va, g, vb)
<1>1. c = child[e] => c = NoEnv \/ (state[c] = "EMBRYO" /\ parent[c] = e)
  BY DEF Mine, CowInv, ProgOK, PlaceOK
<1>2. ~Making(f, va, g, vb)
  <2>1. f = c => state[f] # "UP"
    BY <1>1, Layout DEF Mine
  <2>2. f = e => pc[e] # "panic" /\ g # child[e] /\ g # e
    BY <1>1, Layout DEF Mine, Shared, FreeEmpty
  <2> QED BY <2>1, <2>2 DEF Making
<1>3. ~Making(g, vb, f, va)
  <2>1. child[g] # NoEnv => state[child[g]] = "EMBRYO" /\ parent[child[g]] = g
    BY DEF CowInv, ProgOK, PlaceOK
  <2>2. child[g] # f /\ g # f /\ ~(state[f] = "EMBRYO" /\ parent[f] = g)
    BY <1>1, <2>1, Layout DEF Mine
  <2> QED BY <2>2 DEF Making
<1> QED BY <1>2, <1>3 DEF CowInv, SharingOK, Explained


LEMMA FarPairs ==
  ASSUME MemInv, CowInv, NEW e, NEW c, Mine(e, c), Elsewhere(e, c), Effect(e, c),
         NEW f \in {e, c}, f \in Env, NEW g \in Env \ {e, c},
         NEW va \in Va, NEW vb \in Va, Shared(f, va, g, vb)'
  PROVE  Plain(f, va, g, vb)'
<1>1. /\ mem'.frame[<<g, vb>>] = mem.frame[<<g, vb>>]
      /\ mem'.perm[<<g, vb>>] = mem.perm[<<g, vb>>]
      /\ mem'.frame[<<f, va>>] = mem.frame[<<g, vb>>] /\ mem.frame[<<g, vb>>] # NoPage
      /\ g \in Env /\ f # g
  BY DEF Elsewhere, Shared
<1>2. CASE /\ mem'.frame[<<f, va>>] = mem.frame[<<f, va>>]
           /\ mem'.perm[<<f, va>>] = mem.perm[<<f, va>>]
  <2>1. Shared(f, va, g, vb)
    BY <1>1, <1>2 DEF Shared
  <2> QED BY <1>1, <1>2, <2>1, FarPlain DEF Plain
<1>3. ASSUME NEW t \in {e, c}, NEW k \in Va, OthersKept(t, k), ~(f = t /\ va = k)
      PROVE  Plain(f, va, g, vb)'
  BY <1>2, <1>3 DEF OthersKept
<1>4. ASSUME NEW perm, GotFresh(f, va, perm) PROVE FALSE
  BY <1>1, <1>4 DEF GotFresh
<1>5. ASSUME GotCleared(f, va) PROVE FALSE
  BY <1>1, <1>5 DEF GotCleared
<1>6. ASSUME NEW s \in {e, c}, NEW i \in Va, NEW perm, s \in Env,
             GotMapped(s, i, f, va, perm),
             i = va \/ i = "tmp" \/ "W" \in mem.perm[<<s, i>>]
      PROVE  Plain(f, va, g, vb)'
  <2>1. Shared(s, i, g, vb)
    BY <1>1, <1>6 DEF GotMapped, Shared
  <2>2. Plain(s, i, g, vb)
    BY <1>6, <2>1, FarPlain
  <2> QED BY <1>1, <1>6, <2>2 DEF GotMapped, Plain
<1>7. ASSUME NEW t \in {e, c}, GotFreed(t) PROVE Plain(f, va, g, vb)'
  <2>1. f # t
    BY <1>1, <1>7 DEF GotFreed
  <2> QED BY <1>2, <1>7, <2>1 DEF GotFreed
<1>8. CASE EntriesKept
  BY <1>2, <1>8 DEF EntriesKept
<1>9. ASSUME NEW t \in {e, c}, NEW k \in Va,
             \/ \E perm \in SUBSET Bits : GotFresh(t, k, perm)
             \/ GotCleared(t, k)
             \/ \E s \in {e, c}, i \in Va, perm \in SUBSET Bits :
                  /\ s \in Env /\ GotMapped(s, i, t, k, perm)
                  /\ i = k \/ i = "tmp" \/ "W" \in mem.perm[<<s, i>>]
      PROVE  Plain(f, va, g, vb)'
  <2>1. OthersKept(t, k)
    BY <1>9 DEF GotFresh, GotCleared, GotMapped
  <2>2. CASE ~(f = t /\ va = k)
    BY <1>3, <2>1, <2>2
  <2>3. CASE f = t /\ va = k
    BY <1>4, <1>5, <1>6, <1>9, <2>3
  <2> QED BY <2>2, <2>3
<1> QED BY <1>7, <1>8, <1>9 DEF Effect

LEMMA ElsewherePairs ==
  ASSUME MemInv, CowInv, NEW e, NEW c, Mine(e, c), Elsewhere(e, c),
         NEW f \in Env \ {e, c}, NEW g \in Env \ {e, c},
         NEW va \in Va, NEW vb \in Va, Shared(f, va, g, vb)'
  PROVE  Explained(f, va, g, vb)'
<1>1. ASSUME NEW x \in Env \ {e, c}
      PROVE  /\ pc'[x] = pc[x] /\ child'[x] = child[x] /\ Here(x)' = Here(x)
             /\ fault'[x] = fault[x] /\ fpc'[x] = fpc[x] /\ state'[x] = state[x]
             /\ parent[x] \notin {e, c} => parent'[x] = parent[x]
             /\ \A i \in Va : /\ mem'.frame[<<x, i>>] = mem.frame[<<x, i>>]
                              /\ mem'.perm[<<x, i>>] = mem.perm[<<x, i>>]
  BY DEF Elsewhere, Here
<1>2. Shared(f, va, g, vb)
  BY <1>1 DEF Shared
<1>3. Explained(f, va, g, vb)
  BY <1>2 DEF CowInv, SharingOK
<1>4. CASE Plain(f, va, g, vb)
  BY <1>1, <1>4 DEF Plain, Explained
<1>5. CASE Making(f, va, g, vb)
  <2>1. Making(f, va, g, vb)'
    BY <1>1, <1>5 DEF Making
  <2> QED BY <2>1 DEF Explained
<1>6. CASE Making(g, vb, f, va)
  <2>1. Making(g, vb, f, va)'
    BY <1>1, <1>6 DEF Making
  <2> QED BY <2>1 DEF Explained
<1> QED BY <1>3, <1>4, <1>5, <1>6 DEF Explained

LEMMA Symmetric ==
  ASSUME NEW f, NEW va, NEW g, NEW vb
  PROVE  /\ Shared(f, va, g, vb)' <=> Shared(g, vb, f, va)'
         /\ Plain(f, va, g, vb)' <=> Plain(g, vb, f, va)'
         /\ Explained(f, va, g, vb)' <=> Explained(g, vb, f, va)'
BY DEF Shared, Plain, Explained

\* What is left to show of a step: the two it is about, and the pages they share.
Inside(e, c) ==
  \A f, g \in {e, c} : f \in Env /\ g \in Env =>
    \A va, vb \in Va : Shared(f, va, g, vb) => Explained(f, va, g, vb)

LEMMA Compose ==
  ASSUME MemInv, CowInv, CowTypeOK', NEW e, NEW c, Mine(e, c), Elsewhere(e, c),
         Effect(e, c), ProgOK(e)', c \in Env => ProgOK(c)', Inside(e, c)'
  PROVE  CowInv'
<1>1. \A f \in Env : ProgOK(f)'
  BY OthersOK
<1>2. SharingOK'
  <2> SUFFICES ASSUME NEW f \in Env, NEW g \in Env, NEW va \in Va, NEW vb \in Va,
                      Shared(f, va, g, vb)'
               PROVE  Explained(f, va, g, vb)'
    BY DEF SharingOK
  <2>1. CASE f \in {e, c} /\ g \in {e, c}
    BY <2>1 DEF Inside
  <2>2. CASE f \in {e, c} /\ g \notin {e, c}
    <3>1. Plain(f, va, g, vb)'
      BY <2>2, FarPairs
    <3> QED BY <3>1 DEF Explained
  <2>3. CASE f \notin {e, c} /\ g \in {e, c}
    <3>1. Shared(g, vb, f, va)'
      BY Symmetric
    <3>2. Plain(g, vb, f, va)'
      BY <2>3, <3>1, FarPairs
    <3> QED BY <3>2, Symmetric DEF Explained
  <2>4. CASE f \notin {e, c} /\ g \notin {e, c}
    BY <2>4, ElsewherePairs
  <2> QED BY <2>1, <2>2, <2>3, <2>4
<1> QED BY <1>1, <1>2 DEF CowInv


-----------------------------------------------------------------------------
(* The pages that the two share.                                            *)

Quiet(e) == pc[e] \notin {"own", "copy", "unmap"} /\ (fault[e] = NoVa \/ fpc[e] # "unmap")

LEMMA OnlyMaker ==
  ASSUME CowInv, NEW e, NEW c, Mine(e, c), NEW f \in {e, c}, f \in Env,
         NEW va, NEW g, NEW vb, Making(f, va, g, vb)
  PROVE  f = e /\ ~Quiet(e) /\ pc[e] # "panic"
<1>1. f = c => state[f] # "UP"
  BY Layout DEF Mine, CowInv, ProgOK, PlaceOK
<1>2. f = e
  BY <1>1 DEF Making
<1> QED BY <1>2 DEF Mine, Making, Quiet

\* No program has a page twice, but for the copy of pgfault().
LEMMA QuietPlain ==
  ASSUME CowInv, NEW e, NEW c, Mine(e, c), Quiet(e),
         NEW f \in {e, c}, NEW g \in {e, c}, f \in Env, g \in Env,
         NEW va \in Va, NEW vb \in Va, Shared(f, va, g, vb)
  PROVE  Plain(f, va, g, vb) /\ f # g
<1>1. ~Making(f, va, g, vb) /\ ~Making(g, vb, f, va)
  BY OnlyMaker
<1> QED BY <1>1 DEF CowInv, SharingOK, Explained, Shared, Plain

LEMMA KeptInside ==
  ASSUME CowInv, NEW e, NEW c, Mine(e, c), EntriesKept,
         Quiet(e) \/ \A g \in Env, va, vb \in Va :
                       Making(e, va, g, vb) => Making(e, va, g, vb)'
  PROVE  Inside(e, c)'
<1> SUFFICES ASSUME NEW f \in {e, c}, NEW g \in {e, c}, f \in Env, g \in Env,
                    NEW va \in Va, NEW vb \in Va, Shared(f, va, g, vb)'
             PROVE  Explained(f, va, g, vb)'
  BY DEF Inside
<1>1. Shared(f, va, g, vb)
  BY DEF Shared, EntriesKept
<1>2. Plain(f, va, g, vb) => Plain(f, va, g, vb)'
  BY DEF Plain, EntriesKept
<1>3. Making(f, va, g, vb) => Making(f, va, g, vb)'
  BY OnlyMaker
<1>4. Making(g, vb, f, va) => Making(g, vb, f, va)'
  BY OnlyMaker
<1> QED BY <1>1, <1>2, <1>3, <1>4 DEF CowInv, SharingOK, Explained

\* One entry k of t changes: what it shares has to be looked at.
LEMMA ChangedInside ==
  ASSUME CowInv, NEW e, NEW c, Mine(e, c), NEW t \in {e, c}, t \in Env, NEW k \in Va,
         OthersKept(t, k),
         Quiet(e) \/ \A g \in Env, va, vb \in Va :
                       Making(e, va, g, vb) => (e = t /\ va = k) \/ (g = t /\ vb = k),
         \A g \in Env, vb \in Va :
            g \in {e, c} /\ Shared(t, k, g, vb)' => Explained(t, k, g, vb)'
  PROVE  Inside(e, c)'
<1> SUFFICES ASSUME NEW f \in {e, c}, NEW g \in {e, c}, f \in Env, g \in Env,
                    NEW va \in Va, NEW vb \in Va, Shared(f, va, g, vb)'
             PROVE  Explained(f, va, g, vb)'
  BY DEF Inside
<1>1. CASE f = t /\ va = k
  BY <1>1
<1>2. CASE g = t /\ vb = k
  BY <1>2, Symmetric
<1>3. CASE ~(f = t /\ va = k) /\ ~(g = t /\ vb = k)
  <2>1. /\ mem'.frame[<<f, va>>] = mem.frame[<<f, va>>]
        /\ mem'.perm[<<f, va>>] = mem.perm[<<f, va>>]
        /\ mem'.frame[<<g, vb>>] = mem.frame[<<g, vb>>]
        /\ mem'.perm[<<g, vb>>] = mem.perm[<<g, vb>>]
    BY <1>3 DEF OthersKept
  <2>2. Shared(f, va, g, vb)
    BY <2>1 DEF Shared
  <2>3. ~Making(f, va, g, vb) /\ ~Making(g, vb, f, va)
    BY <1>3, OnlyMaker
  <2>4. Plain(f, va, g, vb)
    BY <2>2, <2>3 DEF CowInv, SharingOK, Explained
  <2> QED BY <2>1, <2>4 DEF Plain, Explained
<1> QED BY <1>1, <1>2, <1>3

LEMMA FreshInside ==
  ASSUME CowInv, NEW e, NEW c, Mine(e, c), NEW t \in {e, c}, t \in Env, NEW k \in Va,
         NEW perm, GotFresh(t, k, perm), Quiet(e)
  PROVE  Inside(e, c)'
<1>1. ASSUME NEW g \in Env, NEW vb \in Va, Shared(t, k, g, vb)' PROVE FALSE
  BY <1>1 DEF GotFresh, OthersKept, Shared
<1>2. OthersKept(t, k)
  BY DEF GotFresh
<1> QED BY <1>1, <1>2, ChangedInside

\* Of the two, one is freed.
LEMMA FreedInside ==
  ASSUME CowInv, NEW e, NEW c, Mine(e, c), NEW t \in {e, c}, t \in Env, GotFreed(t),
         t = e \/ Quiet(e)
  PROVE  Inside(e, c)'
<1> SUFFICES ASSUME NEW f \in {e, c}, NEW g \in {e, c}, f \in Env, g \in Env,
                    NEW va \in Va, NEW vb \in Va, Shared(f, va, g, vb)'
             PROVE  FALSE
  BY DEF Inside
<1>1. f # t /\ g # t /\ f = g
  BY DEF GotFreed, Shared
<1>2. Shared(f, va, g, vb)
  BY <1>1 DEF GotFreed, Shared
<1>3. ~Plain(f, va, g, vb)
  BY <1>1, <1>2 DEF Shared, Plain
<1>4. ~Making(f, va, g, vb) /\ ~Making(g, vb, f, va)
  BY <1>1, OnlyMaker
<1> QED BY <1>2, <1>3, <1>4 DEF CowInv, SharingOK, Explained


-----------------------------------------------------------------------------
(* A program of CowFork only calls the kernel.                              *)

\* What e works on while it copies pages.
LEMMA AtWork ==
  ASSUME MemInv, CowInv, NEW e \in Env, Up(e), pc[e] \in Forking \ {"start"}
  PROVE  /\ child[e] \in Env /\ child[e] # e /\ Mine(e, child[e])
         /\ state[child[e]] = "EMBRYO" /\ parent[child[e]] = e
         /\ Named(e, e) /\ Named(e, child[e])
         /\ pc[child[e]] = "user" /\ fault[child[e]] = NoVa
         /\ child[child[e]] = NoEnv
         /\ mem.frame[<<child[e], "tmp">>] = NoPage
<1>1. child[e] \in Env /\ state[child[e]] = "EMBRYO" /\ parent[child[e]] = e
  BY DEF CowInv, CowTypeOK, ProgOK, PlaceOK
<1>2. ProgOK(child[e]) /\ state[e] = "UP"
  BY <1>1 DEF CowInv, Up
<1>3. /\ pc[child[e]] = "user" /\ fault[child[e]] = NoVa /\ child[child[e]] = NoEnv
      /\ mem.frame[<<child[e], "tmp">>] = NoPage
  BY <1>1, <1>2 DEF ProgOK, PlaceOK, MappedOK, Forking
<1>4. pc[e] # "panic"
  BY DEF Forking
<1> QED BY <1>1, <1>2, <1>3, <1>4 DEF Mine, Named

LEMMA AtPage ==
  ASSUME CowInv, NEW e \in Env, pc[e] \in Copying
  PROVE  /\ Here(e) \in Va /\ Here(e) # "tmp" /\ at[e] \in 2 .. 4
         /\ pc[e] \in Forking \ {"start"}
         /\ fault[e] = NoVa /\ mem.frame[<<e, Here(e)>>] # NoPage
<1>1. at[e] \in 2 .. 4 /\ fault[e] = NoVa /\ mem.frame[<<e, Here(e)>>] # NoPage
  BY DEF CowInv, ProgOK, SteadyOK, Steady, LoopOK
<1>2. Here(e) \in Va /\ Here(e) # "tmp"
  <2>1. at[e] = 2 \/ at[e] = 3 \/ at[e] = 4
    BY <1>1
  <2>2. "text" # "tmp" /\ "stack" # "tmp" /\ "xstk" # "tmp"
    OBVIOUS
  <2> QED BY <2>1, <2>2, Layout DEF Here
<1> QED BY <1>1, <1>2 DEF Copying, Forking

LEMMA CallsMap ==
  ASSUME NEW e \in Env, NEW s \in Env, NEW d \in Env, NEW i \in Va, NEW k \in Va,
         NEW perm \in {{}, {"W"}, {"COW"}}, NEW place,
         MapStep(e, s, i, d, k, perm, place)
  PROVE  Acts(e)
<1>1. perm \in Perms /\ SysPageMap(e, s, i, d, k, perm)
  BY Layout DEF MapStep
<1> QED BY <1>1 DEF Acts

LEMMA CallsAlloc ==
  ASSUME NEW e \in Env, NEW t \in Env, NEW k \in Va, SysPageAlloc(e, t, k, {"W"})
  PROVE  Acts(e)
<1>1. {"W"} \in Perms
  BY Layout
<1> QED BY <1>1 DEF Acts

LEMMA RunsCall ==
  ASSUME MemInv, CowInv, NEW e \in Env, Runs(e)
  PROVE  Acts(e) \/ UNCHANGED memVars
<1>1. ASSUME Gone(e), Up(e) PROVE Acts(e)
  <2>1. SysEnvDestroy(e, e)
    BY <1>1 DEF Gone, SysEnvDestroy, Named
  <2> QED BY <2>1 DEF Acts
<1>2. CASE Exit(e)
  BY <1>1, <1>2 DEF Exit, At
<1>3. CASE ForkCall(e) \/ HandlerUpcall(e) \/ ExoforkFails(e) \/ SkipPage(e) \/ ReadPte(e)
  BY <1>3 DEF ForkCall, HandlerUpcall, ExoforkFails, SkipPage, ReadPte
<1>4. CASE HandlerAlloc(e) \/ PgfaultAlloc(e)
  BY <1>4, CallsAlloc, Layout DEF HandlerAlloc, PgfaultAlloc
<1>5. ASSUME NEW va \in Va, PageFault(e, va) PROVE Acts(e) \/ UNCHANGED memVars
  BY <1>1, <1>5 DEF PageFault
<1>6. ASSUME NEW va \in Va, NEW v \in Value, UserWrite(e, va, v) PROVE Acts(e)
  BY <1>6 DEF UserWrite, Acts
<1>7. ASSUME NEW va \in Va, mem.frame[<<e, va>>] # NoPage
      PROVE  mem.data[mem.frame[<<e, va>>]] \in Value
  <2>1. mem.frame[<<e, va>>] \in Page
    BY <1>7, SlotFacts DEF MemInv, Good, MemType
  <2> QED BY <2>1 DEF MemInv, Good, MemType
<1>8. CASE PgfaultCopy(e)
  <2>1. InFault(e, "copy") /\ Write(e, "tmp", mem.data[mem.frame[<<e, fault[e]>>]])
    BY <1>8 DEF PgfaultCopy
  <2>2. fault[e] \in {"text", "stack"} /\ mem.frame[<<e, fault[e]>>] # NoPage
    BY <2>1 DEF InFault, Up, CowInv, CowTypeOK, ProgOK, MappedOK
  <2>3. fault[e] \in Va /\ mem.data[mem.frame[<<e, fault[e]>>]] \in Value
    BY <2>2, <1>7, Layout
  <2> QED BY <2>1, <2>3, Layout DEF Acts
<1>9. CASE PgfaultMap(e)
  <2>1. SysPageMap(e, e, "tmp", e, fault[e], {"W"}) /\ InFault(e, "map")
    BY <1>9 DEF PgfaultMap
  <2>2. fault[e] \in Va /\ {"W"} \in Perms /\ "tmp" \in Va
    BY <2>1, Layout DEF InFault, CowInv, CowTypeOK
  <2> QED BY <2>1, <2>2 DEF Acts
<1>10. CASE PgfaultUnmap(e) \/ UnmapV0(e)
  BY <1>10, Layout DEF PgfaultUnmap, UnmapV0, Acts
<1>11. ASSUME NEW c \in Env, Exofork(e, c) PROVE Acts(e)
  BY <1>11 DEF Exofork, Acts
<1>12. ASSUME At(e, "dup") \/ At(e, "own") \/ At(e, "dup0") \/ At(e, "utemp") \/ At(e, "copy")
       PROVE  child[e] \in Env /\ Here(e) \in Va /\ mem.frame[<<e, Here(e)>>] # NoPage
  <2>1. pc[e] \in Copying /\ Up(e)
    BY <1>12 DEF At, Copying
  <2>2. pc[e] \in Forking \ {"start"}
    BY <2>1, AtPage
  <2> QED BY <2>1, <2>2, AtPage, AtWork
<1>13. CASE DupChild(e)
  BY <1>12, <1>13, CallsMap DEF DupChild, Into, At
<1>14. CASE DupOwn(e)
  BY <1>12, <1>14, CallsMap DEF DupOwn, Into, At
<1>15. CASE ShareV0(e)
  BY <1>12, <1>15, CallsMap DEF ShareV0
<1>16. CASE AllocV0(e)
  BY <1>12, <1>16, CallsAlloc DEF AllocV0
<1>17. CASE MapV0(e)
  BY <1>12, <1>17, CallsMap, Layout DEF MapV0
<1>18. CASE CopyV0(e)
  <2>1. At(e, "copy") /\ Write(e, "tmp", mem.data[mem.frame[<<e, Here(e)>>]])
    BY <1>18 DEF CopyV0
  <2>2. mem.data[mem.frame[<<e, Here(e)>>]] \in Value
    BY <2>1, <1>7, <1>12
  <2> QED BY <2>1, <2>2, Layout DEF Acts
<1>19. ASSUME At(e, "page") \/ At(e, "childcall")
       PROVE  child[e] \in Env /\ Named(e, child[e]) /\ Up(e)
  BY <1>19, AtWork DEF At, Forking
<1>20. CASE ChildStack(e)
  BY <1>19, <1>20, CallsAlloc, Layout DEF ChildStack
<1>21. CASE ChildUpcall(e)
  <2>1. CASE UNCHANGED memVars
    BY <2>1
  <2>2. CASE Free(child[e])
    <3>1. SysEnvDestroy(e, child[e]) /\ child[e] \in Env
      BY <1>19, <1>21, <2>2 DEF ChildUpcall, SysEnvDestroy
    <3> QED BY <3>1 DEF Acts
  <2> QED BY <1>21, <2>1, <2>2 DEF ChildUpcall
<1>22. CASE Start(e)
  <2>1. CASE UNCHANGED memVars
    BY <2>1
  <2>2. CASE child[e] # NoEnv /\ SysEnvStart(e, child[e])
    <3>1. child[e] \in Env
      BY <2>2 DEF CowInv, CowTypeOK
    <3> QED BY <2>2, <3>1 DEF Acts
  <2>3. CASE child[e] = NoEnv /\ UserPanic(e)
    BY <1>22, <2>3 DEF Start
  <2> QED BY <1>22, <2>1, <2>2, <2>3 DEF Start
<1> QED BY <1>2, <1>3, <1>4, <1>5, <1>6, <1>8, <1>9, <1>10, <1>11, <1>13, <1>14, <1>15,
           <1>16, <1>17, <1>18, <1>20, <1>21, <1>22 DEF Runs


\* Every step of CowFork is one of Memory, or leaves the memory alone.
LEMMA CowCalls == MemInv /\ CowInv /\ [CowNext]_cowVars => [Next]_memVars
<1> SUFFICES ASSUME MemInv, CowInv, [CowNext]_cowVars PROVE Next \/ UNCHANGED memVars
  OBVIOUS
<1>1. CASE UNCHANGED cowVars
  BY <1>1 DEF cowVars
<1>2. CASE CowBoot
  BY <1>2 DEF CowBoot, Next
<1>3. CASE CowStopped
  BY <1>3 DEF CowStopped, cowVars
<1>4. ASSUME NEW e \in Env, Runs(e) PROVE Next \/ UNCHANGED memVars
  BY <1>4, RunsCall DEF Next
<1> QED BY <1>1, <1>2, <1>3, <1>4 DEF CowNext

-----------------------------------------------------------------------------
(* The variables of the programs keep their types.                          *)

LEMMA LeaveType ==
  ASSUME CowTypeOK, NEW e \in Env, Leave(e)
  PROVE  /\ child' \in [Env -> Env \cup {NoEnv}] /\ at' \in [Env -> 1 .. 5]
         /\ pte' \in [Env -> SUBSET Bits] /\ fault' \in [Env -> {"text", "stack", NoVa}]
         /\ fpc' \in [Env -> {"alloc", "copy", "map", "unmap"}]
BY DEF CowTypeOK, Leave

LEMMA PanicType ==
  ASSUME CowTypeOK, NEW e \in Env, UserPanic(e), UNCHANGED fixVars
  PROVE  CowTypeOK'
<1>1. /\ child' \in [Env -> Env \cup {NoEnv}] /\ at' \in [Env -> 1 .. 5]
      /\ pte' \in [Env -> SUBSET Bits] /\ fault' \in [Env -> {"text", "stack", NoVa}]
      /\ fpc' \in [Env -> {"alloc", "copy", "map", "unmap"}]
  BY LeaveType DEF UserPanic
<1>2. pc' \in [Env -> Places]
  BY DEF UserPanic, Goto, CowTypeOK, Places
<1> QED BY <1>1, <1>2 DEF CowTypeOK, UserPanic, fixVars

LEMMA GoneType ==
  ASSUME CowTypeOK, NEW e \in Env, Gone(e), UNCHANGED fixVars
  PROVE  CowTypeOK'
<1>1. /\ child' \in [Env -> Env \cup {NoEnv}] /\ at' \in [Env -> 1 .. 5]
      /\ pte' \in [Env -> SUBSET Bits] /\ fault' \in [Env -> {"text", "stack", NoVa}]
      /\ fpc' \in [Env -> {"alloc", "copy", "map", "unmap"}]
  BY LeaveType DEF Gone
<1>2. pc' \in [Env -> Places] /\ hand' \in [Env -> BOOLEAN]
  BY DEF Gone, Goto, CowTypeOK, Places
<1> QED BY <1>1, <1>2 DEF CowTypeOK, Gone, fixVars

\* A step that goes to another place, and perhaps to the next page.
LEMMA GotoType ==
  ASSUME CowTypeOK, NEW e \in Env, NEW place \in Places, Goto(e, place),
         UNCHANGED <<fixVars, child, fault, fpc, hand, upcall>>, starved' \in BOOLEAN,
         \/ UNCHANGED <<at, pte>>
         \/ UNCHANGED at /\ pte' \in [Env -> SUBSET Bits]
         \/ NextPage(e, place) /\ at[e] <= 4
  PROVE  CowTypeOK'
<1>1. pc' \in [Env -> Places]
  BY DEF Goto, CowTypeOK
<1>2. CASE UNCHANGED at /\ pte' \in [Env -> SUBSET Bits]
  BY <1>1, <1>2 DEF CowTypeOK, fixVars
<1>3. CASE NextPage(e, place) /\ at[e] <= 4
  <2>1. at' \in [Env -> 1 .. 5] /\ pte' \in [Env -> SUBSET Bits]
    BY <1>3 DEF NextPage, CowTypeOK
  <2> QED BY <1>1, <2>1 DEF CowTypeOK, fixVars
<1> QED BY <1>2, <1>3 DEF CowTypeOK

LEMMA MapStepType ==
  ASSUME CowInv, NEW e \in Env, pc[e] \in Copying, NEW place \in Places,
         NEW s, NEW i, NEW d, NEW k, NEW perm, MapStep(e, s, i, d, k, perm, place)
  PROVE  CowTypeOK'
<1>0. at[e] \in 2 .. 4
  BY AtPage
<1>1. at[e] <= 4 /\ CowTypeOK
  BY <1>0 DEF CowInv
<1>2. CASE UserPanic(e) /\ UNCHANGED fixVars
  BY <1>1, <1>2, PanicType
<1>3. CASE ~UserPanic(e)
  <2>1. /\ IF place \in {"page", "page0"} THEN NextPage(e, place)
           ELSE Goto(e, place) /\ UNCHANGED <<at, pte>>
        /\ UNCHANGED <<child, fault, fpc, hand, upcall, starved>>
        /\ UNCHANGED fixVars
    BY <1>3 DEF MapStep
  <2>2. Goto(e, place) /\ starved' \in BOOLEAN
    BY <1>1, <2>1 DEF NextPage, CowTypeOK
  <2> QED BY <1>1, <2>1, <2>2, GotoType
<1> QED BY <1>2, <1>3 DEF MapStep

LEMMA RunsType ==
  ASSUME MemInv, CowInv, NEW e \in Env, Runs(e)
  PROVE  CowTypeOK'
<1>1. CowTypeOK
  BY DEF CowInv
<1>2. CASE Exit(e)
  BY <1>1, <1>2, GoneType DEF Exit
<1>3. CASE ForkCall(e)
  BY <1>1, <1>3 DEF ForkCall, Goto, CowTypeOK, Places, fixVars
<1>4. CASE HandlerAlloc(e)
  BY <1>1, <1>4, GotoType DEF HandlerAlloc, Places, Forking, fixVars, CowTypeOK
<1>5. CASE HandlerUpcall(e)
  BY <1>1, <1>5 DEF HandlerUpcall, Goto, CowTypeOK, Places, fixVars
<1>6. ASSUME NEW va \in Va, PageFault(e, va) PROVE CowTypeOK'
  <2>1. CASE Gone(e)
    BY <1>1, <1>6, <2>1, GoneType DEF PageFault
  <2>2. CASE ~Gone(e)
    <3>1. va \in {"text", "stack"}
      BY <1>6 DEF PageFault, Writes
    <3> QED BY <1>1, <1>6, <2>2, <3>1 DEF PageFault, CowTypeOK, fixVars
  <2> QED BY <2>1, <2>2
<1>7. ASSUME NEW va, NEW v, UserWrite(e, va, v) PROVE CowTypeOK'
  BY <1>1, <1>7 DEF UserWrite, CowTypeOK, fixVars, progVars
<1>8. CASE PgfaultAlloc(e)
  <2>1. CASE UserPanic(e)
    BY <1>1, <1>8, <2>1, PanicType DEF PgfaultAlloc
  <2>2. CASE ~UserPanic(e)
    BY <1>1, <1>8, <2>2 DEF PgfaultAlloc, CowTypeOK, fixVars
  <2> QED BY <2>1, <2>2
<1>9. CASE PgfaultCopy(e) \/ PgfaultMap(e) \/ PgfaultUnmap(e)
  BY <1>1, <1>9 DEF PgfaultCopy, PgfaultMap, PgfaultUnmap, CowTypeOK, fixVars
<1>10. ASSUME NEW c \in Env, Exofork(e, c) PROVE CowTypeOK'
  <2>1. pc' \in [Env -> Places]
    BY <1>1, <1>10 DEF Exofork, Loops, Goto, CowTypeOK, Places, Forking
  <2> QED BY <1>1, <1>10, <2>1 DEF Exofork, CowTypeOK, fixVars
<1>11. CASE ExoforkFails(e)
  BY <1>1, <1>11, PanicType DEF ExoforkFails
<1>12. CASE SkipPage(e)
  <2>1. at[e] <= 4
    BY <1>1, <1>12, Layout DEF SkipPage, Done, CowTypeOK
  <2>2. pc[e] \in Places /\ NextPage(e, pc[e]) /\ Goto(e, pc[e])
    BY <1>1, <1>12 DEF SkipPage, CowTypeOK, NextPage
  <2> QED BY <1>1, <1>12, <2>1, <2>2, GotoType DEF SkipPage, CowTypeOK
<1>13. CASE ReadPte(e)
  <2>1. at[e] \in 1 .. 4
    BY <1>1, <1>13, Layout DEF ReadPte, Done, CowTypeOK
  <2>2. Here(e) \in Va
    BY <2>1, Layout DEF Here
  <2>3. mem.perm[<<e, Here(e)>>] \in SUBSET Bits
    BY <2>2, SlotFacts DEF MemInv, Good, MemType
  <2>4. pte' \in [Env -> SUBSET Bits]
    BY <1>1, <1>13, <2>3 DEF ReadPte, CowTypeOK
  <2>5. pc' \in [Env -> Places]
    BY <1>1, <1>13 DEF ReadPte, Goto, CowTypeOK, Places, Forking
  <2> QED BY <1>1, <1>13, <2>4, <2>5 DEF ReadPte, CowTypeOK, fixVars
<1>14. CASE DupChild(e)
  BY <1>14, MapStepType DEF DupChild, At, Copying, Places, Forking
<1>15. CASE DupOwn(e)
  BY <1>15, MapStepType DEF DupOwn, At, Copying, Places, Forking
<1>16. CASE ShareV0(e)
  BY <1>16, MapStepType DEF ShareV0, At, Copying, Places, Forking
<1>17. CASE MapV0(e)
  BY <1>17, MapStepType DEF MapV0, At, Copying, Places, Forking
<1>18. CASE AllocV0(e) \/ ChildStack(e)
  <2>1. CASE UserPanic(e)
    BY <1>1, <1>18, <2>1, PanicType DEF AllocV0, ChildStack
  <2>2. CASE ~UserPanic(e)
    BY <1>1, <1>18, <2>2, GotoType DEF AllocV0, ChildStack, Places, Forking, CowTypeOK
  <2> QED BY <2>1, <2>2
<1>19. CASE CopyV0(e)
  BY <1>1, <1>19, GotoType DEF CopyV0, Places, Forking, CowTypeOK
<1>20. CASE UnmapV0(e)
  <2>0. at[e] \in 2 .. 4
    BY <1>20, AtPage DEF UnmapV0, At, Copying
  <2>1. at[e] <= 4
    BY <2>0
  <2>2. Goto(e, "page0") /\ NextPage(e, "page0") /\ "page0" \in Places
    BY <1>20 DEF UnmapV0, NextPage, Places, Forking
  <2> QED BY <1>1, <1>20, <2>1, <2>2, GotoType DEF UnmapV0, CowTypeOK
<1>21. CASE ChildUpcall(e)
  <2>1. /\ pc' \in [Env -> Places] /\ child' \in [Env -> Env \cup {NoEnv}]
        /\ upcall' \in [Env -> BOOLEAN]
    BY <1>1, <1>21 DEF ChildUpcall, Goto, CowTypeOK, Places, Forking
  <2> QED BY <1>1, <1>21, <2>1 DEF ChildUpcall, CowTypeOK, fixVars
<1>22. CASE Start(e)
  <2>1. CASE UserPanic(e)
    BY <1>1, <1>22, <2>1, PanicType DEF Start
  <2>2. CASE ~UserPanic(e)
    <3>1. Leave(e) /\ UNCHANGED <<fixVars, upcall, starved>>
      BY <1>22, <2>2 DEF Start
    <3>2. pc' \in [Env -> Places] /\ hand' \in [Env -> BOOLEAN]
      BY <1>1, <1>22, <2>2 DEF Start, CowTypeOK, Places
    <3> QED BY <1>1, <3>1, <3>2, LeaveType DEF CowTypeOK, fixVars
  <2> QED BY <2>1, <2>2
<1> QED BY <1>2, <1>3, <1>4, <1>5, <1>6, <1>7, <1>8, <1>9, <1>10, <1>11, <1>12, <1>13, <1>14,
           <1>15, <1>16, <1>17, <1>18, <1>19, <1>20, <1>21, <1>22 DEF Runs


-----------------------------------------------------------------------------
(* The steps that change nothing but the variables of e and one entry.      *)

OnlyProg(e) == \A f \in Env \ {e} :
  /\ pc'[f] = pc[f] /\ child'[f] = child[f] /\ at'[f] = at[f] /\ pte'[f] = pte[f]
  /\ fault'[f] = fault[f] /\ fpc'[f] = fpc[f]

Touch(e, c) ==
  \/ EntriesKept
  \/ \E t \in {e, c}, k \in Va :
       /\ t \in Env /\ (t = c => k # "tmp")
       /\ \/ \E perm \in SUBSET Bits : GotFresh(t, k, perm)
          \/ GotCleared(t, k)
          \/ \E s \in {e, c}, i \in Va, perm \in SUBSET Bits :
               /\ s \in Env /\ GotMapped(s, i, t, k, perm)
               /\ i = k \/ i = "tmp" \/ "W" \in mem.perm[<<s, i>>]

LEMMA TouchFacts ==
  ASSUME NEW e \in Env, NEW c, Touch(e, c)
  PROVE  /\ Effect(e, c)
         /\ \A f \in Env \ {e, c}, va \in Va :
              /\ mem'.frame[<<f, va>>] = mem.frame[<<f, va>>]
              /\ mem'.perm[<<f, va>>] = mem.perm[<<f, va>>]
         /\ c \in Env \ {e} => mem'.frame[<<c, "tmp">>] = mem.frame[<<c, "tmp">>]
<1>1. CASE EntriesKept
  BY <1>1, Layout DEF EntriesKept, Effect
<1>2. ASSUME NEW t \in {e, c}, NEW k \in Va, t \in Env, t = c => k # "tmp",
             \/ \E perm \in SUBSET Bits : GotFresh(t, k, perm)
             \/ GotCleared(t, k)
             \/ \E s \in {e, c}, i \in Va, perm \in SUBSET Bits :
                  /\ s \in Env /\ GotMapped(s, i, t, k, perm)
                  /\ i = k \/ i = "tmp" \/ "W" \in mem.perm[<<s, i>>]
      PROVE  /\ Effect(e, c)
             /\ \A f \in Env \ {e, c}, va \in Va :
                  /\ mem'.frame[<<f, va>>] = mem.frame[<<f, va>>]
                  /\ mem'.perm[<<f, va>>] = mem.perm[<<f, va>>]
             /\ c \in Env \ {e} => mem'.frame[<<c, "tmp">>] = mem.frame[<<c, "tmp">>]
  <2>1. OthersKept(t, k)
    BY <1>2 DEF GotFresh, GotCleared, GotMapped
  <2>2. Effect(e, c)
    BY <1>2 DEF Effect
  <2> QED BY <1>2, <2>1, <2>2, Layout DEF OthersKept
<1> QED BY <1>1, <1>2 DEF Touch

LEMMA LocalStep ==
  ASSUME MemInv, CowInv, CowTypeOK', NEW e \in Env, NEW c, c = child[e], Mine(e, c),
         OnlyProg(e), UNCHANGED <<state, parent>>, Touch(e, c), ProgOK(e)', Inside(e, c)'
  PROVE  CowInv'
<1>1. /\ Effect(e, c)
      /\ \A f \in Env \ {e, c}, va \in Va :
              /\ mem'.frame[<<f, va>>] = mem.frame[<<f, va>>]
              /\ mem'.perm[<<f, va>>] = mem.perm[<<f, va>>]
      /\ c \in Env \ {e} => mem'.frame[<<c, "tmp">>] = mem.frame[<<c, "tmp">>]
  BY TouchFacts
<1>2. Elsewhere(e, c)
  BY <1>1 DEF Elsewhere, OnlyProg
<1>3. c \in Env => state[c] = "EMBRYO" /\ c # e
  BY Layout DEF CowInv, ProgOK, PlaceOK, Mine
<1>4. ASSUME c \in Env PROVE ProgOK(c)'
  <2>1. ProgOK(c)
    BY <1>4 DEF CowInv
  <2>2. pc[c] = "user" /\ fault[c] = NoVa /\ mem.frame[<<c, "tmp">>] = NoPage
    BY <1>3, <1>4, <2>1 DEF ProgOK, PlaceOK, MappedOK
  <2>3. /\ pc'[c] = "user" /\ child'[c] = child[c] /\ at'[c] = at[c]
        /\ fault'[c] = fault[c] /\ fpc'[c] = fpc[c] /\ state'[c] # "UP"
        /\ mem'.frame[<<c, "tmp">>] = NoPage
    BY <1>1, <1>3, <1>4, <2>2 DEF OnlyProg
  <2> QED BY <1>4, <2>3, ChildOK
<1> QED BY <1>1, <1>2, <1>4, Compose

\* e is UP, and so is everything the invariant says of it.
LEMMA RunsMine ==
  ASSUME MemInv, CowInv, NEW e \in Env, Up(e), pc[e] # "panic", NEW c, c = child[e]
  PROVE  /\ Mine(e, c) /\ ProgOK(e) /\ state[e] = "UP" /\ c \in Env \cup {NoEnv}
         /\ c # NoEnv => c \in Env /\ c # e /\ state[c] = "EMBRYO" /\ parent[c] = e
BY DEF CowInv, CowTypeOK, ProgOK, PlaceOK, Mine, Up

LEMMA KeptStep ==
  ASSUME MemInv, CowInv, CowTypeOK', NEW e \in Env, Up(e), pc[e] # "panic",
         EntriesKept, OnlyProg(e), UNCHANGED <<state, parent>>, ProgOK(e)',
         Quiet(e) \/ \A g \in Env, va, vb \in Va :
                       Making(e, va, g, vb) => Making(e, va, g, vb)'
  PROVE  CowInv'
<1>1. PICK c : c = child[e]
  OBVIOUS
<1>2. Mine(e, c)
  BY <1>1, RunsMine
<1>3. Inside(e, c)'
  BY <1>2, KeptInside
<1>4. Touch(e, c)
  BY DEF Touch
<1> QED BY <1>1, <1>2, <1>3, <1>4, LocalStep

\* What a step that keeps the entries leaves of the pages of e and its child.
LEMMA KeptFacts ==
  ASSUME MemInv, CowInv, NEW e \in Env, Up(e), EntriesKept
  PROVE  /\ state[e] = "UP" /\ PlaceOK(e) /\ SteadyOK(e) /\ LoopOK(e) /\ MappedOK(e)
         /\ \A va \in Va : /\ mem'.frame[<<e, va>>] = mem.frame[<<e, va>>]
                           /\ mem'.perm[<<e, va>>] = mem.perm[<<e, va>>]
         /\ \A i \in 1 .. 4 : Order[i] \in Va
         /\ child[e] # NoEnv =>
              /\ child[e] \in Env /\ state[child[e]] = "EMBRYO" /\ parent[child[e]] = e
              /\ \A va \in Va :
                   /\ mem'.frame[<<child[e], va>>] = mem.frame[<<child[e], va>>]
                   /\ mem'.perm[<<child[e], va>>] = mem.perm[<<child[e], va>>]
BY Layout DEF EntriesKept, CowInv, CowTypeOK, ProgOK, PlaceOK, Up

LEMMA SameProg ==
  ASSUME MemInv, CowInv, NEW e \in Env, Up(e), EntriesKept,
         UNCHANGED <<pc, child, at, pte, fault, fpc, state, parent>>
  PROVE  ProgOK(e)'
<1>1. PlaceOK(e)'
  BY KeptFacts DEF PlaceOK
<1>2. SteadyOK(e)'
  BY KeptFacts, Layout DEF SteadyOK, Steady
<1>3. LoopOK(e)'
  <2>1. SUFFICES ASSUME pc[e] \in Copying PROVE LoopOK(e)'
    BY KeptFacts DEF LoopOK
  <2>2. Here(e) \in Va /\ Here(e)' = Here(e) /\ child[e] # NoEnv
    BY <2>1, AtPage, KeptFacts DEF Here, PlaceOK
  <2> QED BY <2>1, <2>2, KeptFacts DEF LoopOK
<1>4. MappedOK(e)'
  BY KeptFacts, Layout DEF MappedOK
<1> QED BY <1>1, <1>2, <1>3, <1>4 DEF ProgOK

LEMMA WriteInv ==
  ASSUME MemInv, CowInv, CowTypeOK', NEW e \in Env, NEW va \in Va, NEW v,
         UserWrite(e, va, v)
  PROVE  CowInv'
<1>1. /\ Up(e) /\ va \in Writes(e) /\ Write(e, va, v)
      /\ UNCHANGED <<pc, child, at, pte, fault, fpc, state, parent>>
  BY DEF UserWrite, progVars, Write, procVars
<1>2. pc[e] # "panic"
  BY <1>1 DEF Writes
<1>3. EntriesKept
  BY <1>1, WriteEntries
<1>4. OnlyProg(e)
  BY <1>1 DEF OnlyProg
<1>5. ProgOK(e)'
  BY <1>1, <1>3, SameProg
<1>6. \A g \in Env, va1, vb \in Va : Making(e, va1, g, vb) => Making(e, va1, g, vb)'
  BY <1>1 DEF Making, Here
<1> QED BY <1>1, <1>2, <1>3, <1>4, <1>5, <1>6, KeptStep

\* After a panic the child stays an EMBRYO of e, which may share its pages.
LEMMA PanicInv ==
  ASSUME MemInv, CowInv, CowTypeOK', NEW e \in Env, Up(e), pc[e] # "panic",
         EntriesKept, UNCHANGED <<state, parent>>, UserPanic(e),
         fpc[e] = "alloc", pc[e] \notin {"copy", "unmap"}
  PROVE  CowInv'
<1>0. CowTypeOK
  BY DEF CowInv
<1>1. /\ pc'[e] = "panic" /\ child'[e] = NoEnv /\ at'[e] = 1 /\ pte'[e] = {}
      /\ fault'[e] = NoVa /\ fpc'[e] = "alloc" /\ OnlyProg(e)
  BY <1>0 DEF UserPanic, Goto, Leave, CowTypeOK, OnlyProg
<1>2. ProgOK(e)'
  <2>1. PlaceOK(e)' /\ SteadyOK(e)' /\ LoopOK(e)'
    BY <1>1, KeptFacts DEF PlaceOK, SteadyOK, Steady, LoopOK, Copying, Forking
  <2>2. MappedOK(e)'
    <3>1. /\ MappedOK(e) /\ state[e] = "UP"
          /\ \A va \in Va : mem'.frame[<<e, va>>] = mem.frame[<<e, va>>]
      BY KeptFacts
    <3>2. mem.frame[<<e, "tmp">>] = NoPage
      BY <3>1 DEF MappedOK
    <3>3. mem'.frame[<<e, "tmp">>] = NoPage
      BY <3>1, <3>2, Layout
    <3>4. \A va \in {"text", "stack"} : mem'.frame[<<e, va>>] # NoPage
      BY <3>1, Layout DEF MappedOK
    <3> QED BY <1>1, <3>3, <3>4 DEF MappedOK
  <2> QED BY <2>1, <2>2 DEF ProgOK
<1>3. ASSUME NEW g \in Env, NEW va \in Va, NEW vb \in Va, Making(e, va, g, vb)
      PROVE  Making(e, va, g, vb)'
  <2>1. pc[e] = "own" /\ g = child[e] /\ va = Here(e) /\ vb = Here(e)
    BY <1>3 DEF Making
  <2>2. state[e] = "UP" /\ state[g] = "EMBRYO" /\ parent[g] = e
    BY <2>1, KeptFacts, Layout
  <2>3. Here(e) # "tmp"
    BY <2>1, AtPage DEF Copying
  <2> QED BY <1>1, <2>1, <2>2, <2>3 DEF Making
<1> QED BY <1>1, <1>2, <1>3, KeptStep


-----------------------------------------------------------------------------
(* The steps that keep every entry.                                         *)

\* MappedOK does not look at where a program is, but for "tmp".
LEMMA KeptMapped ==
  ASSUME MemInv, CowInv, NEW e \in Env, Up(e), EntriesKept, UNCHANGED <<state, child>>,
         \A i \in {2, 3} : i < at'[e] /\ child[e] # NoEnv => i < at[e],
         mem.frame[<<e, "tmp">>] # NoPage =>
           (fault'[e] # NoVa /\ fpc'[e] # "alloc") \/ pc'[e] \in {"copy", "unmap"}
  PROVE  MappedOK(e)'
<1>1. /\ MappedOK(e) /\ state[e] = "UP"
      /\ \A va \in Va : mem'.frame[<<e, va>>] = mem.frame[<<e, va>>]
      /\ \A i \in 1 .. 4 : Order[i] \in Va
      /\ child[e] # NoEnv =>
           \A va \in Va : mem'.frame[<<child[e], va>>] = mem.frame[<<child[e], va>>]
  BY KeptFacts
<1>2. \A va \in {"text", "stack"} : mem'.frame[<<e, va>>] # NoPage
  BY <1>1, Layout DEF MappedOK
<1>3. ASSUME child[e] # NoEnv, NEW i \in {2, 3}, i < at'[e]
      PROVE  mem'.frame[<<child[e], Order[i]>>] # NoPage
  <2>1. Order[i] \in Va /\ i < at[e]
    BY <1>1, <1>3
  <2> QED BY <1>1, <1>3, <2>1 DEF MappedOK
<1>4. mem'.frame[<<e, "tmp">>] = mem.frame[<<e, "tmp">>]
  BY <1>1, Layout
<1> QED BY <1>2, <1>3, <1>4 DEF MappedOK

\* The page fault handler starts with the stack copy-on-write, out of the loops'
\* copies.
LEMMA FaultInv ==
  ASSUME MemInv, CowInv, CowTypeOK', NEW e \in Env, NEW va \in Va,
         PageFault(e, va), ~Gone(e)
  PROVE  CowInv'
<1>0. CowTypeOK
  BY DEF CowInv
<1>1. /\ Up(e) /\ fault[e] = NoVa /\ va \in Writes(e) /\ "W" \notin mem.perm[<<e, va>>]
      /\ fault' = [fault EXCEPT ![e] = va]
      /\ UNCHANGED <<memVars, pc, child, at, pte, fpc>>
  BY DEF PageFault
<1>2. EntriesKept /\ UNCHANGED <<state, parent>> /\ OnlyProg(e)
  BY <1>0, <1>1 DEF memVars, procVars, EntriesKept, OnlyProg, CowTypeOK
<1>3. pc[e] # "panic" /\ va \in {"text", "stack"} /\ fault'[e] = va /\ va # NoVa
  BY <1>0, <1>1, Layout DEF Writes, CowTypeOK
<1>4. ~Steady(e) /\ fpc[e] = "alloc"
  <2>1. pc[e] # "user" => va = "stack"
    BY <1>3, <1>1 DEF Writes
  <2>2. Steady(e) => pc[e] # "user"
    BY DEF Steady, Copying
  <2>3. SteadyOK(e) /\ PlaceOK(e)
    BY <1>1, <1>2, KeptFacts
  <2> QED BY <1>1, <2>1, <2>2, <2>3 DEF SteadyOK, PlaceOK
<1>5. Quiet(e) /\ pc[e] \notin Copying
  BY <1>4 DEF Quiet, Steady, Copying
<1>6. ProgOK(e)'
  <2>1. PlaceOK(e)'
    BY <1>1, <1>2, <1>3, KeptFacts DEF PlaceOK
  <2>2. SteadyOK(e)'
    BY <1>1, <1>4 DEF SteadyOK, Steady
  <2>3. LoopOK(e)'
    BY <1>1, <1>2, <1>5, KeptFacts DEF LoopOK
  <2>4. MappedOK(e)'
    <3>1. mem.frame[<<e, "tmp">>] = NoPage
      BY <1>1, <1>2, <1>5, KeptFacts DEF MappedOK, Copying
    <3> QED BY <1>1, <1>2, <3>1, KeptMapped
  <2> QED BY <2>1, <2>2, <2>3, <2>4 DEF ProgOK
<1> QED BY <1>1, <1>2, <1>3, <1>5, <1>6, KeptStep

\* Inside pgfault() a program is not copying pages for a child.
LEMMA InsideFault ==
  ASSUME MemInv, CowInv, NEW e \in Env, NEW place, InFault(e, place)
  PROVE  /\ Up(e) /\ pc[e] # "panic" /\ fault[e] # NoVa /\ fpc[e] = place
         /\ ~Steady(e) /\ pc[e] \notin Copying
         /\ fault[e] \in {"text", "stack"} /\ fault[e] \in Va
         /\ mem.frame[<<e, fault[e]>>] # NoPage
<1>1. Up(e) /\ pc[e] # "panic" /\ fault[e] # NoVa /\ fpc[e] = place
  BY DEF InFault
<1>2. ~Steady(e) /\ pc[e] \notin Copying
  BY <1>1 DEF CowInv, ProgOK, SteadyOK, Steady
<1>3. fault[e] \in {"text", "stack"} /\ fault[e] \in Va
  BY <1>1, Layout DEF CowInv, CowTypeOK
<1>4. mem.frame[<<e, fault[e]>>] # NoPage
  BY <1>1, <1>3 DEF CowInv, ProgOK, MappedOK, Up
<1> QED BY <1>1, <1>2, <1>3, <1>4

LEMMA PgfaultCopyInv ==
  ASSUME MemInv, CowInv, CowTypeOK', NEW e \in Env, PgfaultCopy(e)
  PROVE  CowInv'
<1>0. CowTypeOK
  BY DEF CowInv
<1>1. /\ InFault(e, "copy") /\ Write(e, "tmp", mem.data[mem.frame[<<e, fault[e]>>]])
      /\ fpc' = [fpc EXCEPT ![e] = "map"]
      /\ UNCHANGED <<pc, child, at, pte, fault>>
  BY DEF PgfaultCopy
<1>2. EntriesKept /\ UNCHANGED <<state, parent>> /\ OnlyProg(e) /\ fpc'[e] = "map"
  BY <1>0, <1>1, Layout, WriteEntries DEF Write, procVars, OnlyProg, CowTypeOK
<1>3. Up(e) /\ pc[e] # "panic" /\ fault[e] # NoVa /\ ~Steady(e) /\ pc[e] \notin Copying
  BY <1>1, InsideFault
<1>4. Quiet(e)
  BY <1>1, <1>3 DEF InFault, Quiet, Copying
<1>5. ProgOK(e)'
  <2>1. PlaceOK(e)'
    BY <1>1, <1>2, <1>3, KeptFacts DEF PlaceOK
  <2>2. SteadyOK(e)'
    BY <1>1, <1>3 DEF SteadyOK, Steady
  <2>3. LoopOK(e)'
    BY <1>1, <1>2, <1>3, KeptFacts DEF LoopOK
  <2>4. MappedOK(e)'
    BY <1>1, <1>2, <1>3, KeptMapped
  <2> QED BY <2>1, <2>2, <2>3, <2>4 DEF ProgOK
<1> QED BY <1>2, <1>3, <1>4, <1>5, KeptStep

\* fork() and fork_v0() are called with a writable stack.
LEMMA ForkCallInv ==
  ASSUME MemInv, CowInv, CowTypeOK', NEW e \in Env, ForkCall(e)
  PROVE  CowInv'
<1>0. CowTypeOK
  BY DEF CowInv
<1>1. /\ Up(e) /\ fault[e] = NoVa /\ pc[e] = "user" /\ "W" \in mem.perm[<<e, "stack">>]
      /\ UNCHANGED <<memVars, child, at, pte, fault, fpc>>
  BY DEF ForkCall, At
<1>2. EntriesKept /\ UNCHANGED <<state, parent>>
  BY <1>1 DEF memVars, procVars, EntriesKept
<1>3. OnlyProg(e) /\ pc'[e] \in {"exofork0", "exofork", "xalloc"}
  BY <1>0, <1>1 DEF ForkCall, Goto, OnlyProg, CowTypeOK
<1>4. ProgOK(e)'
  <2>1. PlaceOK(e)'
    BY <1>1, <1>2, <1>3, KeptFacts DEF PlaceOK, Forking
  <2>2. SteadyOK(e)'
    BY <1>1, <1>2, Layout DEF SteadyOK, EntriesKept
  <2>3. LoopOK(e)'
    BY <1>3 DEF LoopOK, Copying
  <2>4. MappedOK(e)'
    <3>1. mem.frame[<<e, "tmp">>] = NoPage
      BY <1>1, <1>2, KeptFacts DEF MappedOK
    <3> QED BY <1>1, <1>2, <3>1, KeptMapped
  <2> QED BY <2>1, <2>2, <2>3, <2>4 DEF ProgOK
<1>5. Quiet(e)
  BY <1>1 DEF Quiet
<1> QED BY <1>1, <1>2, <1>3, <1>4, <1>5, KeptStep

\* A step of fork() before sys_exofork() that keeps the entries.
LEMMA EarlyInv ==
  ASSUME MemInv, CowInv, CowTypeOK', NEW e \in Env, Up(e), fault[e] = NoVa,
         pc[e] \in {"xalloc", "upcall"}, NEW place \in {"upcall", "exofork"},
         Goto(e, place), EntriesKept, UNCHANGED <<state, parent, child, at, pte, fault, fpc>>
  PROVE  CowInv'
<1>1. OnlyProg(e) /\ pc'[e] = place
  BY DEF Goto, OnlyProg, CowInv, CowTypeOK
<1>2. ProgOK(e)'
  <2>1. PlaceOK(e)'
    BY <1>1, KeptFacts DEF PlaceOK, Forking
  <2>2. SteadyOK(e)'
    BY KeptFacts, Layout DEF SteadyOK, Steady
  <2>3. LoopOK(e)'
    BY <1>1 DEF LoopOK, Copying
  <2>4. MappedOK(e)'
    <3>1. mem.frame[<<e, "tmp">>] = NoPage
      BY KeptFacts DEF MappedOK
    <3> QED BY <3>1, KeptMapped
  <2> QED BY <2>1, <2>2, <2>3, <2>4 DEF ProgOK
<1>3. Quiet(e)
  BY DEF Quiet
<1> QED BY <1>1, <1>2, <1>3, KeptStep

LEMMA HandlerUpcallInv ==
  ASSUME MemInv, CowInv, CowTypeOK', NEW e \in Env, HandlerUpcall(e)
  PROVE  CowInv'
<1>1. /\ Up(e) /\ fault[e] = NoVa /\ pc[e] = "upcall" /\ Goto(e, "exofork")
      /\ UNCHANGED <<state, parent, child, at, pte, fault, fpc>> /\ EntriesKept
  BY DEF HandlerUpcall, At, memVars, procVars, EntriesKept
<1> QED BY <1>1, EarlyInv

LEMMA ExoforkFailsInv ==
  ASSUME MemInv, CowInv, CowTypeOK', NEW e \in Env, ExoforkFails(e)
  PROVE  CowInv'
<1>1. Up(e) /\ fault[e] = NoVa /\ pc[e] \in {"exofork", "exofork0"} /\ UserPanic(e)
  BY DEF ExoforkFails, Loops, At
<1>2. EntriesKept /\ UNCHANGED <<state, parent>>
  BY DEF ExoforkFails, memVars, procVars, EntriesKept
<1>3. fpc[e] = "alloc"
  BY <1>1 DEF CowInv, ProgOK, PlaceOK
<1> QED BY <1>1, <1>2, <1>3, PanicInv


\* The loops: the next page, or the copies of this one.
LEMMA SkipPageInv ==
  ASSUME MemInv, CowInv, CowTypeOK', NEW e \in Env, SkipPage(e)
  PROVE  CowInv'
<1>0. CowTypeOK
  BY DEF CowInv
<1>1. /\ Up(e) /\ fault[e] = NoVa /\ pc[e] \in {"page", "page0"} /\ Skipped(e)
      /\ at[e] \in 1 .. 4 /\ NextPage(e, pc[e])
      /\ UNCHANGED <<state, parent, child, fault, fpc>> /\ EntriesKept
  BY <1>0, Layout DEF SkipPage, InLoop, At, Done, memVars, procVars, EntriesKept, CowTypeOK
<1>2. OnlyProg(e) /\ pc'[e] = pc[e] /\ at'[e] = at[e] + 1
  BY <1>0, <1>1 DEF NextPage, Goto, OnlyProg, CowTypeOK
<1>3. at[e] \notin {2, 3}
  <2>1. /\ mem.frame[<<e, "text">>] # NoPage /\ mem.frame[<<e, "stack">>] # NoPage
    BY <1>1, KeptFacts DEF MappedOK
  <2> QED BY <1>1, <2>1, Layout DEF Skipped, Here
<1>4. ProgOK(e)'
  <2>1. PlaceOK(e)'
    BY <1>1, <1>2, KeptFacts DEF PlaceOK, Forking
  <2>2. SteadyOK(e)'
    <3>1. Steady(e)' => Steady(e)
      BY <1>1, <1>2, <1>3 DEF Steady, Copying
    <3> QED BY <1>1, <3>1, KeptFacts, Layout DEF SteadyOK
  <2>3. LoopOK(e)'
    BY <1>1, <1>2 DEF LoopOK, Copying
  <2>4. MappedOK(e)'
    <3>1. mem.frame[<<e, "tmp">>] = NoPage
      BY <1>1, KeptFacts DEF MappedOK
    <3>2. \A i \in {2, 3} : i < at'[e] => i < at[e]
      BY <1>1, <1>2, <1>3
    <3> QED BY <1>1, <3>1, <3>2, KeptMapped
  <2> QED BY <2>1, <2>2, <2>3, <2>4 DEF ProgOK
<1>5. Quiet(e) /\ pc[e] # "panic"
  BY <1>1 DEF Quiet
<1> QED BY <1>1, <1>2, <1>4, <1>5, KeptStep

LEMMA ReadPteInv ==
  ASSUME MemInv, CowInv, CowTypeOK', NEW e \in Env, ReadPte(e)
  PROVE  CowInv'
<1>0. CowTypeOK
  BY DEF CowInv
<1>1. /\ Up(e) /\ fault[e] = NoVa /\ pc[e] \in {"page", "page0"} /\ ~Skipped(e)
      /\ at[e] \in 1 .. 4
      /\ Goto(e, IF pc[e] = "page" THEN "dup" ELSE "dup0")
      /\ pte' = [pte EXCEPT ![e] = mem.perm[<<e, Here(e)>>]]
      /\ UNCHANGED <<state, parent, child, at, fault, fpc>> /\ EntriesKept
  BY <1>0, Layout DEF ReadPte, InLoop, At, Done, memVars, procVars, EntriesKept, CowTypeOK
<1>2. /\ OnlyProg(e) /\ pc'[e] = IF pc[e] = "page" THEN "dup" ELSE "dup0"
      /\ pte'[e] = mem.perm[<<e, Here(e)>>]
  BY <1>0, <1>1 DEF Goto, OnlyProg, CowTypeOK
<1>3. mem.frame[<<e, "tmp">>] = NoPage
  BY <1>1, KeptFacts DEF MappedOK
<1>4. /\ at[e] \in 2 .. 4 /\ Here(e) \in Va /\ mem.frame[<<e, Here(e)>>] # NoPage
      /\ pc[e] = "page" => at[e] # 4
  <2>1. mem.frame[<<e, Here(e)>>] # NoPage /\ (pc[e] = "page" => at[e] # 4)
    BY <1>1, Layout DEF Skipped, Here
  <2>2. at[e] # 1
    BY <1>3, <2>1, Layout DEF Here
  <2> QED BY <1>1, <2>1, <2>2, Layout DEF Here
<1>5. Steady(e)
  BY <1>1, <1>4 DEF Steady
<1>6. ProgOK(e)'
  <2>1. PlaceOK(e)'
    BY <1>1, <1>2, KeptFacts DEF PlaceOK, Forking
  <2>2. SteadyOK(e)'
    BY <1>1, <1>5, KeptFacts, Layout DEF SteadyOK
  <2>3. LoopOK(e)'
    <3>1. Here(e)' = Here(e)
      BY <1>1 DEF Here
    <3>2. /\ mem'.frame[<<e, Here(e)>>] # NoPage
          /\ pte'[e] = mem'.perm[<<e, Here(e)>>]
      BY <1>1, <1>2, <1>4, KeptFacts
    <3> QED BY <1>1, <1>2, <1>4, <3>1, <3>2 DEF LoopOK
  <2>4. MappedOK(e)'
    BY <1>1, <1>3, KeptMapped
  <2> QED BY <2>1, <2>2, <2>3, <2>4 DEF ProgOK
<1>7. Quiet(e) /\ pc[e] # "panic"
  BY <1>1 DEF Quiet
<1> QED BY <1>1, <1>2, <1>6, <1>7, KeptStep

\* The copy of a page that fork_v0() makes at UTEMP.
LEMMA CopyInv ==
  ASSUME MemInv, CowInv, CowTypeOK', NEW e \in Env, CopyV0(e)
  PROVE  CowInv'
<1>0. CowTypeOK
  BY DEF CowInv
<1>1. /\ Up(e) /\ fault[e] = NoVa /\ pc[e] = "copy" /\ Goto(e, "unmap")
      /\ UNCHANGED <<state, parent, child, at, pte, fault, fpc>> /\ EntriesKept
  BY Layout, WriteEntries DEF CopyV0, At, Write, procVars
<1>2. OnlyProg(e) /\ pc'[e] = "unmap" /\ pc[e] \in Copying
  BY <1>0, <1>1 DEF Goto, OnlyProg, CowTypeOK, Copying
<1>3. ProgOK(e)'
  <2>1. PlaceOK(e)'
    BY <1>1, <1>2, KeptFacts DEF PlaceOK, Forking
  <2>2. SteadyOK(e)'
    BY <1>1, <1>2, KeptFacts, Layout DEF SteadyOK, Steady
  <2>3. LoopOK(e)'
    <3>1. Here(e)' = Here(e) /\ Here(e) \in Va /\ child[e] # NoEnv
      BY <1>1, <1>2, AtPage, KeptFacts DEF Here, PlaceOK
    <3>2. /\ mem'.frame[<<e, Here(e)>>] # NoPage
          /\ mem'.frame[<<child[e], Here(e)>>] # NoPage
      BY <1>1, <1>2, <3>1, KeptFacts DEF LoopOK
    <3> QED BY <1>1, <1>2, <3>1, <3>2, AtPage DEF LoopOK
  <2>4. MappedOK(e)'
    BY <1>1, <1>2, KeptMapped
  <2> QED BY <2>1, <2>2, <2>3, <2>4 DEF ProgOK
<1>4. \A g \in Env, va, vb \in Va : Making(e, va, g, vb) => Making(e, va, g, vb)'
  BY <1>1, <1>2 DEF Making, Here
<1> QED BY <1>1, <1>2, <1>3, <1>4, KeptStep

-----------------------------------------------------------------------------
(* The steps that allocate a page.                                          *)

LEMMA FreshStep ==
  ASSUME MemInv, CowInv, CowTypeOK', NEW e \in Env, Up(e), pc[e] # "panic",
         NEW c, c = child[e], NEW t \in {e, c}, t \in Env, NEW k \in Va, t = c => k # "tmp",
         NEW perm \in SUBSET Bits, GotFresh(t, k, perm), OnlyProg(e), UNCHANGED <<state, parent>>,
         ProgOK(e)', Quiet(e)
  PROVE  CowInv'
<1>1. Mine(e, c)
  BY RunsMine
<1>2. Inside(e, c)'
  BY <1>1, FreshInside
<1>3. Touch(e, c)
  BY DEF Touch
<1> QED BY <1>1, <1>2, <1>3, LocalStep

\* A step that maps a page, and may go on to the next one.
LEMMA GrowMapped ==
  ASSUME MemInv, CowInv, NEW e \in Env, Up(e), UNCHANGED <<state, child>>,
         NEW t \in Env, NEW k \in Va, OthersKept(t, k), mem'.frame[<<t, k>>] # NoPage,
         \A i \in {2, 3} : i < at'[e] /\ child[e] # NoEnv =>
                \/ i < at[e] \/ mem.frame[<<child[e], Order[i]>>] # NoPage
                \/ t = child[e] /\ k = Order[i],
         (mem.frame[<<e, "tmp">>] # NoPage \/ (t = e /\ k = "tmp")) =>
           (fault'[e] # NoVa /\ fpc'[e] # "alloc") \/ pc'[e] \in {"copy", "unmap"}
  PROVE  MappedOK(e)'
<1>1. MappedOK(e) /\ state[e] = "UP" /\ child[e] \in Env \cup {NoEnv}
  BY DEF CowInv, CowTypeOK, ProgOK, Up
<1>2. ASSUME NEW f \in Env, NEW va \in Va, mem.frame[<<f, va>>] # NoPage
      PROVE  mem'.frame[<<f, va>>] # NoPage
  <2>1. CASE f = t /\ va = k
    BY <2>1
  <2>2. CASE ~(f = t /\ va = k)
    BY <1>2, <2>2 DEF OthersKept
  <2> QED BY <2>1, <2>2
<1>3. \A va \in {"text", "stack"} : mem'.frame[<<e, va>>] # NoPage
  BY <1>1, <1>2, Layout DEF MappedOK
<1>4. ASSUME child[e] # NoEnv, NEW i \in {2, 3}, i < at'[e]
      PROVE  mem'.frame[<<child[e], Order[i]>>] # NoPage
  <2>1. Order[i] \in Va
    BY Layout
  <2>2. CASE i < at[e]
    BY <1>1, <1>2, <1>4, <2>1, <2>2 DEF MappedOK
  <2>3. CASE t = child[e] /\ k = Order[i]
    BY <2>3
  <2>4. CASE mem.frame[<<child[e], Order[i]>>] # NoPage
    BY <1>1, <1>2, <1>4, <2>1, <2>4
  <2> QED BY <1>4, <2>2, <2>3, <2>4
<1>5. (t = e /\ k = "tmp") \/ mem'.frame[<<e, "tmp">>] = mem.frame[<<e, "tmp">>]
  BY Layout DEF OthersKept
<1> QED BY <1>3, <1>4, <1>5 DEF MappedOK


LEMMA HandlerAllocInv ==
  ASSUME MemInv, CowInv, CowTypeOK', NEW e \in Env, HandlerAlloc(e)
  PROVE  CowInv'
<1>0. CowTypeOK
  BY DEF CowInv
<1>1. /\ Up(e) /\ fault[e] = NoVa /\ pc[e] = "xalloc" /\ pc[e] # "panic"
      /\ mem' = EnvPageAlloc(mem, e, "xstk", {"W"})
      /\ UNCHANGED <<state, parent, child, at, pte, fault, fpc>>
      /\ Goto(e, IF CanAlloc(mem, e, "xstk") THEN "upcall" ELSE "exofork")
  BY DEF HandlerAlloc, At, SysPageAlloc, procVars
<1>2. CASE ~CanAlloc(mem, e, "xstk")
  <2>1. EntriesKept
    BY <1>1, <1>2, AllocEntries, Layout
  <2> QED BY <1>1, <1>2, <2>1, EarlyInv
<1>3. CASE CanAlloc(mem, e, "xstk")
  <2>1. GotFresh(e, "xstk", {"W"})
    BY <1>1, <1>3, AllocEntries, Layout
  <2>2. OnlyProg(e) /\ pc'[e] = "upcall"
    BY <1>0, <1>1, <1>3 DEF Goto, OnlyProg, CowTypeOK
  <2>3. /\ OthersKept(e, "xstk") /\ mem'.frame[<<e, "xstk">>] # NoPage
        /\ mem'.perm[<<e, "stack">>] = mem.perm[<<e, "stack">>]
    BY <2>1, Layout DEF GotFresh, OthersKept
  <2>4. PlaceOK(e) /\ SteadyOK(e) /\ MappedOK(e)
    BY DEF CowInv, ProgOK
  <2>5. ProgOK(e)'
    <3>1. PlaceOK(e)'
      BY <1>1, <2>2, <2>4 DEF PlaceOK, Forking, Up
    <3>2. SteadyOK(e)'
      BY <1>1, <2>3, <2>4 DEF SteadyOK, Steady
    <3>3. LoopOK(e)'
      BY <2>2 DEF LoopOK, Copying
    <3>4. MappedOK(e)'
      <4>1. mem.frame[<<e, "tmp">>] = NoPage
        BY <1>1, <2>4 DEF MappedOK
      <4> QED BY <1>1, <2>3, <4>1, GrowMapped, Layout
    <3> QED BY <3>1, <3>2, <3>3, <3>4 DEF ProgOK
  <2>6. Quiet(e)
    BY <1>1 DEF Quiet
  <2>7. PICK c : c = child[e]
    OBVIOUS
  <2>8. "xstk" \in Va /\ "xstk" # "tmp" /\ {"W"} \in SUBSET Bits
    BY Layout
  <2> QED BY <1>1, <2>1, <2>2, <2>5, <2>6, <2>7, <2>8, FreshStep
<1> QED BY <1>2, <1>3

LEMMA PgfaultAllocInv ==
  ASSUME MemInv, CowInv, CowTypeOK', NEW e \in Env, PgfaultAlloc(e)
  PROVE  CowInv'
<1>0. CowTypeOK
  BY DEF CowInv
<1>1. /\ InFault(e, "alloc") /\ mem' = EnvPageAlloc(mem, e, "tmp", {"W"})
      /\ UNCHANGED <<state, parent>>
      /\ IF CanAlloc(mem, e, "tmp")
         THEN /\ fpc' = [fpc EXCEPT ![e] = "copy"]
              /\ UNCHANGED <<pc, child, at, pte, fault>>
         ELSE UserPanic(e)
  BY DEF PgfaultAlloc, SysPageAlloc, procVars
<1>2. /\ Up(e) /\ pc[e] # "panic" /\ fault[e] # NoVa /\ fpc[e] = "alloc"
      /\ ~Steady(e) /\ pc[e] \notin Copying
  BY <1>1, InsideFault
<1>3. CASE ~CanAlloc(mem, e, "tmp")
  <2>1. EntriesKept
    BY <1>1, <1>3, AllocEntries, Layout
  <2>2. pc[e] \notin {"copy", "unmap"}
    BY <1>2 DEF Copying
  <2> QED BY <1>1, <1>2, <1>3, <2>1, <2>2, PanicInv
<1>4. CASE CanAlloc(mem, e, "tmp")
  <2>1. GotFresh(e, "tmp", {"W"})
    BY <1>1, <1>4, AllocEntries, Layout
  <2>2. OnlyProg(e) /\ fpc'[e] = "copy" /\ UNCHANGED <<pc, child, at, pte, fault>>
    BY <1>0, <1>1, <1>4 DEF OnlyProg, CowTypeOK
  <2>3. OthersKept(e, "tmp") /\ mem'.frame[<<e, "tmp">>] # NoPage
    BY <2>1 DEF GotFresh
  <2>4. PlaceOK(e) /\ SteadyOK(e) /\ MappedOK(e) /\ LoopOK(e)
    BY DEF CowInv, ProgOK
  <2>5. ProgOK(e)'
    <3>1. PlaceOK(e)'
      BY <1>1, <1>2, <2>2, <2>4 DEF PlaceOK
    <3>2. SteadyOK(e)'
      BY <1>2, <2>2 DEF SteadyOK, Steady
    <3>3. LoopOK(e)'
      BY <1>2, <2>2, <2>4 DEF LoopOK
    <3>4. MappedOK(e)'
      BY <1>1, <1>2, <2>2, <2>3, GrowMapped, Layout
    <3> QED BY <3>1, <3>2, <3>3, <3>4 DEF ProgOK
  <2>6. Quiet(e)
    BY <1>2 DEF Quiet, Copying
  <2>7. PICK c : c = child[e]
    OBVIOUS
  <2>8. c # e /\ "tmp" \in Va /\ {"W"} \in SUBSET Bits
    BY <1>2, <2>7, RunsMine, Layout
  <2> QED BY <1>1, <1>2, <2>1, <2>2, <2>5, <2>6, <2>7, <2>8, FreshStep
<1> QED BY <1>3, <1>4

\* fork_v0() gives the child a page of its own.
LEMMA AllocV0Inv ==
  ASSUME MemInv, CowInv, CowTypeOK', NEW e \in Env, AllocV0(e)
  PROVE  CowInv'
<1>0. CowTypeOK
  BY DEF CowInv
<1>1. PICK c : c = child[e]
  OBVIOUS
<1>2. PICK k : k = Here(e)
  OBVIOUS
<1>3. /\ Up(e) /\ fault[e] = NoVa /\ pc[e] = "dup0" /\ pc[e] # "panic"
      /\ mem' = EnvPageAlloc(mem, c, k, {"W"})
      /\ UNCHANGED <<state, parent>>
      /\ IF CanAlloc(mem, c, k)
         THEN Goto(e, "utemp") /\ UNCHANGED <<child, at, pte, fault, fpc>>
         ELSE UserPanic(e)
  BY <1>1, <1>2 DEF AllocV0, At, SysPageAlloc, procVars
<1>4. /\ k \in Va /\ k # "tmp" /\ at[e] \in 2 .. 4 /\ mem.frame[<<e, k>>] # NoPage
      /\ pc[e] \in Copying /\ pc[e] \in Forking \ {"start"}
  BY <1>2, <1>3, AtPage DEF Copying
<1>5. c \in Env /\ c # e /\ {"W"} \in SUBSET Bits
  BY <1>1, <1>3, <1>4, AtWork, Layout
<1>6. PlaceOK(e) /\ SteadyOK(e) /\ MappedOK(e) /\ LoopOK(e)
  BY DEF CowInv, ProgOK
<1>7. fpc[e] = "alloc"
  BY <1>3, <1>6 DEF PlaceOK
<1>8. CASE ~CanAlloc(mem, c, k)
  <2>1. EntriesKept
    BY <1>3, <1>4, <1>5, <1>8, AllocEntries
  <2> QED BY <1>3, <1>7, <1>8, <2>1, PanicInv
<1>9. CASE CanAlloc(mem, c, k)
  <2>1. GotFresh(c, k, {"W"})
    BY <1>3, <1>4, <1>5, <1>9, AllocEntries
  <2>2. OnlyProg(e) /\ pc'[e] = "utemp" /\ UNCHANGED <<child, at, pte, fault, fpc>>
    BY <1>0, <1>3, <1>9 DEF Goto, OnlyProg, CowTypeOK
  <2>3. /\ OthersKept(c, k) /\ mem'.frame[<<c, k>>] # NoPage /\ mem'.perm[<<c, k>>] = {"W"}
        /\ \A va \in Va : /\ mem'.frame[<<e, va>>] = mem.frame[<<e, va>>]
                          /\ mem'.perm[<<e, va>>] = mem.perm[<<e, va>>]
    BY <1>5, <2>1 DEF GotFresh, OthersKept
  <2>4. ProgOK(e)'
    <3>1. PlaceOK(e)'
      BY <1>3, <1>4, <1>6, <2>2 DEF PlaceOK, Forking
    <3>2. SteadyOK(e)'
      BY <1>3, <1>4, <1>6, <2>2, <2>3, Layout DEF SteadyOK, Steady
    <3>3. LoopOK(e)'
      <4>1. Here(e)' = k /\ child'[e] = c /\ at'[e] \in 2 .. 4
        BY <1>1, <1>2, <1>4, <2>2 DEF Here
      <4>2. mem'.frame[<<e, k>>] # NoPage
        BY <1>4, <2>3
      <4> QED BY <2>2, <2>3, <4>1, <4>2 DEF LoopOK
    <3>4. MappedOK(e)'
      <4>1. mem.frame[<<e, "tmp">>] = NoPage
        BY <1>3, <1>6 DEF MappedOK
      <4> QED BY <1>3, <1>4, <1>5, <2>2, <2>3, <4>1, GrowMapped
    <3> QED BY <3>1, <3>2, <3>3, <3>4 DEF ProgOK
  <2>5. Quiet(e)
    BY <1>3 DEF Quiet
  <2> QED BY <1>1, <1>3, <1>4, <1>5, <2>1, <2>2, <2>4, <2>5, FreshStep
<1> QED BY <1>8, <1>9

\* The exception stack of the child, after the loop of fork().
LEMMA ChildStackInv ==
  ASSUME MemInv, CowInv, CowTypeOK', NEW e \in Env, ChildStack(e)
  PROVE  CowInv'
<1>0. CowTypeOK
  BY DEF CowInv
<1>1. PICK c : c = child[e]
  OBVIOUS
<1>2. /\ Up(e) /\ fault[e] = NoVa /\ pc[e] = "page" /\ pc[e] # "panic" /\ at[e] = 5
      /\ mem' = EnvPageAlloc(mem, c, "xstk", {"W"})
      /\ UNCHANGED <<state, parent>>
      /\ IF CanAlloc(mem, c, "xstk")
         THEN Goto(e, "childcall") /\ UNCHANGED <<child, at, pte, fault, fpc>>
         ELSE UserPanic(e)
  BY <1>0, <1>1, Layout DEF ChildStack, At, SysPageAlloc, procVars, Done, CowTypeOK
<1>3. c \in Env /\ c # e /\ {"W"} \in SUBSET Bits /\ "xstk" \in Va
  BY <1>1, <1>2, AtWork, Layout DEF Forking
<1>4. PlaceOK(e) /\ MappedOK(e)
  BY DEF CowInv, ProgOK
<1>5. fpc[e] = "alloc"
  BY <1>2, <1>4 DEF PlaceOK
<1>6. CASE ~CanAlloc(mem, c, "xstk")
  <2>1. EntriesKept
    BY <1>2, <1>3, <1>6, AllocEntries
  <2> QED BY <1>2, <1>5, <1>6, <2>1, PanicInv
<1>7. CASE CanAlloc(mem, c, "xstk")
  <2>1. GotFresh(c, "xstk", {"W"})
    BY <1>2, <1>3, <1>7, AllocEntries
  <2>2. OnlyProg(e) /\ pc'[e] = "childcall" /\ UNCHANGED <<child, at, pte, fault, fpc>>
    BY <1>0, <1>2, <1>7 DEF Goto, OnlyProg, CowTypeOK
  <2>3. OthersKept(c, "xstk") /\ mem'.frame[<<c, "xstk">>] # NoPage
    BY <2>1 DEF GotFresh
  <2>4. ProgOK(e)'
    <3>1. PlaceOK(e)'
      BY <1>2, <1>4, <2>2 DEF PlaceOK, Forking
    <3>2. SteadyOK(e)' /\ LoopOK(e)'
      BY <1>2, <2>2 DEF SteadyOK, Steady, LoopOK, Copying
    <3>3. MappedOK(e)'
      <4>1. mem.frame[<<e, "tmp">>] = NoPage
        BY <1>2, <1>4 DEF MappedOK
      <4> QED BY <1>2, <1>3, <2>2, <2>3, <4>1, GrowMapped
    <3> QED BY <3>1, <3>2, <3>3 DEF ProgOK
  <2>5. Quiet(e)
    BY <1>2 DEF Quiet
  <2> QED BY <1>1, <1>2, <1>3, <2>1, <2>2, <2>4, <2>5, FreshStep
<1> QED BY <1>6, <1>7


-----------------------------------------------------------------------------
(* The steps that map a page into another entry, or unmap one.              *)

\* The page at hand of e is mapped into the child as well, and nowhere else.
LEMMA GivenStep ==
  ASSUME MemInv, CowInv, CowTypeOK', NEW e \in Env, Up(e), pc[e] # "panic",
         NEW c \in Env, c = child[e], NEW k \in Va, k # "tmp", NEW perm \in SUBSET Bits,
         GotMapped(e, k, c, k, perm), OnlyProg(e), UNCHANGED <<state, parent>>,
         ProgOK(e)', Quiet(e), Explained(c, k, e, k)'
  PROVE  CowInv'
<1>1. Mine(e, c) /\ c # e
  BY RunsMine, Layout
<1>2. OthersKept(c, k)
  BY DEF GotMapped
<1>3. ASSUME NEW g \in Env, NEW vb \in Va, g \in {e, c}, Shared(c, k, g, vb)'
      PROVE  Explained(c, k, g, vb)'
  <2>1. g # c \/ vb # k
    BY <1>3 DEF Shared
  <2>2. mem'.frame[<<g, vb>>] = mem.frame[<<g, vb>>]
    BY <1>2, <2>1 DEF OthersKept
  <2>3. CASE g = e /\ vb = k
    BY <2>3
  <2>4. CASE ~(g = e /\ vb = k)
    <3>1. Shared(e, k, g, vb)
      BY <1>3, <2>2, <2>4 DEF GotMapped, Shared
    <3>2. Plain(e, k, g, vb) /\ e # g
      BY <1>1, <1>3, <3>1, QuietPlain
    <3> QED BY <1>3, <2>1, <3>2 DEF Plain
  <2> QED BY <2>3, <2>4
<1>4. Inside(e, c)'
  BY <1>1, <1>2, <1>3, ChangedInside
<1>5. Touch(e, c)
  BY DEF Touch
<1> QED BY <1>1, <1>4, <1>5, LocalStep

LEMMA ClearedStep ==
  ASSUME MemInv, CowInv, CowTypeOK', NEW e \in Env, Up(e), pc[e] # "panic",
         NEW k \in Va, GotCleared(e, k), OnlyProg(e), UNCHANGED <<state, parent>>, ProgOK(e)',
         \A g \in Env, va, vb \in Va :
           Making(e, va, g, vb) => va = k \/ (g = e /\ vb = k)
  PROVE  CowInv'
<1>1. PICK c : c = child[e]
  OBVIOUS
<1>2. Mine(e, c)
  BY <1>1, RunsMine
<1>3. OthersKept(e, k)
  BY DEF GotCleared
<1>4. \A g \in Env, vb \in Va : ~Shared(e, k, g, vb)'
  BY DEF GotCleared, Shared
<1>5. Inside(e, c)'
  BY <1>2, <1>3, <1>4, ChangedInside
<1>6. Touch(e, c)
  <2>1. e = c => FALSE
    BY <1>1, RunsMine, Layout
  <2> QED BY <2>1 DEF Touch
<1> QED BY <1>1, <1>2, <1>5, <1>6, LocalStep

LEMMA MapStepDone ==
  ASSUME MemInv, CowTypeOK, NEW e \in Env,
         NEW s \in Env, NEW d \in Env, NEW i \in Va, NEW k \in Va, NEW perm \in SUBSET Bits,
         NEW place, MapStep(e, s, i, d, k, perm, place), MayMap(mem, s, i, d, k, perm)
  PROVE  /\ GotMapped(s, i, d, k, perm) /\ OnlyProg(e) /\ pc'[e] = place
         /\ UNCHANGED <<state, parent, child, fault, fpc, hand, upcall, starved>>
         /\ IF place \in {"page", "page0"} THEN at'[e] = at[e] + 1
            ELSE UNCHANGED <<at, pte>>
<1>1. mem' = EnvPageMap(mem, s, i, d, k, perm) /\ UNCHANGED <<state, parent>>
  BY DEF MapStep, SysPageMap, procVars
<1>2. GotMapped(s, i, d, k, perm)
  BY <1>1, MapEntries
<1>3. /\ IF place \in {"page", "page0"} THEN NextPage(e, place)
         ELSE Goto(e, place) /\ UNCHANGED <<at, pte>>
      /\ UNCHANGED <<child, fault, fpc, hand, upcall, starved>>
  BY DEF MapStep
<1>4. OnlyProg(e) /\ pc'[e] = place
  BY <1>3 DEF NextPage, Goto, OnlyProg, CowTypeOK
<1>5. place \in {"page", "page0"} => at'[e] = at[e] + 1
  BY <1>3 DEF NextPage, CowTypeOK
<1> QED BY <1>1, <1>2, <1>3, <1>4, <1>5

LEMMA MapStepCases ==
  ASSUME MemInv, CowInv, CowTypeOK', NEW e \in Env, Up(e),
         pc[e] \in {"dup", "own", "dup0", "utemp"},
         NEW s \in Env, NEW d \in Env, NEW i \in Va, NEW k \in Va, NEW perm \in SUBSET Bits,
         NEW place, MapStep(e, s, i, d, k, perm, place)
  PROVE  \/ CowInv'
         \/ /\ GotMapped(s, i, d, k, perm) /\ OnlyProg(e) /\ pc'[e] = place
            /\ UNCHANGED <<state, parent, child, fault, fpc>>
            /\ IF place \in {"page", "page0"} THEN at'[e] = at[e] + 1
               ELSE UNCHANGED <<at, pte>>
<1>0. CowTypeOK
  BY DEF CowInv
<1>1. mem' = EnvPageMap(mem, s, i, d, k, perm) /\ UNCHANGED <<state, parent>>
  BY DEF MapStep, SysPageMap, procVars
<1>2. CASE MayMap(mem, s, i, d, k, perm)
  BY <1>0, <1>2, MapStepDone
<1>3. CASE ~MayMap(mem, s, i, d, k, perm)
  <2>1. EntriesKept
    BY <1>1, <1>3, MapEntries
  <2>2. UserPanic(e)
    BY <1>3 DEF MapStep
  <2>3. pc[e] \in Copying /\ pc[e] \notin {"copy", "unmap"} /\ pc[e] # "panic"
    BY DEF Copying
  <2>4. fpc[e] = "alloc"
    BY <2>3, AtPage DEF CowInv, ProgOK, PlaceOK
  <2> QED BY <1>1, <2>1, <2>2, <2>3, <2>4, PanicInv
<1> QED BY <1>2, <1>3


\* What the invariant says of a program in the loops, and of its child.
LEMMA LoopFacts ==
  ASSUME MemInv, CowInv, NEW e \in Env, NEW place \in Copying, At(e, place),
         NEW c, c = child[e], NEW k, k = Here(e)
  PROVE  /\ CowTypeOK /\ Up(e) /\ pc[e] = place /\ pc[e] # "panic" /\ fault[e] = NoVa
         /\ c \in Env /\ c # e /\ Mine(e, c)
         /\ k \in Va /\ k # "tmp" /\ at[e] \in 2 .. 4 /\ mem.frame[<<e, k>>] # NoPage
         /\ PlaceOK(e) /\ LoopOK(e) /\ MappedOK(e) /\ "W" \in mem.perm[<<e, "stack">>]
<1>1. Up(e) /\ pc[e] = place /\ fault[e] = NoVa /\ pc[e] \in Copying
  BY DEF At
<1>2. pc[e] \in Forking \ {"start"} /\ pc[e] # "panic"
  BY <1>1, AtPage DEF Copying
<1>3. c \in Env /\ c # e /\ Mine(e, c)
  BY <1>1, <1>2, AtWork
<1>4. k \in Va /\ k # "tmp" /\ at[e] \in 2 .. 4 /\ mem.frame[<<e, k>>] # NoPage
  BY <1>1, AtPage
<1>5. CowTypeOK /\ PlaceOK(e) /\ LoopOK(e) /\ MappedOK(e) /\ SteadyOK(e)
  BY DEF CowInv, ProgOK
<1>6. "W" \in mem.perm[<<e, "stack">>]
  BY <1>1, <1>5 DEF SteadyOK, Steady
<1> QED BY <1>1, <1>2, <1>3, <1>4, <1>5, <1>6

\* The child has got the page at hand, and the loop goes on.
LEMMA GivenProg ==
  ASSUME MemInv, CowInv, NEW e \in Env, NEW from \in {"dup", "dup0"}, At(e, from),
         NEW c, c = child[e], NEW k, k = Here(e), NEW perm, GotMapped(e, k, c, k, perm),
         UNCHANGED <<state, parent, child, fault, fpc>>,
         NEW place \in {"page", "page0", "own"}, pc'[e] = place,
         place = "own" => from = "dup" /\ perm = {"COW"} /\ UNCHANGED <<at, pte>>,
         place # "own" => at'[e] = at[e] + 1
  PROVE  ProgOK(e)'
<1>0. from \in Copying
  BY DEF Copying
<1>1. /\ CowTypeOK /\ Up(e) /\ pc[e] = from /\ fault[e] = NoVa
      /\ c \in Env /\ c # e /\ k \in Va /\ k # "tmp" /\ at[e] \in 2 .. 4
      /\ mem.frame[<<e, k>>] # NoPage
      /\ PlaceOK(e) /\ LoopOK(e) /\ MappedOK(e) /\ "W" \in mem.perm[<<e, "stack">>]
  BY <1>0, LoopFacts
<1>2. /\ OthersKept(c, k) /\ mem'.frame[<<c, k>>] # NoPage /\ mem'.perm[<<c, k>>] = perm
      /\ \A va \in Va : /\ mem'.frame[<<e, va>>] = mem.frame[<<e, va>>]
                        /\ mem'.perm[<<e, va>>] = mem.perm[<<e, va>>]
  BY <1>1 DEF GotMapped, OthersKept
<1>3. PlaceOK(e)'
  BY <1>1, Layout DEF PlaceOK, Forking, Up
<1>4. SteadyOK(e)'
  BY <1>1, <1>2, Layout DEF SteadyOK
<1>5. LoopOK(e)'
  <2>1. CASE place # "own"
    BY <2>1 DEF LoopOK, Copying
  <2>2. CASE place = "own"
    <3>1. Here(e)' = k /\ child'[e] = c /\ at'[e] \in 2 .. 4
      BY <1>1, <2>2 DEF Here
    <3>2. mem'.frame[<<e, k>>] # NoPage /\ at'[e] # 4
      BY <1>1, <1>2, <2>2 DEF LoopOK, Copying
    <3> QED BY <1>2, <2>2, <3>1, <3>2 DEF LoopOK
  <2> QED BY <2>1, <2>2
<1>6. MappedOK(e)'
  <2>1. mem.frame[<<e, "tmp">>] = NoPage
    BY <1>1 DEF MappedOK
  <2>2. \A i \in {2, 3} : i < at'[e] => i < at[e] \/ (c = child[e] /\ k = Order[i])
    BY <1>1 DEF Here
  <2> QED BY <1>1, <1>2, <2>1, <2>2, GrowMapped
<1> QED BY <1>3, <1>4, <1>5, <1>6 DEF ProgOK

\* duppage() for a page that is read-only, and dup_or_share() for one that is not
\* writable: neither program can write it.
LEMMA ShareInv ==
  ASSUME MemInv, CowInv, CowTypeOK', NEW e \in Env, NEW from \in {"dup", "dup0"}, At(e, from),
         "W" \notin pte[e], NEW place \in {"page", "page0"},
         MapStep(e, e, Here(e), child[e], Here(e), {}, place)
  PROVE  CowInv'
<1>0. from \in Copying
  BY DEF Copying
<1>1. PICK c : c = child[e]
  OBVIOUS
<1>2. PICK k : k = Here(e)
  OBVIOUS
<1>3. /\ Up(e) /\ pc[e] = from /\ pc[e] # "panic" /\ fault[e] = NoVa
      /\ c \in Env /\ c # e /\ Mine(e, c) /\ k \in Va /\ k # "tmp" /\ LoopOK(e)
  BY <1>0, <1>1, <1>2, LoopFacts
<1>4. "W" \notin mem.perm[<<e, k>>]
  BY <1>0, <1>2, <1>3 DEF LoopOK
<1>5. SUFFICES ASSUME GotMapped(e, k, c, k, {}), OnlyProg(e), pc'[e] = place,
                      UNCHANGED <<state, parent, child, fault, fpc>>, at'[e] = at[e] + 1
               PROVE  CowInv'
  BY <1>1, <1>2, <1>3, Layout, MapStepCases
<1>6. ProgOK(e)'
  BY <1>1, <1>2, <1>5, GivenProg
<1>7. Quiet(e)
  BY <1>3 DEF Quiet
<1>8. Plain(c, k, e, k)'
  <2>1. mem'.perm[<<e, k>>] = mem.perm[<<e, k>>] /\ mem'.perm[<<c, k>>] = {}
    BY <1>3, <1>5 DEF GotMapped, OthersKept
  <2> QED BY <1>3, <1>4, <2>1 DEF Plain
<1>9. Explained(c, k, e, k)'
  BY <1>8 DEF Explained
<1> QED BY <1>1, <1>3, <1>5, <1>6, <1>7, <1>9, Layout, GivenStep

\* The first call of duppage() for a page that somebody writes: until the second
\* the parent may write what its child has.
LEMMA GiveInv ==
  ASSUME MemInv, CowInv, CowTypeOK', NEW e \in Env, At(e, "dup"),
         MapStep(e, e, Here(e), child[e], Here(e), {"COW"}, "own")
  PROVE  CowInv'
<1>1. PICK c : c = child[e]
  OBVIOUS
<1>2. PICK k : k = Here(e)
  OBVIOUS
<1>3. /\ CowTypeOK /\ Up(e) /\ pc[e] = "dup" /\ pc[e] # "panic" /\ fault[e] = NoVa
      /\ c \in Env /\ c # e /\ Mine(e, c) /\ k \in Va /\ k # "tmp"
  BY <1>1, <1>2, LoopFacts DEF Copying
<1>4. SUFFICES ASSUME GotMapped(e, k, c, k, {"COW"}), OnlyProg(e), pc'[e] = "own",
                      UNCHANGED <<state, parent, child, fault, fpc>>, UNCHANGED <<at, pte>>
               PROVE  CowInv'
  <2>1. MapStep(e, e, k, c, k, {"COW"}, "own") /\ "own" \notin {"page", "page0"}
    BY <1>1, <1>2
  <2>2. pc[e] \in {"dup", "own", "dup0", "utemp"} /\ {"COW"} \in SUBSET Bits
    BY <1>3, Layout
  <2>3. \/ CowInv'
        \/ /\ GotMapped(e, k, c, k, {"COW"}) /\ OnlyProg(e) /\ pc'[e] = "own"
           /\ UNCHANGED <<state, parent, child, fault, fpc>>
           /\ IF "own" \in {"page", "page0"} THEN at'[e] = at[e] + 1
              ELSE UNCHANGED <<at, pte>>
    BY <1>3, <2>1, <2>2, MapStepCases
  <2> QED BY <2>1, <2>3
<1>5. ProgOK(e)'
  BY <1>1, <1>2, <1>4, GivenProg
<1>6. Quiet(e)
  BY <1>3 DEF Quiet
<1>7. Making(e, k, c, k)'
  <2>1. Here(e)' = k /\ child'[e] = c /\ state'[e] = "UP"
    BY <1>1, <1>2, <1>3, <1>4 DEF Here, Up
  <2> QED BY <1>3, <1>4, <2>1 DEF Making
<1>8. Explained(c, k, e, k)'
  BY <1>7 DEF Explained
<1> QED BY <1>1, <1>3, <1>4, <1>5, <1>6, <1>8, Layout, GivenStep

LEMMA DupChildInv ==
  ASSUME MemInv, CowInv, CowTypeOK', NEW e \in Env, DupChild(e)
  PROVE  CowInv'
<1>1. At(e, "dup") /\ Into(e) = child[e]
  BY DEF DupChild, At, Into
<1>2. CASE pte[e] \cap {"W", "COW"} # {}
  BY <1>1, <1>2, GiveInv DEF DupChild
<1>3. CASE pte[e] \cap {"W", "COW"} = {}
  <2>1. "W" \notin pte[e]
    BY <1>3
  <2> QED BY <1>1, <1>3, <2>1, ShareInv DEF DupChild
<1> QED BY <1>2, <1>3

LEMMA ShareV0Inv ==
  ASSUME MemInv, CowInv, CowTypeOK', NEW e \in Env, ShareV0(e)
  PROVE  CowInv'
BY ShareInv DEF ShareV0


\* The second call of duppage(): neither program writes the page from now on.
LEMMA DupOwnInv ==
  ASSUME MemInv, CowInv, CowTypeOK', NEW e \in Env, DupOwn(e)
  PROVE  CowInv'
<1>1. PICK c : c = child[e]
  OBVIOUS
<1>2. PICK k : k = Here(e)
  OBVIOUS
<1>3. At(e, "own") /\ MapStep(e, e, k, e, k, {"COW"}, "page")
  BY <1>2 DEF DupOwn, At, Into
<1>4. /\ CowTypeOK /\ Up(e) /\ pc[e] = "own" /\ pc[e] # "panic" /\ fault[e] = NoVa
      /\ c \in Env /\ c # e /\ Mine(e, c)
      /\ k \in Va /\ k # "tmp" /\ at[e] \in 2 .. 4 /\ mem.frame[<<e, k>>] # NoPage
      /\ PlaceOK(e) /\ LoopOK(e) /\ MappedOK(e) /\ "W" \in mem.perm[<<e, "stack">>]
  BY <1>1, <1>2, <1>3, LoopFacts DEF Copying
<1>5. SUFFICES ASSUME GotMapped(e, k, e, k, {"COW"}), OnlyProg(e), pc'[e] = "page",
                      UNCHANGED <<state, parent, child, fault, fpc>>, at'[e] = at[e] + 1
               PROVE  CowInv'
  BY <1>3, <1>4, Layout, MapStepCases
<1>6. /\ OthersKept(e, k) /\ mem'.frame[<<e, k>>] = mem.frame[<<e, k>>]
      /\ mem'.perm[<<e, k>>] = {"COW"}
  BY <1>5 DEF GotMapped
<1>7. /\ at[e] # 4 /\ mem.perm[<<c, k>>] = {"COW"} /\ mem.frame[<<c, k>>] # NoPage
  BY <1>1, <1>2, <1>4 DEF LoopOK, Copying
<1>8. ProgOK(e)'
  <2>1. PlaceOK(e)'
    BY <1>4, <1>5 DEF PlaceOK, Forking, Up
  <2>2. SteadyOK(e)'
    <3>1. Steady(e)' => k # "stack"
      BY <1>2, <1>4, <1>5, Layout DEF Steady, Copying, Here
    <3>2. k # "stack" => mem'.perm[<<e, "stack">>] = mem.perm[<<e, "stack">>]
      BY <1>6, Layout DEF OthersKept
    <3> QED BY <1>4, <1>5, <3>1, <3>2 DEF SteadyOK
  <2>3. LoopOK(e)'
    BY <1>5 DEF LoopOK, Copying
  <2>4. MappedOK(e)'
    <3>1. mem.frame[<<e, "tmp">>] = NoPage
      BY <1>4 DEF MappedOK
    <3>2. \A i \in {2, 3} : i < at'[e] => i < at[e] \/ mem.frame[<<child[e], Order[i]>>] # NoPage
      BY <1>1, <1>2, <1>4, <1>5, <1>7 DEF Here
    <3> QED BY <1>4, <1>5, <1>6, <3>1, <3>2, GrowMapped
  <2> QED BY <2>1, <2>2, <2>3, <2>4 DEF ProgOK
<1>9. ASSUME NEW g \in Env, NEW va \in Va, NEW vb \in Va, Making(e, va, g, vb)
      PROVE  va = k /\ vb = k /\ g = c
  BY <1>1, <1>2, <1>4, <1>9 DEF Making
<1>10. ASSUME NEW g \in Env, NEW vb \in Va, g \in {e, c}, Shared(e, k, g, vb)'
       PROVE  Explained(e, k, g, vb)'
  <2>1. g # e \/ vb # k
    BY <1>10 DEF Shared
  <2>2. /\ mem'.frame[<<g, vb>>] = mem.frame[<<g, vb>>]
        /\ mem'.perm[<<g, vb>>] = mem.perm[<<g, vb>>]
    BY <1>6, <2>1 DEF OthersKept
  <2>3. Shared(e, k, g, vb)
    BY <1>6, <1>10, <2>2 DEF Shared
  <2>4. Explained(e, k, g, vb)
    BY <1>4, <2>3 DEF CowInv, SharingOK
  <2>5. ~Making(g, vb, e, k)
    <3>1. Making(g, vb, e, k) => g = e
      BY <1>4, <1>10, OnlyMaker
    <3>2. ~Making(e, vb, e, k)
      BY <1>4, <1>9
    <3> QED BY <3>1, <3>2
  <2>6. g = c /\ vb = k
    BY <1>4, <1>9, <1>10, <2>1, <2>4, <2>5 DEF Explained, Plain
  <2>7. Plain(e, k, c, k)'
    BY <1>4, <1>6, <1>7, <2>2, <2>6 DEF Plain
  <2> QED BY <2>6, <2>7 DEF Explained
<1>11. Inside(e, c)'
  BY <1>4, <1>6, <1>9, <1>10, ChangedInside
<1>12. Touch(e, c)
  <2>1. e # c /\ {"COW"} \in SUBSET Bits
    BY <1>4, Layout
  <2> QED BY <1>4, <1>5, <2>1 DEF Touch
<1> QED BY <1>1, <1>4, <1>5, <1>8, <1>11, <1>12, LocalStep

\* fork_v0() maps the child's page at UTEMP to fill it.
LEMMA MapV0Inv ==
  ASSUME MemInv, CowInv, CowTypeOK', NEW e \in Env, MapV0(e)
  PROVE  CowInv'
<1>1. PICK c : c = child[e]
  OBVIOUS
<1>2. PICK k : k = Here(e)
  OBVIOUS
<1>3. At(e, "utemp") /\ MapStep(e, c, k, e, "tmp", {"W"}, "copy")
  BY <1>1, <1>2 DEF MapV0
<1>4. /\ CowTypeOK /\ Up(e) /\ pc[e] = "utemp" /\ pc[e] # "panic" /\ fault[e] = NoVa
      /\ c \in Env /\ c # e /\ Mine(e, c)
      /\ k \in Va /\ k # "tmp" /\ at[e] \in 2 .. 4 /\ mem.frame[<<e, k>>] # NoPage
      /\ PlaceOK(e) /\ LoopOK(e) /\ MappedOK(e) /\ "W" \in mem.perm[<<e, "stack">>]
  BY <1>1, <1>2, <1>3, LoopFacts DEF Copying
<1>5. SUFFICES ASSUME GotMapped(c, k, e, "tmp", {"W"}), OnlyProg(e), pc'[e] = "copy",
                      UNCHANGED <<state, parent, child, fault, fpc>>, UNCHANGED <<at, pte>>
               PROVE  CowInv'
  <2>1. /\ pc[e] \in {"dup", "own", "dup0", "utemp"} /\ {"W"} \in SUBSET Bits
        /\ "tmp" \in Va /\ "copy" \notin {"page", "page0"}
    BY <1>4, Layout
  <2>2. \/ CowInv'
        \/ /\ GotMapped(c, k, e, "tmp", {"W"}) /\ OnlyProg(e) /\ pc'[e] = "copy"
           /\ UNCHANGED <<state, parent, child, fault, fpc>>
           /\ IF "copy" \in {"page", "page0"} THEN at'[e] = at[e] + 1
              ELSE UNCHANGED <<at, pte>>
    BY <1>3, <1>4, <2>1, MapStepCases
  <2> QED BY <2>1, <2>2
<1>6. OthersKept(e, "tmp") /\ mem'.frame[<<e, "tmp">>] # NoPage
  BY <1>5 DEF GotMapped
<1>7. mem.perm[<<c, k>>] = {"W"} /\ mem.frame[<<c, k>>] # NoPage
  BY <1>1, <1>2, <1>4 DEF LoopOK, Copying
<1>8. Here(e)' = k /\ child'[e] = c /\ at'[e] = at[e] /\ state'[e] = "UP"
  BY <1>1, <1>2, <1>4, <1>5 DEF Here, Up
<1>9. ProgOK(e)'
  <2>1. PlaceOK(e)'
    BY <1>4, <1>5 DEF PlaceOK, Forking, Up
  <2>2. SteadyOK(e)'
    <3>1. mem'.perm[<<e, "stack">>] = mem.perm[<<e, "stack">>]
      BY <1>6, Layout DEF OthersKept
    <3> QED BY <1>4, <1>5, <3>1 DEF SteadyOK
  <2>3. LoopOK(e)'
    <3>1. /\ mem'.frame[<<e, k>>] # NoPage /\ mem'.frame[<<c, k>>] # NoPage
      BY <1>4, <1>6, <1>7 DEF OthersKept
    <3> QED BY <1>4, <1>5, <1>8, <3>1 DEF LoopOK
  <2>4. MappedOK(e)'
    BY <1>4, <1>5, <1>6, <1>8, GrowMapped, Layout
  <2> QED BY <2>1, <2>2, <2>3, <2>4 DEF ProgOK
<1>10. Quiet(e)
  BY <1>4 DEF Quiet
<1>11. Making(e, "tmp", c, k)'
  BY <1>5, <1>8 DEF Making
<1>12. ASSUME NEW g \in Env, NEW vb \in Va, g \in {e, c}, Shared(e, "tmp", g, vb)'
       PROVE  Explained(e, "tmp", g, vb)'
  <2>1. g # e \/ vb # "tmp"
    BY <1>12 DEF Shared
  <2>2. mem'.frame[<<g, vb>>] = mem.frame[<<g, vb>>]
    BY <1>6, <2>1 DEF OthersKept
  <2>3. CASE ~(g = c /\ vb = k)
    <3>1. Shared(c, k, g, vb)
      BY <1>5, <1>12, <2>2, <2>3 DEF GotMapped, Shared
    <3>2. Plain(c, k, g, vb)
      BY <1>4, <1>10, <1>12, <3>1, QuietPlain
    <3> QED BY <1>7, <3>2 DEF Plain
  <2>4. CASE g = c /\ vb = k
    BY <1>11, <2>4 DEF Explained
  <2> QED BY <2>3, <2>4
<1>13. Inside(e, c)'
  BY <1>4, <1>6, <1>10, <1>12, ChangedInside, Layout
<1>14. Touch(e, c)
  <2>1. e # c /\ {"W"} \in SUBSET Bits /\ "tmp" \in Va /\ "W" \in mem.perm[<<c, k>>]
    BY <1>4, <1>7, Layout
  <2> QED BY <1>4, <1>5, <2>1 DEF Touch
<1> QED BY <1>1, <1>4, <1>5, <1>9, <1>13, <1>14, LocalStep


\* pgfault() maps its copy over the page that faulted.
LEMMA PgfaultMapInv ==
  ASSUME MemInv, CowInv, CowTypeOK', NEW e \in Env, PgfaultMap(e)
  PROVE  CowInv'
<1>0. CowTypeOK /\ PlaceOK(e) /\ LoopOK(e) /\ MappedOK(e)
  BY DEF CowInv, ProgOK
<1>1. PICK c : c = child[e]
  OBVIOUS
<1>2. PICK k : k = fault[e]
  OBVIOUS
<1>3. /\ InFault(e, "map") /\ mem' = EnvPageMap(mem, e, "tmp", e, k, {"W"})
      /\ fpc' = [fpc EXCEPT ![e] = "unmap"]
      /\ UNCHANGED <<state, parent, pc, child, at, pte, fault>>
  BY <1>2 DEF PgfaultMap, SysPageMap, procVars
<1>4. /\ Up(e) /\ pc[e] # "panic" /\ k # NoVa /\ fpc[e] = "map"
      /\ ~Steady(e) /\ pc[e] \notin Copying /\ k \in {"text", "stack"} /\ k \in Va
      /\ mem.frame[<<e, k>>] # NoPage
  BY <1>2, <1>3, InsideFault
<1>5. OnlyProg(e) /\ fpc'[e] = "unmap"
  BY <1>0, <1>3 DEF OnlyProg, CowTypeOK
<1>6. Quiet(e) /\ Mine(e, c)
  BY <1>1, <1>4, RunsMine DEF Quiet, Copying
<1>7. PlaceOK(e)' /\ SteadyOK(e)'
  BY <1>0, <1>2, <1>3, <1>4, <1>5 DEF PlaceOK, SteadyOK, Steady
<1>8. LoopOK(e)'
  BY <1>0, <1>3, <1>4 DEF LoopOK
<1>9. CASE ~MayMap(mem, e, "tmp", e, k, {"W"})
  <2>1. EntriesKept
    BY <1>3, <1>4, <1>9, MapEntries, Layout
  <2>2. MappedOK(e)'
    BY <1>2, <1>3, <1>4, <1>5, <2>1, KeptMapped
  <2>3. ProgOK(e)'
    BY <1>7, <1>8, <2>2 DEF ProgOK
  <2> QED BY <1>3, <1>4, <1>5, <1>6, <2>1, <2>3, KeptStep
<1>10. CASE MayMap(mem, e, "tmp", e, k, {"W"})
  <2>1. GotMapped(e, "tmp", e, k, {"W"})
    BY <1>3, <1>4, <1>10, MapEntries, Layout
  <2>2. OthersKept(e, k) /\ mem'.frame[<<e, k>>] # NoPage
    BY <2>1 DEF GotMapped
  <2>3. MappedOK(e)'
    BY <1>2, <1>3, <1>4, <1>5, <2>2, GrowMapped
  <2>4. ProgOK(e)'
    BY <1>7, <1>8, <2>3 DEF ProgOK
  <2>5. Making(e, "tmp", e, k)'
    BY <1>2, <1>3, <1>4, <1>5 DEF Making, Up
  <2>6. ASSUME NEW g \in Env, NEW vb \in Va, g \in {e, c}, Shared(e, k, g, vb)'
        PROVE  Explained(e, k, g, vb)'
    <3>1. g # e \/ vb # k
      BY <2>6 DEF Shared
    <3>2. mem'.frame[<<g, vb>>] = mem.frame[<<g, vb>>]
      BY <2>2, <3>1 DEF OthersKept
    <3>3. CASE ~(g = e /\ vb = "tmp")
      <4>1. Shared(e, "tmp", g, vb)
        BY <2>1, <2>6, <3>2, <3>3 DEF GotMapped, Shared
      <4>2. Plain(e, "tmp", g, vb)
        BY <1>6, <2>6, <4>1, QuietPlain, Layout
      <4> QED BY <4>2 DEF Plain
    <3>4. CASE g = e /\ vb = "tmp"
      BY <2>5, <3>4 DEF Explained
    <3> QED BY <3>3, <3>4
  <2>7. Inside(e, c)'
    BY <1>4, <1>6, <2>2, <2>6, ChangedInside
  <2>8. Touch(e, c)
    <3>1. e # c /\ {"W"} \in SUBSET Bits /\ "tmp" \in Va
      BY <1>1, <1>4, RunsMine, Layout
    <3> QED BY <1>4, <2>1, <3>1 DEF Touch
  <2> QED BY <1>1, <1>3, <1>5, <1>6, <2>4, <2>7, <2>8, LocalStep
<1> QED BY <1>9, <1>10

LEMMA PgfaultUnmapInv ==
  ASSUME MemInv, CowInv, CowTypeOK', NEW e \in Env, PgfaultUnmap(e)
  PROVE  CowInv'
<1>0. CowTypeOK /\ PlaceOK(e) /\ LoopOK(e) /\ MappedOK(e)
  BY DEF CowInv, ProgOK
<1>1. /\ InFault(e, "unmap") /\ mem' = PageRemove(mem, e, "tmp")
      /\ fault' = [fault EXCEPT ![e] = NoVa] /\ fpc' = [fpc EXCEPT ![e] = "alloc"]
      /\ UNCHANGED <<state, parent, pc, child, at, pte>>
  BY DEF PgfaultUnmap, SysPageUnmap, procVars
<1>2. /\ Up(e) /\ pc[e] # "panic" /\ ~Steady(e) /\ pc[e] \notin Copying
  BY <1>1, InsideFault
<1>3. OnlyProg(e) /\ fpc'[e] = "alloc" /\ fault'[e] = NoVa
  BY <1>0, <1>1 DEF OnlyProg, CowTypeOK
<1>4. GotCleared(e, "tmp") /\ "tmp" \in Va
  BY <1>1, UnmapEntries, Layout
<1>5. PlaceOK(e)' /\ SteadyOK(e)'
  BY <1>0, <1>1, <1>2, <1>3 DEF PlaceOK, SteadyOK, Steady
<1>6. LoopOK(e)'
  BY <1>0, <1>1, <1>2 DEF LoopOK
<1>7. MappedOK(e)'
  <2>1. OthersKept(e, "tmp") /\ mem'.frame[<<e, "tmp">>] = NoPage
    BY <1>4 DEF GotCleared
  <2>2. \A va \in {"text", "stack"} : mem'.frame[<<e, va>>] = mem.frame[<<e, va>>]
    BY <2>1, Layout DEF OthersKept
  <2>3. ASSUME child[e] # NoEnv, NEW i \in {2, 3}
        PROVE  mem'.frame[<<child[e], Order[i]>>] = mem.frame[<<child[e], Order[i]>>]
    BY <1>0, <2>1, <2>3, Layout DEF OthersKept, CowTypeOK
  <2> QED BY <1>0, <1>1, <2>1, <2>2, <2>3 DEF MappedOK
<1>8. ProgOK(e)'
  BY <1>5, <1>6, <1>7 DEF ProgOK
<1>9. \A g \in Env, va, vb \in Va : Making(e, va, g, vb) => va = "tmp" \/ (g = e /\ vb = "tmp")
  BY <1>2 DEF Making, Copying
<1> QED BY <1>1, <1>2, <1>3, <1>4, <1>8, <1>9, ClearedStep

LEMMA UnmapV0Inv ==
  ASSUME MemInv, CowInv, CowTypeOK', NEW e \in Env, UnmapV0(e)
  PROVE  CowInv'
<1>1. PICK c : c = child[e]
  OBVIOUS
<1>2. PICK k : k = Here(e)
  OBVIOUS
<1>3. /\ At(e, "unmap") /\ mem' = PageRemove(mem, e, "tmp") /\ NextPage(e, "page0")
      /\ UNCHANGED <<state, parent, child, fault, fpc>>
  BY DEF UnmapV0, SysPageUnmap, procVars
<1>4. /\ CowTypeOK /\ Up(e) /\ pc[e] = "unmap" /\ pc[e] # "panic" /\ fault[e] = NoVa
      /\ c \in Env /\ c # e /\ k \in Va /\ k # "tmp" /\ at[e] \in 2 .. 4
      /\ PlaceOK(e) /\ LoopOK(e) /\ MappedOK(e) /\ "W" \in mem.perm[<<e, "stack">>]
  BY <1>1, <1>2, <1>3, LoopFacts DEF Copying
<1>5. OnlyProg(e) /\ pc'[e] = "page0" /\ at'[e] = at[e] + 1
  BY <1>3, <1>4 DEF NextPage, Goto, OnlyProg, CowTypeOK
<1>6. GotCleared(e, "tmp") /\ "tmp" \in Va
  BY <1>3, UnmapEntries, Layout
<1>7. OthersKept(e, "tmp") /\ mem'.frame[<<e, "tmp">>] = NoPage
  BY <1>6 DEF GotCleared
<1>8. ProgOK(e)'
  <2>1. PlaceOK(e)'
    BY <1>3, <1>4, <1>5 DEF PlaceOK, Forking, Up
  <2>2. SteadyOK(e)'
    <3>1. mem'.perm[<<e, "stack">>] = mem.perm[<<e, "stack">>]
      BY <1>7, Layout DEF OthersKept
    <3> QED BY <1>3, <1>4, <3>1 DEF SteadyOK
  <2>3. LoopOK(e)'
    BY <1>5 DEF LoopOK, Copying
  <2>4. MappedOK(e)'
    <3>1. \A va \in {"text", "stack"} : mem'.frame[<<e, va>>] = mem.frame[<<e, va>>]
      BY <1>7, Layout DEF OthersKept
    <3>2. \A i \in {2, 3} : mem'.frame[<<c, Order[i]>>] = mem.frame[<<c, Order[i]>>]
      BY <1>4, <1>7, Layout DEF OthersKept
    <3>3. mem.frame[<<c, k>>] # NoPage
      BY <1>1, <1>2, <1>4 DEF LoopOK, Copying
    <3>4. \A i \in {2, 3} : i < at'[e] => mem.frame[<<c, Order[i]>>] # NoPage
      <4>1. ASSUME NEW i \in {2, 3}, i < at'[e], i # at[e]
            PROVE  mem.frame[<<c, Order[i]>>] # NoPage
        BY <1>1, <1>4, <1>5, <4>1, Layout DEF MappedOK
      <4> QED BY <1>2, <3>3, <4>1 DEF Here
    <3> QED BY <1>1, <1>3, <1>4, <1>7, <3>1, <3>2, <3>4 DEF MappedOK
  <2> QED BY <2>1, <2>2, <2>3, <2>4 DEF ProgOK
<1>9. \A g \in Env, va, vb \in Va : Making(e, va, g, vb) => va = "tmp" \/ (g = e /\ vb = "tmp")
  BY <1>4 DEF Making
<1> QED BY <1>3, <1>4, <1>5, <1>6, <1>8, <1>9, ClearedStep


-----------------------------------------------------------------------------
(* The steps that make, start and free environments.                        *)

\* What Free(t) leaves of the environments but t.
LEMMA FreeOthers ==
  ASSUME MemInv, NEW t \in Env, Free(t)
  PROVE  /\ state'[t] = "FREE"
         /\ \A f \in Env \ {t} : /\ state'[f] = state[f]
                                 /\ parent[f] # t => parent'[f] = parent[f]
         /\ GotFreed(t)
<1>1. state \in [Env -> {"FREE", "LOADING", "EMBRYO", "UP", "BLOCKED"}]
  BY DEF MemInv, ProcOK
<1> QED BY <1>1, FreeEntries DEF Free

LEMMA GoneInv ==
  ASSUME MemInv, CowInv, CowTypeOK', NEW e \in Env, Up(e), pc[e] # "panic", Gone(e)
  PROVE  CowInv'
<1>0. CowTypeOK
  BY DEF CowInv
<1>1. PICK c : c = child[e]
  OBVIOUS
<1>2. /\ Mine(e, c) /\ c \in Env \cup {NoEnv}
      /\ c # NoEnv => c \in Env /\ c # e /\ state[c] = "EMBRYO" /\ parent[c] = e
  BY <1>1, RunsMine
<1>3. /\ Free(e) /\ OnlyProg(e)
      /\ pc'[e] = "user" /\ child'[e] = NoEnv /\ at'[e] = 1 /\ pte'[e] = {}
      /\ fault'[e] = NoVa /\ fpc'[e] = "alloc"
  BY <1>0 DEF Gone, Goto, Leave, OnlyProg, CowTypeOK
<1>4. /\ state'[e] = "FREE" /\ GotFreed(e)
      /\ \A f \in Env \ {e} : /\ state'[f] = state[f]
                              /\ parent[f] # e => parent'[f] = parent[f]
  BY <1>3, FreeOthers
<1>5. Elsewhere(e, c)
  BY <1>3, <1>4 DEF Elsewhere, OnlyProg, GotFreed
<1>6. Effect(e, c)
  BY <1>4 DEF Effect
<1>7. ProgOK(e)'
  <2>1. PlaceOK(e)' /\ SteadyOK(e)' /\ LoopOK(e)'
    BY <1>3 DEF PlaceOK, SteadyOK, Steady, LoopOK, Copying, Forking
  <2>2. mem'.frame[<<e, "tmp">>] = NoPage
    BY <1>4, Layout DEF GotFreed
  <2>3. MappedOK(e)'
    BY <1>3, <1>4, <2>2 DEF MappedOK
  <2> QED BY <2>1, <2>3 DEF ProgOK
<1>8. ASSUME c \in Env PROVE ProgOK(c)'
  <2>1. c # e /\ state[c] = "EMBRYO"
    BY <1>2, <1>8, Layout
  <2>2. PlaceOK(c) /\ MappedOK(c)
    BY <1>8 DEF CowInv, ProgOK
  <2>3. pc[c] = "user" /\ fault[c] = NoVa /\ mem.frame[<<c, "tmp">>] = NoPage
    BY <2>1, <2>2 DEF PlaceOK, MappedOK
  <2>4. /\ pc'[c] = "user" /\ child'[c] = child[c] /\ at'[c] = at[c]
        /\ fault'[c] = fault[c] /\ fpc'[c] = fpc[c] /\ state'[c] # "UP"
        /\ mem'.frame[<<c, "tmp">>] = NoPage
    BY <1>3, <1>4, <1>8, <2>1, <2>3, Layout DEF OnlyProg, GotFreed
  <2> QED BY <1>2, <1>8, <2>4, ChildOK
<1>9. Inside(e, c)'
  BY <1>2, <1>4, FreedInside
<1> QED BY <1>2, <1>5, <1>6, <1>7, <1>8, <1>9, Compose

\* The kernel destroys the child of a parent without an upcall.
LEMMA ChildUpcallInv ==
  ASSUME MemInv, CowInv, CowTypeOK', NEW e \in Env, ChildUpcall(e)
  PROVE  CowInv'
<1>0. CowTypeOK /\ PlaceOK(e) /\ LoopOK(e) /\ MappedOK(e)
  BY DEF CowInv, ProgOK
<1>1. PICK c : c = child[e]
  OBVIOUS
<1>2. /\ Up(e) /\ fault[e] = NoVa /\ pc[e] = "childcall" /\ pc[e] # "panic"
      /\ Goto(e, "start") /\ UNCHANGED <<at, pte, fault, fpc>>
      /\ \/ UNCHANGED <<memVars, child>>
         \/ Free(c) /\ child' = [child EXCEPT ![e] = NoEnv]
  BY <1>1 DEF ChildUpcall, At
<1>3. /\ c \in Env /\ c # e /\ Mine(e, c) /\ state[c] = "EMBRYO" /\ parent[c] = e
      /\ pc[c] = "user" /\ fault[c] = NoVa /\ state[e] = "UP"
  BY <1>1, <1>2, AtWork DEF Forking, Up
<1>4. OnlyProg(e) /\ pc'[e] = "start" /\ at'[e] = 5
  BY <1>0, <1>2 DEF Goto, OnlyProg, CowTypeOK, LoopOK
<1>5. SteadyOK(e)' /\ LoopOK(e)' /\ Quiet(e) /\ mem.frame[<<e, "tmp">>] = NoPage
  BY <1>0, <1>2, <1>4 DEF SteadyOK, Steady, LoopOK, Copying, Quiet, MappedOK
<1>6. CASE UNCHANGED <<memVars, child>>
  <2>1. EntriesKept /\ UNCHANGED <<state, parent>>
    BY <1>6 DEF memVars, procVars, EntriesKept
  <2>2. PlaceOK(e)'
    BY <1>0, <1>2, <1>3, <1>4, <1>6, <2>1 DEF PlaceOK, Forking
  <2>3. MappedOK(e)'
    <3>1. at'[e] = at[e]
      BY <1>2
    <3> QED BY <1>2, <1>5, <1>6, <2>1, <3>1, KeptMapped
  <2>4. ProgOK(e)'
    BY <1>5, <2>2, <2>3 DEF ProgOK
  <2> QED BY <1>2, <1>4, <1>5, <2>1, <2>4, KeptStep
<1>7. CASE Free(c) /\ child' = [child EXCEPT ![e] = NoEnv]
  <2>1. /\ state'[c] = "FREE" /\ GotFreed(c)
        /\ \A f \in Env \ {c} : /\ state'[f] = state[f]
                                /\ parent[f] # c => parent'[f] = parent[f]
    BY <1>3, <1>7, FreeOthers
  <2>2. child'[e] = NoEnv
    BY <1>0, <1>7 DEF CowTypeOK
  <2>3. Elsewhere(e, c)
    BY <1>4, <2>1 DEF Elsewhere, OnlyProg, GotFreed
  <2>4. Effect(e, c)
    BY <2>1 DEF Effect
  <2>5. \A va \in Va : mem'.frame[<<e, va>>] = mem.frame[<<e, va>>]
    BY <1>3, <2>1 DEF GotFreed
  <2>6. ProgOK(e)'
    <3>1. PlaceOK(e)'
      BY <1>0, <1>2, <1>3, <1>4, <2>1, <2>2 DEF PlaceOK, Forking
    <3>2. MappedOK(e)'
      BY <1>0, <1>3, <1>5, <2>2, <2>5, Layout DEF MappedOK
    <3> QED BY <1>5, <3>1, <3>2 DEF ProgOK
  <2>7. ProgOK(c)'
    <3>1. /\ pc'[c] = "user" /\ child'[c] = child[c] /\ at'[c] = at[c]
          /\ fault'[c] = fault[c] /\ fpc'[c] = fpc[c] /\ state'[c] # "UP"
          /\ mem'.frame[<<c, "tmp">>] = NoPage
      BY <1>3, <1>4, <2>1, Layout DEF OnlyProg, GotFreed
    <3> QED BY <1>3, <3>1, ChildOK
  <2>8. Inside(e, c)'
    BY <1>3, <1>5, <2>1, FreedInside
  <2> QED BY <1>3, <2>3, <2>4, <2>6, <2>7, <2>8, Compose
<1> QED BY <1>2, <1>6, <1>7

LEMMA ExoforkInv ==
  ASSUME MemInv, CowInv, CowTypeOK', NEW e \in Env, NEW c \in Env, Exofork(e, c)
  PROVE  CowInv'
<1>0. CowTypeOK /\ PlaceOK(e) /\ SteadyOK(e) /\ MappedOK(e)
  BY DEF CowInv, ProgOK
<1>1. /\ Up(e) /\ fault[e] = NoVa /\ pc[e] \in {"exofork", "exofork0"}
      /\ \E place \in {"page", "page0"} : Goto(e, place)
      /\ state[c] = "FREE" /\ mem.free # {} /\ mem' = EnvSetupVm(mem, c)
      /\ state' = [state EXCEPT ![c] = "EMBRYO"] /\ parent' = [parent EXCEPT ![c] = e]
      /\ child' = [child EXCEPT ![e] = c]
      /\ UNCHANGED <<at, pte, fault, fpc>>
  BY DEF Exofork, Loops, At, SysExofork
<1>2. /\ state[e] = "UP" /\ c # e /\ pc[e] # "panic" /\ child[e] = NoEnv /\ at[e] = 1
      /\ Mine(e, c) /\ Quiet(e) /\ mem.frame[<<e, "tmp">>] = NoPage
  BY <1>0, <1>1 DEF Up, PlaceOK, MappedOK, Forking, Mine, Quiet
<1>3. EntriesKept
  BY <1>1, SetupEntries
<1>4. /\ state'[c] = "EMBRYO" /\ parent'[c] = e /\ child'[e] = c /\ pc'[e] \in {"page", "page0"}
      /\ \A f \in Env \ {c} : state'[f] = state[f] /\ parent'[f] = parent[f]
      /\ OnlyProg(e)
  <2>1. /\ state \in [Env -> {"FREE", "LOADING", "EMBRYO", "UP", "BLOCKED"}]
        /\ parent \in [Env -> Env \cup {NoEnv}]
    BY DEF MemInv, ProcOK
  <2> QED BY <1>0, <1>1, <2>1 DEF Goto, OnlyProg, CowTypeOK
<1>5. Elsewhere(e, c)
  BY <1>3, <1>4 DEF Elsewhere, OnlyProg, EntriesKept
<1>6. Effect(e, c)
  BY <1>3 DEF Effect
<1>7. ProgOK(e)'
  <2>1. PlaceOK(e)'
    BY <1>0, <1>1, <1>2, <1>4, Layout DEF PlaceOK, Forking
  <2>2. SteadyOK(e)'
    BY <1>0, <1>1, <1>3, Layout DEF SteadyOK, Steady, EntriesKept
  <2>3. LoopOK(e)'
    BY <1>4 DEF LoopOK, Copying
  <2>4. MappedOK(e)'
    <3>1. \A va \in Va : mem'.frame[<<e, va>>] = mem.frame[<<e, va>>]
      BY <1>3 DEF EntriesKept
    <3>2. \A i \in {2, 3} : ~(i < at'[e])
      BY <1>1, <1>2
    <3> QED BY <1>0, <1>2, <3>1, <3>2, Layout DEF MappedOK
  <2> QED BY <2>1, <2>2, <2>3, <2>4 DEF ProgOK
<1>8. ProgOK(c)'
  <2>1. mem.frame[<<c, "tmp">>] = NoPage /\ pc[c] = "user"
    BY <1>1, FreeEmpty, Layout DEF CowInv, ProgOK, PlaceOK
  <2>2. /\ pc'[c] = "user" /\ child'[c] = child[c] /\ at'[c] = at[c]
        /\ fault'[c] = fault[c] /\ fpc'[c] = fpc[c] /\ state'[c] # "UP"
        /\ mem'.frame[<<c, "tmp">>] = NoPage
    BY <1>2, <1>3, <1>4, <2>1, Layout DEF OnlyProg, EntriesKept
  <2> QED BY <1>2, <2>2, ChildOK
<1>9. Inside(e, c)'
  BY <1>2, <1>3, KeptInside
<1> QED BY <1>2, <1>5, <1>6, <1>7, <1>8, <1>9, Compose

\* The child begins with every page that the loops have given it.
LEMMA StartInv ==
  ASSUME MemInv, CowInv, CowTypeOK', NEW e \in Env, Start(e)
  PROVE  CowInv'
<1>0. CowTypeOK /\ PlaceOK(e) /\ LoopOK(e) /\ MappedOK(e)
  BY DEF CowInv, ProgOK
<1>1. PICK c : c = child[e]
  OBVIOUS
<1>2. Up(e) /\ fault[e] = NoVa /\ pc[e] \in {"start", "page0"} /\ pc[e] # "panic" /\ at[e] = 5
  BY <1>0, Layout DEF Start, At, Done, CowTypeOK, LoopOK
<1>3. /\ state[e] = "UP" /\ fpc[e] = "alloc" /\ Quiet(e) /\ mem.frame[<<e, "tmp">>] = NoPage
  BY <1>0, <1>2 DEF Up, PlaceOK, Quiet, MappedOK
<1>4. EntriesKept
  BY DEF Start, SysEnvStart, memVars, EntriesKept
<1>5. CASE c = NoEnv
  <2>1. UserPanic(e) /\ UNCHANGED <<state, parent>>
    BY <1>1, <1>5 DEF Start, memVars, procVars
  <2>2. pc[e] \notin {"copy", "unmap"}
    BY <1>2
  <2> QED BY <1>2, <1>3, <1>4, <2>1, <2>2, PanicInv
<1>6. CASE c # NoEnv
  <2>1. /\ state' = [state EXCEPT ![c] = "UP"] /\ UNCHANGED parent
        /\ pc' = [pc EXCEPT ![e] = "user", ![c] = "user"] /\ Leave(e)
    BY <1>1, <1>6 DEF Start, SysEnvStart
  <2>2. /\ c \in Env /\ c # e /\ Mine(e, c) /\ state[c] = "EMBRYO" /\ parent[c] = e
    BY <1>1, <1>2, <1>6, RunsMine
  <2>3. /\ pc'[e] = "user" /\ child'[e] = NoEnv /\ at'[e] = 1 /\ fault'[e] = NoVa
        /\ fpc'[e] = "alloc" /\ pc'[c] = "user"
        /\ \A f \in Env \ {e} : child'[f] = child[f] /\ at'[f] = at[f] /\ pte'[f] = pte[f]
                                /\ fault'[f] = fault[f] /\ fpc'[f] = fpc[f]
        /\ \A f \in Env \ {e, c} : pc'[f] = pc[f]
    BY <1>0, <2>1, <2>2 DEF Leave, CowTypeOK
  <2>4. \A f \in Env \ {c} : state'[f] = state[f]
    BY <2>1 DEF MemInv, ProcOK
  <2>5. Elsewhere(e, c)
    BY <1>4, <2>1, <2>3, <2>4 DEF Elsewhere, EntriesKept
  <2>6. Effect(e, c)
    BY <1>4 DEF Effect
  <2>7. \A f \in Env, va \in Va : mem'.frame[<<f, va>>] = mem.frame[<<f, va>>]
    BY <1>4 DEF EntriesKept
  <2>8. ProgOK(e)'
    <3>1. PlaceOK(e)' /\ SteadyOK(e)' /\ LoopOK(e)'
      BY <2>3 DEF PlaceOK, SteadyOK, Steady, LoopOK, Copying, Forking
    <3>2. MappedOK(e)'
      BY <1>0, <1>3, <2>3, <2>7, Layout DEF MappedOK
    <3> QED BY <3>1, <3>2 DEF ProgOK
  <2>9. ProgOK(c)'
    <3>1. mem.frame[<<c, "text">>] # NoPage /\ mem.frame[<<c, "stack">>] # NoPage
      BY <1>0, <1>1, <1>2, <1>6, Layout DEF MappedOK
    <3>2. mem.frame[<<c, "tmp">>] = NoPage
      BY <2>2 DEF CowInv, ProgOK, PlaceOK, MappedOK
    <3>3. /\ \A va \in {"text", "stack"} : mem'.frame[<<c, va>>] # NoPage
          /\ mem'.frame[<<c, "tmp">>] = NoPage
      BY <2>2, <2>7, <3>1, <3>2, Layout
    <3> QED BY <2>2, <2>3, <3>3, ChildOK
  <2>10. Inside(e, c)'
    BY <1>3, <1>4, <2>2, KeptInside
  <2> QED BY <2>2, <2>5, <2>6, <2>8, <2>9, <2>10, Compose
<1> QED BY <1>5, <1>6

LEMMA RunsInv ==
  ASSUME MemInv, CowInv, NEW e \in Env, Runs(e)
  PROVE  CowInv'
<1>0. CowTypeOK'
  BY RunsType
<1>1. CASE Exit(e)
  <2>1. Up(e) /\ pc[e] # "panic" /\ Gone(e)
    BY <1>1 DEF Exit, At
  <2> QED BY <1>0, <2>1, GoneInv
<1>2. ASSUME NEW va \in Va, PageFault(e, va) PROVE CowInv'
  <2>1. Up(e) /\ pc[e] # "panic"
    BY <1>2 DEF PageFault, Writes
  <2>2. CASE Gone(e)
    BY <1>0, <2>1, <2>2, GoneInv
  <2>3. CASE ~Gone(e)
    BY <1>0, <1>2, <2>3, FaultInv
  <2> QED BY <2>2, <2>3
<1>3. ASSUME NEW va \in Va, NEW v \in Value, UserWrite(e, va, v) PROVE CowInv'
  BY <1>0, <1>3, WriteInv
<1>4. ASSUME NEW c \in Env, Exofork(e, c) PROVE CowInv'
  BY <1>0, <1>4, ExoforkInv
<1>5. CASE ForkCall(e) \/ HandlerAlloc(e) \/ HandlerUpcall(e) \/ ExoforkFails(e)
  BY <1>0, <1>5, ForkCallInv, HandlerAllocInv, HandlerUpcallInv, ExoforkFailsInv
<1>6. CASE PgfaultAlloc(e) \/ PgfaultCopy(e) \/ PgfaultMap(e) \/ PgfaultUnmap(e)
  BY <1>0, <1>6, PgfaultAllocInv, PgfaultCopyInv, PgfaultMapInv, PgfaultUnmapInv
<1>7. CASE SkipPage(e) \/ ReadPte(e) \/ DupChild(e) \/ DupOwn(e)
  BY <1>0, <1>7, SkipPageInv, ReadPteInv, DupChildInv, DupOwnInv
<1>8. CASE ShareV0(e) \/ AllocV0(e) \/ MapV0(e) \/ CopyV0(e) \/ UnmapV0(e)
  BY <1>0, <1>8, ShareV0Inv, AllocV0Inv, MapV0Inv, CopyInv, UnmapV0Inv
<1>9. CASE ChildStack(e) \/ ChildUpcall(e) \/ Start(e)
  BY <1>0, <1>9, ChildStackInv, ChildUpcallInv, StartInv
<1> QED BY <1>1, <1>2, <1>3, <1>4, <1>5, <1>6, <1>7, <1>8, <1>9 DEF Runs


-----------------------------------------------------------------------------
(* The kernel loads the first program.                                      *)

\* Nothing but the state and the pages of Root changes, and Root shares none.
LEMMA LoadStep ==
  ASSUME MemInv, CowInv, CowTypeOK', state[Root] \in {"FREE", "LOADING"},
         UNCHANGED <<pc, child, at, pte, fault, fpc, parent>>,
         \A f \in Env \ {Root} : state'[f] = state[f], state'[Root] # "EMBRYO",
         state'[Root] = "UP" => \A va \in {"text", "stack"} : mem'.frame[<<Root, va>>] # NoPage,
         \A f \in Env \ {Root}, va \in Va :
           /\ mem'.frame[<<f, va>>] = mem.frame[<<f, va>>]
           /\ mem'.perm[<<f, va>>] = mem.perm[<<f, va>>],
         mem'.frame[<<Root, "tmp">>] = NoPage,
         \A va, vb \in Va, g \in Env : Shared(Root, va, g, vb)' =>
           /\ Shared(Root, va, g, vb)
           /\ mem'.perm[<<Root, va>>] = mem.perm[<<Root, va>>]
           /\ mem'.perm[<<g, vb>>] = mem.perm[<<g, vb>>]
  PROVE  CowInv'
<1>0. CowTypeOK /\ Root \in Env
  BY SpaceAssumption DEF CowInv
<1>1. ASSUME NEW f \in Env PROVE child[f] # Root /\ (child[f] # NoEnv => child[f] \in Env)
  BY <1>0, <1>1, Layout DEF CowInv, ProgOK, PlaceOK, CowTypeOK
<1>2. /\ pc[Root] = "user" /\ fault[Root] = NoVa /\ child[Root] = NoEnv /\ at[Root] = 1
      /\ fpc[Root] = "alloc"
  BY <1>0 DEF CowInv, ProgOK, PlaceOK, Forking
<1>3. ProgOK(Root)'
  <2>1. PlaceOK(Root)' /\ SteadyOK(Root)' /\ LoopOK(Root)'
    BY <1>2 DEF PlaceOK, SteadyOK, Steady, LoopOK, Copying, Forking
  <2>2. MappedOK(Root)'
    BY <1>2 DEF MappedOK
  <2> QED BY <2>1, <2>2 DEF ProgOK
<1>4. ASSUME NEW f \in Env \ {Root} PROVE ProgOK(f)'
  <2>1. /\ ProgOK(f) /\ child[f] \in (Env \ {Root}) \cup {NoEnv}
        /\ \A i \in 1 .. 4 : Order[i] \in Va
    BY <1>1, Layout DEF CowInv
  <2>2. /\ state'[f] = state[f]
        /\ \A va \in Va : /\ mem'.frame[<<f, va>>] = mem.frame[<<f, va>>]
                          /\ mem'.perm[<<f, va>>] = mem.perm[<<f, va>>]
        /\ child[f] # NoEnv =>
             /\ state'[child[f]] = state[child[f]]
             /\ \A va \in Va :
                  /\ mem'.frame[<<child[f], va>>] = mem.frame[<<child[f], va>>]
                  /\ mem'.perm[<<child[f], va>>] = mem.perm[<<child[f], va>>]
    BY <2>1
  <2>3. PlaceOK(f)' /\ SteadyOK(f)'
    BY <2>1, <2>2, Layout DEF ProgOK, PlaceOK, SteadyOK, Steady
  <2>4. LoopOK(f)'
    <3>1. SUFFICES ASSUME pc[f] \in Copying PROVE LoopOK(f)'
      BY <2>1 DEF ProgOK, LoopOK
    <3>2. Here(f) \in Va /\ Here(f)' = Here(f) /\ child[f] # NoEnv
      BY <2>1, <3>1, AtPage DEF Here, ProgOK, PlaceOK
    <3> QED BY <2>1, <2>2, <3>2 DEF ProgOK, LoopOK
  <2>5. MappedOK(f)'
    BY <2>1, <2>2, Layout DEF ProgOK, MappedOK
  <2> QED BY <2>3, <2>4, <2>5 DEF ProgOK
<1>5. ASSUME NEW f \in Env, NEW g \in Env, NEW va \in Va, NEW vb \in Va,
             Shared(f, va, g, vb),
             mem'.perm[<<f, va>>] = mem.perm[<<f, va>>],
             mem'.perm[<<g, vb>>] = mem.perm[<<g, vb>>]
      PROVE  Explained(f, va, g, vb)'
  <2>1. ASSUME NEW a \in Env, NEW x, NEW b \in Env, NEW y, Making(a, x, b, y)
        PROVE  Making(a, x, b, y)'
    <3>1. state[a] = "UP" /\ a # Root /\ Here(a)' = Here(a)
      BY <2>1 DEF Making, Here
    <3>2. state[b] = "EMBRYO" => state'[b] = "EMBRYO"
      OBVIOUS
    <3> QED BY <2>1, <3>1, <3>2 DEF Making
  <2>2. Plain(f, va, g, vb) => Plain(f, va, g, vb)'
    BY <1>5 DEF Plain
  <2>3. Explained(f, va, g, vb)
    BY <1>5 DEF CowInv, SharingOK
  <2>4. Making(f, va, g, vb) => Making(f, va, g, vb)'
    BY <2>1
  <2>5. Making(g, vb, f, va) => Making(g, vb, f, va)'
    BY <2>1
  <2> QED BY <2>2, <2>3, <2>4, <2>5 DEF Explained
<1>6. SharingOK'
  <2> SUFFICES ASSUME NEW f \in Env, NEW g \in Env, NEW va \in Va, NEW vb \in Va,
                      Shared(f, va, g, vb)'
               PROVE  Explained(f, va, g, vb)'
    BY DEF SharingOK
  <2>1. CASE f = Root
    BY <1>5, <2>1
  <2>2. CASE g = Root
    <3>1. Shared(g, vb, f, va)'
      BY Symmetric
    <3>2. Explained(g, vb, f, va)'
      BY <1>5, <2>2, <3>1
    <3> QED BY <3>2, Symmetric
  <2>3. CASE f # Root /\ g # Root
    <3>1. /\ Shared(f, va, g, vb)
          /\ mem'.perm[<<f, va>>] = mem.perm[<<f, va>>]
          /\ mem'.perm[<<g, vb>>] = mem.perm[<<g, vb>>]
      BY <2>3 DEF Shared
    <3> QED BY <1>5, <3>1
  <2> QED BY <2>1, <2>2, <2>3
<1> QED BY <1>3, <1>4, <1>6 DEF CowInv

LEMMA BootInv ==
  ASSUME MemInv, CowInv, CowBoot
  PROVE  CowInv'
<1>0. /\ UNCHANGED <<pc, child, at, pte, fault, fpc>> /\ CowTypeOK' /\ Root \in Env
      /\ "text" \in Image /\ "stack" \in Image /\ "tmp" \notin Image /\ Image \subseteq Va
  BY LayoutAssumption, SpaceAssumption DEF CowBoot, CowInv, CowTypeOK, fixVars, progVars
<1>1. state \in [Env -> {"FREE", "LOADING", "EMBRYO", "UP", "BLOCKED"}]
  BY DEF MemInv, ProcOK
<1>2. ASSUME state[Root] \in {"FREE", "LOADING"} PROVE mem.frame[<<Root, "tmp">>] = NoPage
  BY <1>0, <1>2 DEF CowInv, ProgOK, PlaceOK, MappedOK
<1>3. ASSUME UNCHANGED <<mem, state, parent>>, state[Root] \in {"FREE", "LOADING"}
      PROVE  CowInv'
  <2>1. UNCHANGED <<pc, child, at, pte, fault, fpc, parent>>
    BY <1>0, <1>3
  <2>2. \A va, vb \in Va, g \in Env : Shared(Root, va, g, vb)' => Shared(Root, va, g, vb)
    BY <1>3 DEF Shared
  <2> QED BY <1>0, <1>2, <1>3, <2>1, <2>2, LoadStep
<1>4. CASE EnvCreate
  <2>1. CASE Panic
    BY <1>3, <1>4, <2>1 DEF EnvCreate, Panic
  <2>2. CASE ~Panic
    <3>1. /\ state[Root] = "FREE" /\ mem.free # {} /\ mem' = EnvSetupVm(mem, Root)
          /\ state' = [state EXCEPT ![Root] = "LOADING"] /\ UNCHANGED parent
      BY <1>0, <1>4, <2>2 DEF EnvCreate
    <3>2. EntriesKept
      BY <1>0, <3>1, SetupEntries
    <3>3. state'[Root] = "LOADING" /\ \A f \in Env \ {Root} : state'[f] = state[f]
      BY <1>0, <1>1, <3>1
    <3>4. \A f \in Env, va \in Va :
            /\ mem'.frame[<<f, va>>] = mem.frame[<<f, va>>]
            /\ mem'.perm[<<f, va>>] = mem.perm[<<f, va>>]
      BY <3>2 DEF EntriesKept
    <3>5. \A va, vb \in Va, g \in Env : Shared(Root, va, g, vb)' => Shared(Root, va, g, vb)
      BY <1>0, <3>4 DEF Shared
    <3>6. mem'.frame[<<Root, "tmp">>] = NoPage
      BY <1>0, <1>2, <3>1, <3>4, Layout
    <3>7. UNCHANGED <<pc, child, at, pte, fault, fpc, parent>>
      BY <1>0, <3>1
    <3> QED BY <1>0, <3>1, <3>3, <3>4, <3>5, <3>6, <3>7, LoadStep
  <2> QED BY <2>1, <2>2
<1>5. ASSUME NEW va \in Image, RegionAlloc(va) PROVE CowInv'
  <2>1. CASE Panic
    BY <1>3, <1>5, <2>1 DEF RegionAlloc, Panic
  <2>2. CASE ~Panic
    <3>1. /\ state[Root] = "LOADING" /\ CanAlloc(mem, Root, va)
          /\ mem' = EnvPageAlloc(mem, Root, va, {"W"})
          /\ state' = [state EXCEPT ![Root] =
               IF \A v \in Image \ {va} : mem.frame[<<Root, v>>] # NoPage
               THEN "UP" ELSE "LOADING"]
          /\ UNCHANGED parent
      BY <1>5, <2>2 DEF RegionAlloc
    <3>2. va \in Va /\ va # "tmp"
      BY <1>0
    <3>3. GotFresh(Root, va, {"W"})
      BY <1>0, <3>1, <3>2, AllocEntries, Layout
    <3>4. /\ mem'.frame[<<Root, va>>] # NoPage
          /\ \A f \in Env, vc \in Va : mem.frame[<<f, vc>>] # mem'.frame[<<Root, va>>]
          /\ \A f \in Env, vc \in Va : f # Root \/ vc # va =>
               /\ mem'.frame[<<f, vc>>] = mem.frame[<<f, vc>>]
               /\ mem'.perm[<<f, vc>>] = mem.perm[<<f, vc>>]
      BY <3>3 DEF GotFresh, OthersKept
    <3>5. ASSUME NEW vc \in Va, NEW vb \in Va, NEW g \in Env, Shared(Root, vc, g, vb)'
          PROVE  /\ Shared(Root, vc, g, vb)
                 /\ mem'.perm[<<Root, vc>>] = mem.perm[<<Root, vc>>]
                 /\ mem'.perm[<<g, vb>>] = mem.perm[<<g, vb>>]
      <4>1. vc # va
        BY <1>0, <3>2, <3>4, <3>5 DEF Shared
      <4>2. ~(g = Root /\ vb = va)
        BY <1>0, <3>2, <3>4, <3>5, <4>1 DEF Shared
      <4> QED BY <1>0, <3>4, <3>5, <4>1, <4>2 DEF Shared
    <3>6. mem'.frame[<<Root, "tmp">>] = NoPage
      BY <1>0, <1>2, <3>1, <3>2, <3>4, Layout
    <3>7. /\ state'[Root] \in {"UP", "LOADING"}
          /\ \A f \in Env \ {Root} : state'[f] = state[f]
          /\ state'[Root] = "UP" => \A v \in Image \ {va} : mem.frame[<<Root, v>>] # NoPage
      BY <1>0, <1>1, <3>1
    <3>8. state'[Root] = "UP" => \A v \in {"text", "stack"} : mem'.frame[<<Root, v>>] # NoPage
      BY <1>0, <3>4, <3>7
    <3>9. /\ UNCHANGED <<pc, child, at, pte, fault, fpc, parent>>
          /\ \A f \in Env \ {Root}, vc \in Va :
               /\ mem'.frame[<<f, vc>>] = mem.frame[<<f, vc>>]
               /\ mem'.perm[<<f, vc>>] = mem.perm[<<f, vc>>]
      BY <1>0, <3>1, <3>4
    <3> QED BY <1>0, <3>1, <3>5, <3>6, <3>7, <3>8, <3>9, LoadStep
  <2> QED BY <2>1, <2>2
<1> QED BY <1>4, <1>5 DEF CowBoot

-----------------------------------------------------------------------------
(* Who can write the copy-on-write pages, while no allocation has failed.    *)

NoCow(e) == \A va \in Va : "COW" \notin mem.perm[<<e, va>>]
Armed(e) == UserMemCheck(e, "xstk", {"W"})
Ready(e) == upcall[e] /\ hand[e] /\ Armed(e)

\* The calls of fork() so far, and to come.
Forked == \E n \in 1 .. forks : plan[n] = "fork"
LastFork == \A n \in DOMAIN plan : n > forks => plan[n] # "fork"

ForkLoop == {"page", "dup", "own"}
InFork == ForkLoop \cup {"exofork", "childcall", "start"}
V0Loop == {"page0", "dup0", "utemp", "copy", "unmap"}
InV0 == V0Loop \cup {"exofork0"}

\* A program has the handler from set_pgfault_handler() or from its parent; without
\* an upcall as well it comes from fork_v0(), and no fork() is left to go wrong.
RunningOK(e) ==
  /\ NoCow(e) \/ Ready(e)
  /\ hand[e] => Forked /\ (Ready(e) \/ LastFork)
  /\ pc[e] \in {"xalloc", "upcall"} => Forked
  /\ pc[e] = "upcall" => Armed(e)
  /\ pc[e] \in InFork => Ready(e)
  /\ pc[e] \in InV0 /\ hand[e] => LastFork

\* What the child has been given so far.
KidOK(e) == child[e] # NoEnv =>
  /\ pc[e] \in InV0 => NoCow(child[e])
  /\ pc[e] \in {"childcall", "start"} => Armed(child[e])
  /\ pc[e] = "start" => upcall[child[e]]

HandOK(e) ==
  /\ state[e] \in {"FREE", "LOADING"} => NoCow(e) /\ ~hand[e]
  /\ state[e] = "UP" => RunningOK(e) /\ KidOK(e)

HandsOK == \A e \in Env : HandOK(e)
HandInv == ~starved /\ ~ForksHalfArmed => HandsOK

\* What a step leaves of the entries of a.
KeepsCow(a) == NoCow(a) => NoCow(a)'
KeepsArmed(a) == Armed(a) => Armed(a)'
Tame(a) == KeepsCow(a) /\ KeepsArmed(a)

LEMMA KeptTame ==
  ASSUME NEW a \in Env, EntriesKept
  PROVE  Tame(a)
BY Layout DEF Tame, KeepsCow, KeepsArmed, EntriesKept, NoCow, Armed, UserMemCheck

LEMMA OtherTame ==
  ASSUME NEW t, NEW k, OthersKept(t, k), NEW a \in Env, a # t
  PROVE  Tame(a)
BY Layout DEF Tame, KeepsCow, KeepsArmed, OthersKept, NoCow, Armed, UserMemCheck

LEMMA ChangedArmed ==
  ASSUME NEW t \in Env, NEW k \in Va, k # "xstk", OthersKept(t, k)
  PROVE  KeepsArmed(t)
BY Layout DEF KeepsArmed, OthersKept, Armed, UserMemCheck

LEMMA ChangedCow ==
  ASSUME NEW t \in Env, NEW k \in Va, OthersKept(t, k),
         "COW" \in mem'.perm[<<t, k>>] => "COW" \in mem.perm[<<t, k>>]
  PROVE  KeepsCow(t)
BY DEF KeepsCow, OthersKept, NoCow

\* The calls of fork() are only counted.
CountsCalls == plan' = plan /\ (forks' = forks \/ forks' = forks + 1)

LEMMA CallsFacts ==
  ASSUME CowTypeOK, CountsCalls
  PROVE  (Forked => Forked') /\ (LastFork => LastFork')
<1>1. forks \in Nat /\ forks' \in Nat /\ forks <= forks'
  BY DEF CowTypeOK, CountsCalls
<1>2. plan' = plan /\ DOMAIN plan \subseteq Nat
  <2>1. plan \in Seq({"fork", "fork_v0"})
    BY LayoutAssumption DEF CowTypeOK
  <2> QED BY <2>1 DEF CountsCalls
<1>3. Forked => Forked'
  <2>1. \A n \in 1 .. forks : n \in 1 .. forks'
    BY <1>1
  <2> QED BY <1>2, <2>1 DEF Forked
<1>4. LastFork => LastFork'
  <2>1. \A n \in DOMAIN plan : n > forks' => n > forks
    BY <1>1, <1>2
  <2> QED BY <1>2, <2>1 DEF LastFork
<1> QED BY <1>3, <1>4

\* A step of e and c leaves what is said of the others.
LEMMA HandStep ==
  ASSUME MemInv, CowInv, HandsOK, NEW e, NEW c, Mine(e, c), Elsewhere(e, c), CountsCalls,
         \A f \in Env \ {e, c} : hand'[f] = hand[f] /\ upcall'[f] = upcall[f],
         HandOK(e)', c \in Env => HandOK(c)'
  PROVE  HandsOK'
<1> SUFFICES ASSUME NEW f \in Env \ {e, c} PROVE HandOK(f)'
  BY DEF HandsOK, Mine
<1>0. PICK d : d = child[f]
  OBVIOUS
<1>1. /\ HandOK(f) /\ ProgOK(f) /\ CowTypeOK
      /\ pc'[f] = pc[f] /\ child'[f] = d /\ state'[f] = state[f]
      /\ hand'[f] = hand[f] /\ upcall'[f] = upcall[f]
      /\ \A va \in Va : /\ mem'.frame[<<f, va>>] = mem.frame[<<f, va>>]
                        /\ mem'.perm[<<f, va>>] = mem.perm[<<f, va>>]
  BY <1>0 DEF Elsewhere, HandsOK, CowInv
<1>2. ASSUME d # NoEnv
      PROVE  /\ d \in Env /\ d \notin {e, c} /\ upcall'[d] = upcall[d]
             /\ \A va \in Va : /\ mem'.frame[<<d, va>>] = mem.frame[<<d, va>>]
                               /\ mem'.perm[<<d, va>>] = mem.perm[<<d, va>>]
  <2>1. d \in Env /\ state[d] = "EMBRYO" /\ parent[d] = f
    BY <1>0, <1>1, <1>2 DEF ProgOK, PlaceOK, CowTypeOK
  <2>2. c = child[e] /\ c \in Env => parent[c] = e
    BY Layout DEF CowInv, ProgOK, PlaceOK, Mine
  <2>3. d \notin {e, c} /\ f \notin {e, c}
    BY <2>1, <2>2 DEF Mine
  <2> QED BY <2>1, <2>3 DEF Elsewhere
<1>3. (Forked => Forked') /\ (LastFork => LastFork')
  BY <1>1, CallsFacts
<1>4. (NoCow(f)' <=> NoCow(f)) /\ (Armed(f)' <=> Armed(f))
  BY <1>1, Layout DEF NoCow, Armed, UserMemCheck
<1>5. d # NoEnv => (NoCow(d)' <=> NoCow(d)) /\ (Armed(d)' <=> Armed(d))
  BY <1>2, Layout DEF NoCow, Armed, UserMemCheck
<1>6. RunningOK(f) => RunningOK(f)'
  BY <1>1, <1>3, <1>4 DEF RunningOK, Ready
<1>7. KidOK(f) => KidOK(f)'
  BY <1>0, <1>1, <1>2, <1>5 DEF KidOK
<1> QED BY <1>1, <1>4, <1>6, <1>7 DEF HandOK

\* A step that changes the variables of e and one entry: its child has not started.
LEMMA LocalHand ==
  ASSUME MemInv, CowInv, HandsOK, CountsCalls, NEW e \in Env, Up(e), pc[e] # "panic",
         NEW c, c = child[e], OnlyProg(e), UNCHANGED <<state, parent>>, Touch(e, c),
         \A f \in Env \ {e} : hand'[f] = hand[f],
         \A f \in Env \ {e, c} : upcall'[f] = upcall[f],
         RunningOK(e)', KidOK(e)'
  PROVE  HandsOK'
<1>1. /\ Mine(e, c) /\ state[e] = "UP"
      /\ c # NoEnv => c \in Env /\ c # e /\ state[c] = "EMBRYO"
  BY RunsMine
<1>2. Elsewhere(e, c)
  <2>1. /\ Effect(e, c)
        /\ \A f \in Env \ {e, c}, va \in Va :
             /\ mem'.frame[<<f, va>>] = mem.frame[<<f, va>>]
             /\ mem'.perm[<<f, va>>] = mem.perm[<<f, va>>]
        /\ c \in Env \ {e} => mem'.frame[<<c, "tmp">>] = mem.frame[<<c, "tmp">>]
    BY TouchFacts
  <2> QED BY <2>1 DEF Elsewhere, OnlyProg
<1>3. HandOK(e)'
  BY <1>1 DEF HandOK
<1>4. c \in Env => HandOK(c)'
  BY <1>1, Layout DEF HandOK
<1> QED BY <1>1, <1>2, <1>3, <1>4, HandStep

\* The step leaves the program in the loop where it is, or outside of fork().
SamePart(e) ==
  \/ /\ pc'[e] = pc[e] /\ KeepsCow(e)
     /\ child[e] # NoEnv => KeepsCow(child[e]) /\ KeepsArmed(child[e])
  \/ pc[e] \in ForkLoop /\ pc'[e] \in ForkLoop
  \/ pc[e] \in V0Loop /\ pc'[e] \in V0Loop /\ KeepsCow(e) /\ KeepsCow(child[e])

LEMMA PartHand ==
  ASSUME MemInv, CowInv, HandsOK, CountsCalls, NEW e \in Env, Up(e), pc[e] # "panic",
         OnlyProg(e), UNCHANGED <<state, parent, child, hand, upcall>>, Touch(e, child[e]),
         KeepsArmed(e), SamePart(e)
  PROVE  HandsOK'
<1>1. PICK c : c = child[e]
  OBVIOUS
<1>2. /\ CowTypeOK /\ RunningOK(e) /\ KidOK(e) /\ c \in Env \cup {NoEnv}
  BY <1>1, RunsMine DEF CowInv, HandsOK, HandOK
<1>3. (Forked => Forked') /\ (LastFork => LastFork')
  BY <1>2, CallsFacts
<1>4. upcall'[e] = upcall[e] /\ hand'[e] = hand[e] /\ child'[e] = c
  BY <1>1
<1>5. (Ready(e) => Ready(e)') /\ (Armed(e) => Armed(e)')
  BY <1>4 DEF KeepsArmed, Ready
<1>6. NoCow(e)' \/ Ready(e)'
  BY <1>2, <1>5 DEF SamePart, KeepsCow, RunningOK, InFork, ForkLoop
<1>7. RunningOK(e)'
  BY <1>2, <1>3, <1>4, <1>5, <1>6
     DEF SamePart, RunningOK, InFork, InV0, ForkLoop, V0Loop
<1>8. KidOK(e)'
  <2>1. SUFFICES ASSUME c # NoEnv
                 PROVE  /\ pc'[e] \in InV0 => NoCow(c)'
                        /\ pc'[e] \in {"childcall", "start"} => Armed(c)'
                        /\ pc'[e] = "start" => upcall'[c]
    BY <1>4 DEF KidOK
  <2>2. /\ pc[e] \in InV0 => NoCow(c)
        /\ pc[e] \in {"childcall", "start"} => Armed(c)
        /\ pc[e] = "start" => upcall[c]
    BY <1>1, <1>2, <2>1 DEF KidOK
  <2>3. \/ pc'[e] = pc[e] /\ (NoCow(c) => NoCow(c)') /\ (Armed(c) => Armed(c)')
        \/ pc'[e] \in ForkLoop
        \/ pc[e] \in V0Loop /\ pc'[e] \in V0Loop /\ (NoCow(c) => NoCow(c)')
    BY <1>1, <1>4, <2>1 DEF SamePart, KeepsCow, KeepsArmed
  <2>4. upcall'[c] = upcall[c]
    OBVIOUS
  <2> QED BY <2>2, <2>3, <2>4 DEF InV0, ForkLoop, V0Loop
<1> QED BY <1>1, <1>4, <1>7, <1>8, LocalHand

\* The entries are as they were.
LEMMA KeptHand ==
  ASSUME MemInv, CowInv, HandsOK, CountsCalls, NEW e \in Env, Up(e), pc[e] # "panic",
         OnlyProg(e), UNCHANGED <<state, parent, child, hand, upcall>>, EntriesKept,
         \/ pc'[e] = pc[e]
         \/ pc[e] \in ForkLoop /\ pc'[e] \in ForkLoop
         \/ pc[e] \in V0Loop /\ pc'[e] \in V0Loop
  PROVE  HandsOK'
<1>1. child[e] # NoEnv => child[e] \in Env
  BY RunsMine
<1>2. Tame(e) /\ (child[e] # NoEnv => Tame(child[e]))
  BY <1>1, KeptTame
<1>3. pc[e] \in V0Loop => child[e] # NoEnv
  BY RunsMine DEF ProgOK, PlaceOK, V0Loop, Forking
<1>4. SamePart(e) /\ KeepsArmed(e)
  BY <1>2, <1>3 DEF SamePart, Tame
<1>5. Touch(e, child[e])
  BY DEF Touch
<1> QED BY <1>4, <1>5, PartHand

\* One entry of e changes, not the one of the exception stack, and not to a
\* copy-on-write page.
LEMMA OwnEntryHand ==
  ASSUME MemInv, CowInv, HandsOK, CountsCalls, NEW e \in Env, Up(e), pc[e] # "panic",
         OnlyProg(e), UNCHANGED <<state, parent, child, hand, upcall>>, Touch(e, child[e]),
         NEW k \in Va, k # "xstk", OthersKept(e, k),
         "COW" \in mem'.perm[<<e, k>>] => "COW" \in mem.perm[<<e, k>>],
         pc'[e] = pc[e] \/ (pc[e] \in V0Loop /\ pc'[e] \in V0Loop)
  PROVE  HandsOK'
<1>1. child[e] # NoEnv => child[e] \in Env /\ child[e] # e
  BY RunsMine
<1>2. child[e] # NoEnv => Tame(child[e])
  BY <1>1, OtherTame
<1>3. pc[e] \in V0Loop => child[e] # NoEnv
  BY RunsMine DEF ProgOK, PlaceOK, V0Loop, Forking
<1>4. SamePart(e)
  BY <1>2, <1>3, ChangedCow DEF SamePart, Tame
<1>5. KeepsArmed(e)
  BY ChangedArmed
<1> QED BY <1>4, <1>5, PartHand

\* A step of a loop that gives the child a page.
LEMMA KidEntryHand ==
  ASSUME MemInv, CowInv, HandsOK, CountsCalls, NEW e \in Env, Up(e), pc[e] # "panic",
         OnlyProg(e), UNCHANGED <<state, parent, child, hand, upcall>>, Touch(e, child[e]),
         child[e] \in Env, NEW k \in Va, OthersKept(child[e], k),
         \/ pc[e] \in ForkLoop /\ pc'[e] \in ForkLoop
         \/ /\ pc[e] \in V0Loop /\ pc'[e] \in V0Loop
            /\ "COW" \notin mem'.perm[<<child[e], k>>]
  PROVE  HandsOK'
<1>1. PICK c : c = child[e]
  OBVIOUS
<1>2. c \in Env /\ c # e
  BY <1>1, RunsMine, Layout
<1>3. Tame(e)
  BY <1>1, <1>2, OtherTame
<1>4. "COW" \notin mem'.perm[<<c, k>>] => KeepsCow(c)
  BY <1>1, <1>2, ChangedCow
<1>5. KeepsCow(c) => KeepsCow(child[e])
  BY <1>1 DEF KeepsCow
<1>6. SamePart(e)
  BY <1>1, <1>3, <1>4, <1>5 DEF SamePart, Tame
<1>7. KeepsArmed(e)
  BY <1>3 DEF Tame
<1> QED BY <1>6, <1>7, PartHand

LEMMA WriteHand ==
  ASSUME MemInv, CowInv, HandsOK, NEW e \in Env, NEW va \in Va, NEW v, UserWrite(e, va, v)
  PROVE  HandsOK'
<1>1. /\ Up(e) /\ va \in Writes(e) /\ Write(e, va, v)
      /\ UNCHANGED <<pc, child, at, pte, fault, fpc, state, parent, hand, upcall, plan, forks>>
  BY DEF UserWrite, progVars, fixVars, Write, procVars
<1>2. pc[e] # "panic"
  BY <1>1 DEF Writes
<1>3. EntriesKept
  BY <1>1, WriteEntries
<1>4. OnlyProg(e) /\ CountsCalls /\ pc'[e] = pc[e]
  BY <1>1 DEF OnlyProg, CountsCalls
<1> QED BY <1>1, <1>2, <1>3, <1>4, KeptHand

LEMMA FaultHand ==
  ASSUME MemInv, CowInv, HandsOK, NEW e \in Env, NEW va \in Va, PageFault(e, va), ~Gone(e)
  PROVE  HandsOK'
<1>1. /\ Up(e) /\ va \in Writes(e) /\ UNCHANGED fixVars
      /\ fault' = [fault EXCEPT ![e] = va]
      /\ UNCHANGED <<memVars, pc, child, at, pte, fpc, hand, upcall>>
  BY DEF PageFault
<1>2. pc[e] # "panic"
  BY <1>1 DEF Writes
<1>3. EntriesKept /\ UNCHANGED <<state, parent>>
  BY <1>1 DEF memVars, procVars, EntriesKept
<1>4. OnlyProg(e) /\ CountsCalls /\ pc'[e] = pc[e]
  BY <1>1 DEF OnlyProg, CountsCalls, fixVars, CowInv, CowTypeOK
<1> QED BY <1>1, <1>2, <1>3, <1>4, KeptHand

LEMMA PgfaultHand ==
  ASSUME MemInv, CowInv, HandsOK, NEW e \in Env, ~starved',
         PgfaultAlloc(e) \/ PgfaultCopy(e) \/ PgfaultMap(e) \/ PgfaultUnmap(e)
  PROVE  HandsOK'
<1>0. CowTypeOK
  BY DEF CowInv
<1>1. \E place \in {"alloc", "copy", "map", "unmap"} : InFault(e, place)
  BY DEF PgfaultAlloc, PgfaultCopy, PgfaultMap, PgfaultUnmap
<1>2. /\ Up(e) /\ pc[e] # "panic" /\ fault[e] \in {"text", "stack"} /\ fault[e] \in Va
      /\ fault[e] # "tmp" /\ fault[e] # "xstk"
  BY <1>1, InsideFault
<1>3. /\ UNCHANGED <<pc, child, at, pte, hand, upcall, starved, plan, forks>>
      /\ \A f \in Env \ {e} : fault'[f] = fault[f] /\ fpc'[f] = fpc[f]
  BY <1>0 DEF PgfaultAlloc, PgfaultCopy, PgfaultMap, PgfaultUnmap, UserPanic, fixVars, CowTypeOK
<1>4. OnlyProg(e) /\ CountsCalls /\ pc'[e] = pc[e]
  BY <1>3 DEF OnlyProg, CountsCalls
<1>5. PICK c : c = child[e]
  OBVIOUS
<1>6. CASE PgfaultAlloc(e)
  <2>1. /\ mem' = EnvPageAlloc(mem, e, "tmp", {"W"}) /\ CanAlloc(mem, e, "tmp")
        /\ UNCHANGED <<state, parent>>
    BY <1>6 DEF PgfaultAlloc, SysPageAlloc, procVars, UserPanic
  <2>2. GotFresh(e, "tmp", {"W"})
    BY <2>1, AllocEntries, Layout
  <2>3. /\ OthersKept(e, "tmp") /\ "COW" \notin mem'.perm[<<e, "tmp">>] /\ "tmp" # "xstk"
    BY <2>2 DEF GotFresh
  <2>4. Touch(e, c)
    BY <1>2, <1>5, <2>2, RunsMine, Layout DEF Touch
  <2> QED BY <1>2, <1>3, <1>4, <1>5, <2>1, <2>3, <2>4, Layout, OwnEntryHand
<1>7. CASE PgfaultCopy(e)
  <2>1. /\ Write(e, "tmp", mem.data[mem.frame[<<e, fault[e]>>]]) /\ UNCHANGED <<state, parent>>
    BY <1>7 DEF PgfaultCopy, Write, procVars
  <2>2. EntriesKept
    BY <2>1, WriteEntries, Layout
  <2> QED BY <1>2, <1>3, <1>4, <2>1, <2>2, KeptHand
<1>8. CASE PgfaultMap(e)
  <2>1. mem' = EnvPageMap(mem, e, "tmp", e, fault[e], {"W"}) /\ UNCHANGED <<state, parent>>
    BY <1>8 DEF PgfaultMap, SysPageMap, procVars
  <2>2. CASE MayMap(mem, e, "tmp", e, fault[e], {"W"})
    <3>1. PICK k : k = fault[e]
      OBVIOUS
    <3>2. GotMapped(e, "tmp", e, k, {"W"})
      BY <1>2, <2>1, <2>2, <3>1, MapEntries, Layout
    <3>3. OthersKept(e, k) /\ "COW" \notin mem'.perm[<<e, k>>] /\ k # "xstk" /\ k \in Va
      BY <1>2, <3>1, <3>2 DEF GotMapped
    <3>4. Touch(e, c)
      BY <1>2, <1>5, <3>2, <3>3, RunsMine, Layout DEF Touch
    <3> QED BY <1>2, <1>3, <1>4, <1>5, <2>1, <3>3, <3>4, OwnEntryHand
  <2>3. CASE ~MayMap(mem, e, "tmp", e, fault[e], {"W"})
    <3>1. EntriesKept
      BY <1>2, <2>1, <2>3, MapEntries, Layout
    <3> QED BY <1>2, <1>3, <1>4, <2>1, <3>1, KeptHand
  <2> QED BY <2>2, <2>3
<1>9. CASE PgfaultUnmap(e)
  <2>1. mem' = PageRemove(mem, e, "tmp") /\ UNCHANGED <<state, parent>>
    BY <1>9 DEF PgfaultUnmap, SysPageUnmap, procVars
  <2>2. GotCleared(e, "tmp") /\ OthersKept(e, "tmp")
    BY <2>1, UnmapEntries, Layout DEF GotCleared
  <2>3. "COW" \in mem'.perm[<<e, "tmp">>] => "COW" \in mem.perm[<<e, "tmp">>]
    BY <2>1, UnmapCow, Layout
  <2>4. Touch(e, c)
    BY <1>2, <1>5, <2>2, RunsMine, Layout DEF Touch
  <2> QED BY <1>2, <1>3, <1>4, <1>5, <2>1, <2>2, <2>3, <2>4, Layout, OwnEntryHand
<1> QED BY <1>6, <1>7, <1>8, <1>9

\* The steps of the loops that map nothing.
LEMMA LoopKeptHand ==
  ASSUME MemInv, CowInv, HandsOK, NEW e \in Env, SkipPage(e) \/ ReadPte(e) \/ CopyV0(e)
  PROVE  HandsOK'
<1>0. CowTypeOK
  BY DEF CowInv
<1>1. /\ Up(e) /\ pc[e] \in {"page", "page0", "copy"}
      /\ UNCHANGED <<child, fault, fpc, hand, upcall, plan, forks>>
  BY DEF SkipPage, ReadPte, CopyV0, InLoop, At, fixVars
<1>2. UNCHANGED <<state, parent>> /\ EntriesKept
  <2>1. CASE CopyV0(e)
    <3>1. Write(e, "tmp", mem.data[mem.frame[<<e, Here(e)>>]])
      BY <2>1 DEF CopyV0
    <3> QED BY <3>1, WriteEntries, Layout DEF Write, procVars
  <2>2. CASE SkipPage(e) \/ ReadPte(e)
    BY <2>2 DEF SkipPage, ReadPte, memVars, procVars, EntriesKept
  <2> QED BY <2>1, <2>2
<1>3. \A f \in Env \ {e} : pc'[f] = pc[f] /\ at'[f] = at[f] /\ pte'[f] = pte[f]
  BY <1>0 DEF SkipPage, ReadPte, CopyV0, NextPage, Goto, CowTypeOK
<1>4. OnlyProg(e) /\ CountsCalls
  BY <1>1, <1>3 DEF OnlyProg, CountsCalls
<1>5. \/ pc[e] \in ForkLoop /\ pc'[e] \in ForkLoop
      \/ pc[e] \in V0Loop /\ pc'[e] \in V0Loop
  BY <1>0, <1>1 DEF SkipPage, ReadPte, CopyV0, At, NextPage, Goto, CowTypeOK, ForkLoop, V0Loop
<1> QED BY <1>1, <1>2, <1>4, <1>5, KeptHand DEF ForkLoop, V0Loop

\* The child gets the page at hand from its parent.
LEMMA GiveHand ==
  ASSUME MemInv, CowInv, HandsOK, ~starved', NEW e \in Env,
         NEW from \in {"dup", "dup0"}, At(e, from),
         NEW perm \in SUBSET Bits, from = "dup0" => perm = {},
         NEW place, IF from = "dup" THEN place \in {"page", "own"} ELSE place = "page0",
         MapStep(e, e, Here(e), child[e], Here(e), perm, place)
  PROVE  HandsOK'
<1>1. PICK c, k : c = child[e] /\ k = Here(e)
  OBVIOUS
<1>2. /\ CowTypeOK /\ Up(e) /\ pc[e] = from /\ pc[e] # "panic" /\ c \in Env /\ c # e /\ k \in Va
      /\ k # "tmp"
  BY <1>1, LoopFacts DEF Copying
<1>3. MayMap(mem, e, k, c, k, perm) /\ UNCHANGED <<plan, forks>>
  BY <1>1 DEF MapStep, UserPanic, fixVars
<1>4. /\ GotMapped(e, k, c, k, perm) /\ OnlyProg(e) /\ pc'[e] = place
      /\ UNCHANGED <<state, parent, child, hand, upcall>>
  BY <1>1, <1>2, <1>3, MapStepDone
<1>5. OthersKept(c, k) /\ mem'.perm[<<c, k>>] = perm /\ CountsCalls
  BY <1>3, <1>4 DEF GotMapped, CountsCalls
<1>6. Touch(e, c)
  BY <1>2, <1>4 DEF Touch
<1>7. \/ pc[e] \in ForkLoop /\ pc'[e] \in ForkLoop
      \/ pc[e] \in V0Loop /\ pc'[e] \in V0Loop /\ "COW" \notin mem'.perm[<<child[e], k>>]
  BY <1>1, <1>2, <1>4, <1>5 DEF ForkLoop, V0Loop
<1> QED BY <1>1, <1>2, <1>4, <1>5, <1>6, <1>7, KidEntryHand

LEMMA DupHand ==
  ASSUME MemInv, CowInv, HandsOK, ~starved', NEW e \in Env, DupChild(e) \/ ShareV0(e)
  PROVE  HandsOK'
<1>1. CASE DupChild(e)
  <2>1. At(e, "dup") /\ Into(e) = child[e]
    BY <1>1 DEF DupChild, At, Into
  <2>2. CASE MapStep(e, e, Here(e), child[e], Here(e), {"COW"}, "own")
    BY <2>1, <2>2, Layout, GiveHand
  <2>3. CASE MapStep(e, e, Here(e), child[e], Here(e), {}, "page")
    BY <2>1, <2>3, Layout, GiveHand
  <2> QED BY <1>1, <2>1, <2>2, <2>3 DEF DupChild
<1>2. CASE ShareV0(e)
  BY <1>2, Layout, GiveHand DEF ShareV0
<1> QED BY <1>1, <1>2

\* The parent makes its own page copy-on-write, which it is ready for.
LEMMA DupOwnHand ==
  ASSUME MemInv, CowInv, HandsOK, ~starved', NEW e \in Env, DupOwn(e)
  PROVE  HandsOK'
<1>1. PICK c, k : c = child[e] /\ k = Here(e)
  OBVIOUS
<1>2. At(e, "own") /\ MapStep(e, e, k, e, k, {"COW"}, "page")
  BY <1>1 DEF DupOwn, Into, At
<1>3. /\ CowTypeOK /\ Up(e) /\ pc[e] = "own" /\ c \in Env /\ c # e /\ k \in Va /\ k # "tmp"
      /\ at[e] \in 2 .. 4 /\ LoopOK(e)
  BY <1>1, <1>2, LoopFacts DEF Copying
<1>4. k # "xstk"
  <2>1. at[e] = 2 \/ at[e] = 3
    BY <1>3 DEF LoopOK, Copying
  <2> QED BY <1>1, <2>1, Layout DEF Here
<1>5. MayMap(mem, e, k, e, k, {"COW"}) /\ UNCHANGED <<plan, forks>>
  BY <1>2 DEF MapStep, UserPanic, fixVars
<1>6. /\ GotMapped(e, k, e, k, {"COW"}) /\ OnlyProg(e) /\ pc'[e] = "page"
      /\ UNCHANGED <<state, parent, child, hand, upcall>>
  BY <1>2, <1>3, <1>5, Layout, MapStepDone
<1>7. OthersKept(e, k) /\ CountsCalls
  BY <1>5, <1>6 DEF GotMapped, CountsCalls
<1>8. Touch(e, c)
  BY <1>3, <1>6, Layout DEF Touch
<1>9. KeepsArmed(e) /\ SamePart(e)
  BY <1>3, <1>4, <1>6, <1>7, ChangedArmed DEF SamePart, ForkLoop
<1> QED BY <1>1, <1>3, <1>6, <1>7, <1>8, <1>9, PartHand

\* fork_v0() makes a page, maps it, and unmaps it again.
LEMMA CopyHand ==
  ASSUME MemInv, CowInv, HandsOK, ~starved', NEW e \in Env,
         AllocV0(e) \/ MapV0(e) \/ UnmapV0(e)
  PROVE  HandsOK'
<1>1. PICK c, k : c = child[e] /\ k = Here(e)
  OBVIOUS
<1>2. \E place \in {"dup0", "utemp", "unmap"} : At(e, place)
  BY DEF AllocV0, MapV0, UnmapV0
<1>3. /\ CowTypeOK /\ Up(e) /\ pc[e] # "panic" /\ pc[e] \in V0Loop
      /\ c \in Env /\ c # e /\ k \in Va /\ k # "tmp"
  BY <1>1, <1>2, LoopFacts DEF Copying, V0Loop, At
<1>4. UNCHANGED <<plan, forks>>
  BY DEF AllocV0, MapV0, UnmapV0, MapStep, fixVars
<1>5. CountsCalls
  BY <1>4 DEF CountsCalls
<1>6. CASE AllocV0(e)
  <2>1. /\ mem' = EnvPageAlloc(mem, c, k, {"W"}) /\ CanAlloc(mem, c, k)
        /\ UNCHANGED <<state, parent, child, at, pte, fault, fpc, hand, upcall>>
        /\ Goto(e, "utemp")
    BY <1>1, <1>6 DEF AllocV0, SysPageAlloc, procVars, UserPanic
  <2>2. GotFresh(c, k, {"W"})
    BY <1>3, <2>1, AllocEntries, Layout
  <2>3. OthersKept(c, k) /\ "COW" \notin mem'.perm[<<c, k>>]
    BY <2>2 DEF GotFresh
  <2>4. OnlyProg(e) /\ pc'[e] = "utemp"
    BY <1>3, <2>1 DEF OnlyProg, Goto, CowTypeOK
  <2>5. Touch(e, c)
    BY <1>3, <2>2, Layout DEF Touch
  <2>6. pc'[e] \in V0Loop
    BY <2>4 DEF V0Loop
  <2> QED BY <1>1, <1>3, <1>5, <2>1, <2>3, <2>4, <2>5, <2>6, KidEntryHand
<1>7. CASE MapV0(e)
  <2>1. MapStep(e, c, k, e, "tmp", {"W"}, "copy")
    BY <1>1, <1>7 DEF MapV0
  <2>2. MayMap(mem, c, k, e, "tmp", {"W"})
    BY <2>1 DEF MapStep, UserPanic
  <2>3. /\ GotMapped(c, k, e, "tmp", {"W"}) /\ OnlyProg(e) /\ pc'[e] = "copy"
        /\ UNCHANGED <<state, parent, child, hand, upcall>>
    BY <1>3, <2>1, <2>2, Layout, MapStepDone
  <2>4. OthersKept(e, "tmp") /\ "COW" \notin mem'.perm[<<e, "tmp">>] /\ "tmp" # "xstk"
        /\ "W" \in mem.perm[<<c, k>>]
    BY <2>3 DEF GotMapped
  <2>5. Touch(e, c)
    BY <1>3, <2>3, <2>4, Layout DEF Touch
  <2>6. pc'[e] \in V0Loop
    BY <2>3 DEF V0Loop
  <2> QED BY <1>1, <1>3, <1>5, <2>3, <2>4, <2>5, <2>6, Layout, OwnEntryHand
<1>8. CASE UnmapV0(e)
  <2>1. /\ mem' = PageRemove(mem, e, "tmp") /\ NextPage(e, "page0")
        /\ UNCHANGED <<state, parent, child, fault, fpc, hand, upcall>>
    BY <1>8 DEF UnmapV0, SysPageUnmap, procVars
  <2>2. GotCleared(e, "tmp") /\ OthersKept(e, "tmp")
    BY <2>1, UnmapEntries, Layout DEF GotCleared
  <2>3. "COW" \in mem'.perm[<<e, "tmp">>] => "COW" \in mem.perm[<<e, "tmp">>]
    BY <2>1, UnmapCow, Layout
  <2>4. OnlyProg(e) /\ pc'[e] = "page0"
    BY <1>3, <2>1 DEF OnlyProg, NextPage, Goto, CowTypeOK
  <2>5. Touch(e, c)
    BY <1>3, <2>2, Layout DEF Touch
  <2>6. pc'[e] \in V0Loop
    BY <2>4 DEF V0Loop
  <2> QED BY <1>1, <1>3, <1>5, <2>1, <2>2, <2>3, <2>4, <2>5, <2>6, Layout, OwnEntryHand
<1> QED BY <1>6, <1>7, <1>8

\* Which call of fork() comes next.
LEMMA NextCall ==
  ASSUME CowTypeOK, forks < Len(plan), plan' = plan, forks' = forks + 1
  PROVE  /\ plan[forks + 1] \in {"fork", "fork_v0"}
         /\ plan[forks + 1] = "fork" => Forked' /\ ~LastFork
         /\ plan[forks + 1] = "fork_v0" /\ Forked /\ ~ForksHalfArmed => LastFork'
<1> DEFINE next == forks + 1
<1>1. plan \in Seq({"fork", "fork_v0"}) /\ forks \in Nat
  BY LayoutAssumption DEF CowTypeOK
<1>2. /\ next \in DOMAIN plan /\ next \in 1 .. forks' /\ next > forks
      /\ \A n \in 1 .. forks : n \in DOMAIN plan /\ n < next
      /\ \A n \in DOMAIN plan : n > forks' => next < n
  BY <1>1
<1>3. plan[next] \in {"fork", "fork_v0"}
  BY <1>1, <1>2
<1> HIDE DEF next
<1>4. plan[next] = "fork" => Forked' /\ ~LastFork
  BY <1>2 DEF Forked, LastFork
<1>5. ASSUME plan[next] = "fork_v0", Forked, ~ForksHalfArmed, NEW n \in DOMAIN plan, n > forks'
      PROVE  plan[n] # "fork"
  BY <1>2, <1>5 DEF Forked, ForksHalfArmed
<1>6. plan[next] = "fork_v0" /\ Forked /\ ~ForksHalfArmed => LastFork'
  BY <1>5 DEF LastFork
<1> QED BY <1>3, <1>4, <1>6 DEF next

LEMMA ForkCallHand ==
  ASSUME MemInv, CowInv, HandsOK, ~ForksHalfArmed, NEW e \in Env, ForkCall(e)
  PROVE  HandsOK'
<1>1. /\ CowTypeOK /\ Up(e) /\ pc[e] = "user" /\ pc[e] # "panic" /\ child[e] = NoEnv
      /\ forks < Len(plan) /\ forks' = forks + 1 /\ plan' = plan
      /\ UNCHANGED <<state, parent, child, at, pte, fault, fpc, hand, upcall>>
      /\ pc' = [pc EXCEPT ![e] = IF plan[forks + 1] = "fork_v0" THEN "exofork0"
                                 ELSE IF hand[e] THEN "exofork" ELSE "xalloc"]
  BY DEF ForkCall, At, Goto, memVars, procVars, CowInv, ProgOK, PlaceOK, Forking
<1>2. EntriesKept
  BY DEF ForkCall, memVars, EntriesKept
<1>3. RunningOK(e)
  BY <1>1 DEF HandsOK, HandOK, Up
<1>4. OnlyProg(e) /\ CountsCalls
  BY <1>1 DEF OnlyProg, CountsCalls, CowTypeOK
<1>5. /\ plan[forks + 1] \in {"fork", "fork_v0"}
      /\ plan[forks + 1] = "fork" => Forked' /\ ~LastFork
      /\ plan[forks + 1] = "fork_v0" /\ Forked => LastFork'
  BY <1>1, NextCall
<1>6. (NoCow(e) => NoCow(e)') /\ (Ready(e) => Ready(e)')
  BY <1>1, <1>2, KeptTame DEF Tame, KeepsCow, KeepsArmed, Ready
<1>7. (Forked => Forked') /\ (LastFork => LastFork') /\ hand'[e] = hand[e]
  BY <1>1, <1>4, CallsFacts
<1>8. \/ plan[forks + 1] = "fork_v0" /\ pc'[e] = "exofork0"
      \/ plan[forks + 1] = "fork" /\ hand[e] /\ pc'[e] = "exofork"
      \/ plan[forks + 1] = "fork" /\ ~hand[e] /\ pc'[e] = "xalloc"
  BY <1>1, <1>5 DEF CowTypeOK
<1>9. RunningOK(e)'
  BY <1>3, <1>5, <1>6, <1>7, <1>8 DEF RunningOK, InFork, InV0, ForkLoop, V0Loop
<1>10. KidOK(e)'
  BY <1>1 DEF KidOK
<1>11. PICK c : c = child[e]
  OBVIOUS
<1>12. Touch(e, c)
  BY <1>2 DEF Touch
<1> QED BY <1>1, <1>4, <1>9, <1>10, <1>11, <1>12, LocalHand

\* set_pgfault_handler() makes the exception stack, then the program is ready.
LEMMA HandlerHand ==
  ASSUME MemInv, CowInv, HandsOK, ~starved', NEW e \in Env, HandlerAlloc(e) \/ HandlerUpcall(e)
  PROVE  HandsOK'
<1>1. PICK c : c = child[e]
  OBVIOUS
<1>2. /\ CowTypeOK /\ Up(e) /\ pc[e] \in {"xalloc", "upcall"} /\ pc[e] # "panic"
      /\ RunningOK(e) /\ child[e] = NoEnv
      /\ UNCHANGED <<state, parent, child, at, pte, fault, fpc, plan, forks>>
  BY DEF HandlerAlloc, HandlerUpcall, At, SysPageAlloc, procVars, memVars, fixVars,
         CowInv, ProgOK, PlaceOK, Forking, HandsOK, HandOK, Up
<1>3. CountsCalls /\ KidOK(e)' /\ (Forked => Forked') /\ (LastFork => LastFork')
  <2>1. CountsCalls
    BY <1>2 DEF CountsCalls
  <2> QED BY <1>2, <2>1, CallsFacts DEF KidOK
<1>4. CASE HandlerAlloc(e)
  <2>1. /\ pc[e] = "xalloc" /\ mem' = EnvPageAlloc(mem, e, "xstk", {"W"})
        /\ CanAlloc(mem, e, "xstk") /\ Goto(e, "upcall") /\ UNCHANGED <<hand, upcall>>
    BY <1>4 DEF HandlerAlloc, SysPageAlloc, At
  <2>2. GotFresh(e, "xstk", {"W"})
    BY <2>1, AllocEntries, Layout
  <2>3. /\ OthersKept(e, "xstk") /\ Armed(e)' /\ "COW" \notin mem'.perm[<<e, "xstk">>]
    BY <2>2 DEF GotFresh, Armed, UserMemCheck
  <2>4. NoCow(e) => NoCow(e)'
    BY <2>3, ChangedCow, Layout DEF KeepsCow
  <2>5. OnlyProg(e) /\ pc'[e] = "upcall" /\ hand'[e] = hand[e] /\ upcall'[e] = upcall[e]
    BY <1>2, <2>1 DEF OnlyProg, Goto, CowTypeOK
  <2>6. Touch(e, c)
    BY <2>2, Layout DEF Touch
  <2>7. Ready(e) => Ready(e)'
    BY <2>3, <2>5 DEF Ready
  <2>8. RunningOK(e)'
    BY <1>2, <1>3, <2>1, <2>3, <2>4, <2>5, <2>7
       DEF RunningOK, InFork, InV0, ForkLoop, V0Loop
  <2> QED BY <1>1, <1>2, <1>3, <2>1, <2>5, <2>6, <2>8, LocalHand
<1>5. CASE HandlerUpcall(e)
  <2>1. /\ pc[e] = "upcall" /\ UNCHANGED memVars
        /\ upcall' = [upcall EXCEPT ![e] = TRUE] /\ hand' = [hand EXCEPT ![e] = TRUE]
        /\ Goto(e, "exofork")
    BY <1>5 DEF HandlerUpcall, At
  <2>2. EntriesKept /\ Touch(e, c)
    BY <2>1 DEF memVars, EntriesKept, Touch
  <2>3. upcall \in [Env -> BOOLEAN] /\ hand \in [Env -> BOOLEAN]
    BY <1>2 DEF CowTypeOK
  <2>4. /\ upcall'[e] /\ hand'[e]
        /\ \A f \in Env \ {e} : upcall'[f] = upcall[f] /\ hand'[f] = hand[f]
    BY <2>1, <2>3
  <2>5. OnlyProg(e) /\ pc'[e] = "exofork"
    BY <1>2, <2>1 DEF OnlyProg, Goto, CowTypeOK
  <2>6. Ready(e)'
    <3>1. Armed(e)
      BY <1>2, <2>1 DEF RunningOK
    <3>2. Armed(e)'
      BY <2>2, <3>1, KeptTame DEF Tame, KeepsArmed
    <3> QED BY <2>4, <3>2 DEF Ready
  <2>7. RunningOK(e)'
    BY <1>2, <1>3, <2>1, <2>5, <2>6 DEF RunningOK, InFork, InV0, ForkLoop, V0Loop
  <2> QED BY <1>1, <1>2, <1>3, <2>2, <2>4, <2>5, <2>7, LocalHand
<1> QED BY <1>4, <1>5

\* The child's exception stack.
LEMMA ChildStackHand ==
  ASSUME MemInv, CowInv, HandsOK, ~starved', NEW e \in Env, ChildStack(e)
  PROVE  HandsOK'
<1>1. PICK c : c = child[e]
  OBVIOUS
<1>2. /\ CowTypeOK /\ Up(e) /\ pc[e] = "page" /\ pc[e] # "panic" /\ RunningOK(e)
      /\ mem' = EnvPageAlloc(mem, c, "xstk", {"W"}) /\ CanAlloc(mem, c, "xstk")
      /\ Goto(e, "childcall")
      /\ UNCHANGED <<state, parent, child, at, pte, fault, fpc, hand, upcall, plan, forks>>
  BY <1>1 DEF ChildStack, At, SysPageAlloc, procVars, fixVars, UserPanic, CowInv,
              HandsOK, HandOK, Up
<1>3. c \in Env /\ c # e
  BY <1>1, <1>2, AtWork DEF Forking
<1>4. GotFresh(c, "xstk", {"W"})
  BY <1>2, <1>3, AllocEntries, Layout
<1>5. OthersKept(c, "xstk") /\ Armed(c)'
  BY <1>4 DEF GotFresh, Armed, UserMemCheck
<1>6. /\ OnlyProg(e) /\ pc'[e] = "childcall" /\ CountsCalls
      /\ hand'[e] = hand[e] /\ upcall'[e] = upcall[e]
  BY <1>2 DEF OnlyProg, Goto, CowTypeOK, CountsCalls
<1>7. Touch(e, c)
  BY <1>3, <1>4, Layout DEF Touch
<1>8. Ready(e)'
  <2>1. Ready(e)
    BY <1>2 DEF RunningOK, InFork, ForkLoop
  <2>2. KeepsArmed(e)
    BY <1>3, <1>5, OtherTame DEF Tame
  <2> QED BY <1>6, <2>1, <2>2 DEF Ready, KeepsArmed
<1>9. RunningOK(e)'
  <2>1. (Forked => Forked') /\ (LastFork => LastFork')
    BY <1>2, <1>6, CallsFacts
  <2> QED BY <1>2, <1>6, <1>8, <2>1 DEF RunningOK, InFork, InV0, ForkLoop, V0Loop
<1>10. KidOK(e)'
  BY <1>1, <1>2, <1>5, <1>6 DEF KidOK, InV0, V0Loop
<1> QED BY <1>1, <1>2, <1>6, <1>7, <1>9, <1>10, LocalHand

\* The child's upcall: the parent has one, and text is mapped in the child, so the
\* kernel has no reason to destroy it.
LEMMA ChildUpcallHand ==
  ASSUME MemInv, CowInv, HandsOK, ~starved', NEW e \in Env, ChildUpcall(e)
  PROVE  HandsOK'
<1>1. PICK c : c = child[e]
  OBVIOUS
<1>2. /\ CowTypeOK /\ Up(e) /\ pc[e] = "childcall" /\ pc[e] # "panic" /\ RunningOK(e)
      /\ KidOK(e) /\ ProgOK(e) /\ Goto(e, "start") /\ UNCHANGED <<at, pte, fault, fpc, hand, plan, forks>>
  BY DEF ChildUpcall, At, fixVars, CowInv, HandsOK, HandOK, Up
<1>3. c \in Env /\ c # e /\ c # NoEnv
  BY <1>1, <1>2, AtWork, Layout DEF Forking
<1>4. Ready(e) /\ Armed(c)
  BY <1>1, <1>2, <1>3 DEF RunningOK, KidOK, InFork
<1>5. UserMemCheck(c, "text", {})
  <2>1. at[e] = 5
    BY <1>2 DEF ProgOK, LoopOK
  <2>2. mem.frame[<<c, Order[2]>>] # NoPage
    BY <1>1, <1>2, <1>3, <2>1 DEF ProgOK, MappedOK
  <2> QED BY <2>2, Layout DEF UserMemCheck
<1>6. upcall' = [upcall EXCEPT ![c] = TRUE] /\ UNCHANGED <<memVars, child>>
  BY <1>1, <1>4, <1>5 DEF ChildUpcall, Ready
<1>7. EntriesKept /\ Touch(e, c) /\ UNCHANGED <<state, parent>>
  BY <1>6 DEF memVars, procVars, EntriesKept, Touch
<1>8. upcall'[c] /\ \A f \in Env \ {c} : upcall'[f] = upcall[f]
  <2>1. upcall \in [Env -> BOOLEAN]
    BY <1>2 DEF CowTypeOK
  <2> QED BY <1>3, <1>6, <2>1
<1>9. OnlyProg(e) /\ pc'[e] = "start" /\ CountsCalls /\ hand'[e] = hand[e]
  BY <1>2, <1>6 DEF OnlyProg, Goto, CowTypeOK, CountsCalls
<1>10. Ready(e)' /\ Armed(c)'
  <2>1. Armed(e)' /\ Armed(c)'
    BY <1>3, <1>4, <1>7, KeptTame DEF Tame, KeepsArmed, Ready
  <2> QED BY <1>3, <1>4, <1>8, <1>9, <2>1 DEF Ready
<1>11. RunningOK(e)'
  <2>1. (Forked => Forked') /\ (LastFork => LastFork')
    BY <1>2, <1>9, CallsFacts
  <2> QED BY <1>2, <1>9, <1>10, <2>1 DEF RunningOK, InFork, InV0, ForkLoop, V0Loop
<1>12. KidOK(e)'
  BY <1>1, <1>6, <1>8, <1>9, <1>10 DEF KidOK, InV0, V0Loop
<1> QED BY <1>1, <1>2, <1>3, <1>7, <1>8, <1>9, <1>11, <1>12, LocalHand

\* What there is to show of a program that runs its own code.
LEMMA KidAlone ==
  ASSUME NEW f \in Env, pc'[f] = "user", child'[f] = NoEnv,
         \/ NoCow(f)' /\ ~hand'[f]
         \/ Ready(f)' /\ Forked'
         \/ NoCow(f)' /\ Forked' /\ LastFork'
  PROVE  state'[f] \notin {"FREE", "LOADING"} \/ (NoCow(f)' /\ ~hand'[f]) => HandOK(f)'
BY DEF HandOK, RunningOK, KidOK, Ready, InFork, InV0, ForkLoop, V0Loop

\* The child of an exofork has nothing yet.
LEMMA ExoforkHand ==
  ASSUME MemInv, CowInv, HandsOK, NEW e \in Env, NEW c \in Env, Exofork(e, c)
  PROVE  HandsOK'
<1>1. /\ CowTypeOK /\ Up(e) /\ RunningOK(e) /\ PlaceOK(e) /\ HandOK(c) /\ UNCHANGED <<plan, forks>>
      /\ \/ pc[e] = "exofork" /\ Goto(e, "page")
         \/ pc[e] = "exofork0" /\ Goto(e, "page0")
      /\ state[c] = "FREE" /\ mem.free # {} /\ mem' = EnvSetupVm(mem, c)
      /\ state' = [state EXCEPT ![c] = "EMBRYO"] /\ parent' = [parent EXCEPT ![c] = e]
      /\ child' = [child EXCEPT ![e] = c] /\ upcall' = [upcall EXCEPT ![c] = FALSE]
      /\ UNCHANGED <<at, pte, fault, fpc, hand>>
  BY DEF Exofork, Loops, At, SysExofork, CowInv, ProgOK, HandsOK, HandOK, Up, fixVars
<1>2. EntriesKept
  BY <1>1, SetupEntries
<1>3. c # e /\ state[e] = "UP" /\ Mine(e, c) /\ NoCow(c)
  BY <1>1 DEF Up, Mine, PlaceOK, Forking, HandOK
<1>4. /\ state'[c] = "EMBRYO" /\ child'[e] = c
      /\ \/ pc[e] = "exofork" /\ pc'[e] = "page"
         \/ pc[e] = "exofork0" /\ pc'[e] = "page0"
      /\ \A f \in Env \ {c} : state'[f] = state[f] /\ parent'[f] = parent[f]
      /\ OnlyProg(e)
  <2>1. /\ state \in [Env -> {"FREE", "LOADING", "EMBRYO", "UP", "BLOCKED"}]
        /\ parent \in [Env -> Env \cup {NoEnv}]
    BY DEF MemInv, ProcOK
  <2> QED BY <1>1, <2>1 DEF Goto, OnlyProg, CowTypeOK
<1>5. Elsewhere(e, c)
  BY <1>2, <1>4 DEF Elsewhere, OnlyProg, EntriesKept
<1>6. /\ CountsCalls /\ hand'[e] = hand[e]
      /\ \A f \in Env \ {c} : hand'[f] = hand[f] /\ upcall'[f] = upcall[f]
  BY <1>1 DEF CountsCalls, CowTypeOK
<1>7. NoCow(c)' /\ (NoCow(e) => NoCow(e)') /\ (Ready(e) => Ready(e)')
  BY <1>2, <1>3, <1>6, KeptTame DEF Tame, KeepsCow, KeepsArmed, Ready
<1>8. RunningOK(e)'
  <2>1. (Forked => Forked') /\ (LastFork => LastFork')
    BY <1>1, <1>6, CallsFacts
  <2> QED BY <1>1, <1>4, <1>6, <1>7, <2>1 DEF RunningOK, InFork, InV0, ForkLoop, V0Loop
<1>9. KidOK(e)'
  BY <1>4, <1>7 DEF KidOK, NoCow
<1>10. HandOK(e)' /\ HandOK(c)'
  BY <1>3, <1>4, <1>8, <1>9 DEF HandOK
<1> QED BY <1>3, <1>5, <1>6, <1>10, HandStep

\* The child has its parent's data, and what its parent has given it.
LEMMA StartHand ==
  ASSUME MemInv, CowInv, HandsOK, ~starved', NEW e \in Env, Start(e)
  PROVE  HandsOK'
<1>1. PICK c : c = child[e]
  OBVIOUS
<1>2. /\ CowTypeOK /\ Up(e) /\ pc[e] \in {"start", "page0"} /\ pc[e] # "panic"
      /\ RunningOK(e) /\ KidOK(e) /\ UNCHANGED <<plan, forks>>
  BY DEF Start, At, fixVars, CowInv, HandsOK, HandOK, Up
<1>3. /\ c # NoEnv /\ state' = [state EXCEPT ![c] = "UP"] /\ UNCHANGED <<mem, parent, upcall>>
      /\ pc' = [pc EXCEPT ![e] = "user", ![c] = "user"] /\ Leave(e)
      /\ hand' = [hand EXCEPT ![c] = hand[e]]
  BY <1>1 DEF Start, SysEnvStart, UserPanic
<1>4. /\ c \in Env /\ c # e /\ Mine(e, c) /\ state[c] = "EMBRYO" /\ state[e] = "UP"
  BY <1>1, <1>2, <1>3, RunsMine
<1>5. /\ pc'[e] = "user" /\ pc'[c] = "user" /\ child'[e] = NoEnv
      /\ \A f \in Env \ {e} : child'[f] = child[f] /\ at'[f] = at[f] /\ pte'[f] = pte[f]
                              /\ fault'[f] = fault[f] /\ fpc'[f] = fpc[f]
      /\ \A f \in Env \ {e, c} : pc'[f] = pc[f]
  BY <1>2, <1>3, <1>4 DEF Leave, CowTypeOK
<1>6. state'[e] = "UP" /\ \A f \in Env \ {c} : state'[f] = state[f]
  BY <1>3, <1>4 DEF MemInv, ProcOK
<1>7. EntriesKept /\ Elsewhere(e, c)
  BY <1>3, <1>5, <1>6 DEF Elsewhere, EntriesKept
<1>8. /\ hand'[c] = hand[e] /\ hand'[e] = hand[e]
      /\ \A f \in Env \ {c} : hand'[f] = hand[f] /\ upcall'[f] = upcall[f]
  BY <1>2, <1>3, <1>4 DEF CowTypeOK
<1>9. /\ CountsCalls /\ (Forked => Forked') /\ (LastFork => LastFork')
  <2>1. CountsCalls
    BY <1>2 DEF CountsCalls
  <2> QED BY <1>2, <2>1, CallsFacts
<1>10. Tame(e) /\ Tame(c) /\ upcall'[e] = upcall[e] /\ upcall'[c] = upcall[c]
  BY <1>3, <1>4, <1>7, KeptTame
<1>11. (NoCow(e) => NoCow(e)') /\ (Ready(e) => Ready(e)')
  BY <1>8, <1>10 DEF Tame, KeepsCow, KeepsArmed, Ready
<1>12. HandOK(e)'
  <2>1. RunningOK(e)'
    BY <1>2, <1>5, <1>8, <1>9, <1>11 DEF RunningOK, InFork, InV0, ForkLoop, V0Loop
  <2> QED BY <1>5, <1>6, <2>1 DEF HandOK, KidOK
<1>13. HandOK(c)'
  <2>0. child'[c] = NoEnv /\ state'[c] = "UP"
    <3>1. PlaceOK(c) /\ state[c] # "UP"
      BY <1>4 DEF CowInv, ProgOK
    <3>2. child[c] = NoEnv
      BY <3>1 DEF PlaceOK, Forking
    <3> QED BY <1>3, <1>4, <1>5, <3>2 DEF MemInv, ProcOK
  <2>1. CASE pc[e] = "start"
    <3>1. hand[e] /\ Armed(c) /\ upcall[c] /\ Forked
      BY <1>1, <1>2, <1>3, <2>1 DEF RunningOK, KidOK, InFork, Ready
    <3>2. Ready(c)'
      BY <1>8, <1>10, <3>1 DEF Tame, KeepsArmed, Ready
    <3> QED BY <1>4, <1>5, <1>9, <2>0, <3>1, <3>2, KidAlone
  <2>2. CASE pc[e] = "page0"
    <3>1. NoCow(c)' /\ (hand[e] => Forked /\ LastFork)
      BY <1>1, <1>2, <1>3, <1>10, <2>2 DEF RunningOK, KidOK, InV0, V0Loop, Tame, KeepsCow
    <3> QED BY <1>4, <1>5, <1>8, <1>9, <2>0, <3>1, KidAlone
  <2> QED BY <1>2, <2>1, <2>2
<1> QED BY <1>4, <1>7, <1>8, <1>9, <1>10, <1>12, <1>13, HandStep

\* A program that is gone has no memory, and its slot no handler.
LEMMA GoneHand ==
  ASSUME MemInv, CowInv, HandsOK, NEW e \in Env, Up(e), pc[e] # "panic", Gone(e),
         UNCHANGED fixVars
  PROVE  HandsOK'
<1>1. PICK c : c = child[e]
  OBVIOUS
<1>2. /\ CowTypeOK /\ Mine(e, c)
      /\ c # NoEnv => c \in Env /\ c # e /\ state[c] = "EMBRYO"
  BY <1>1, RunsMine DEF CowInv
<1>3. Free(e) /\ OnlyProg(e) /\ hand' = [hand EXCEPT ![e] = FALSE] /\ UNCHANGED upcall
  BY <1>2 DEF Gone, Goto, Leave, OnlyProg, CowTypeOK
<1>4. /\ state'[e] = "FREE" /\ GotFreed(e)
      /\ \A f \in Env \ {e} : /\ state'[f] = state[f]
                              /\ parent[f] # e => parent'[f] = parent[f]
  BY <1>3, FreeOthers
<1>5. Elsewhere(e, c)
  BY <1>3, <1>4 DEF Elsewhere, OnlyProg, GotFreed
<1>6. ~hand'[e] /\ \A f \in Env \ {e} : hand'[f] = hand[f]
  BY <1>2, <1>3 DEF CowTypeOK
<1>7. CountsCalls
  BY DEF CountsCalls, fixVars
<1>8. HandOK(e)'
  BY <1>4, <1>6 DEF HandOK, GotFreed, NoCow
<1>9. c \in Env => HandOK(c)'
  BY <1>2, <1>4, Layout DEF HandOK
<1> QED BY <1>2, <1>3, <1>5, <1>6, <1>7, <1>8, <1>9, HandStep

LEMMA RunsHand ==
  ASSUME MemInv, CowInv, HandsOK, ~ForksHalfArmed, ~starved', NEW e \in Env, Runs(e)
  PROVE  HandsOK'
<1>1. CASE Exit(e)
  <2>1. Up(e) /\ pc[e] # "panic" /\ Gone(e) /\ UNCHANGED fixVars
    BY <1>1 DEF Exit, At
  <2> QED BY <2>1, GoneHand
<1>2. ASSUME NEW va \in Va, PageFault(e, va) PROVE HandsOK'
  <2>1. Up(e) /\ pc[e] # "panic" /\ UNCHANGED fixVars
    BY <1>2 DEF PageFault, Writes
  <2> QED BY <1>2, <2>1, GoneHand, FaultHand
<1>3. ASSUME NEW va \in Va, NEW v \in Value, UserWrite(e, va, v) PROVE HandsOK'
  BY <1>3, WriteHand
<1>4. ASSUME NEW c \in Env, Exofork(e, c) PROVE HandsOK'
  BY <1>4, ExoforkHand
<1>5. ~ExoforkFails(e)
  BY DEF ExoforkFails, UserPanic
<1>6. CASE ForkCall(e) \/ HandlerAlloc(e) \/ HandlerUpcall(e)
  BY <1>6, ForkCallHand, HandlerHand
<1>7. CASE PgfaultAlloc(e) \/ PgfaultCopy(e) \/ PgfaultMap(e) \/ PgfaultUnmap(e)
  BY <1>7, PgfaultHand
<1>8. CASE SkipPage(e) \/ ReadPte(e) \/ CopyV0(e)
  BY <1>8, LoopKeptHand
<1>9. CASE DupChild(e) \/ ShareV0(e) \/ DupOwn(e)
  BY <1>9, DupHand, DupOwnHand
<1>10. CASE AllocV0(e) \/ MapV0(e) \/ UnmapV0(e)
  BY <1>10, CopyHand
<1>11. CASE ChildStack(e) \/ ChildUpcall(e) \/ Start(e)
  BY <1>11, ChildStackHand, ChildUpcallHand, StartHand
<1> QED BY <1>1, <1>2, <1>3, <1>4, <1>5, <1>6, <1>7, <1>8, <1>9, <1>10, <1>11 DEF Runs

\* An allocation that has failed has failed for good.
LEMMA Starving ==
  ASSUME NEW e \in Env, Runs(e), starved
  PROVE  starved'
<1>1. CASE Exit(e) \/ (\E va \in Va : PageFault(e, va) \/ \E v \in Value : UserWrite(e, va, v))
  BY <1>1 DEF Exit, PageFault, UserWrite, Gone, progVars
<1>2. CASE ForkCall(e) \/ HandlerAlloc(e) \/ HandlerUpcall(e) \/ ExoforkFails(e)
           \/ \E c \in Env : Exofork(e, c)
  BY <1>2 DEF ForkCall, HandlerAlloc, HandlerUpcall, ExoforkFails, Exofork, UserPanic
<1>3. CASE PgfaultAlloc(e) \/ PgfaultCopy(e) \/ PgfaultMap(e) \/ PgfaultUnmap(e)
  BY <1>3 DEF PgfaultAlloc, PgfaultCopy, PgfaultMap, PgfaultUnmap, UserPanic
<1>4. CASE SkipPage(e) \/ ReadPte(e) \/ DupChild(e) \/ DupOwn(e)
  BY <1>4 DEF SkipPage, ReadPte, DupChild, DupOwn, MapStep, UserPanic
<1>5. CASE ShareV0(e) \/ AllocV0(e) \/ MapV0(e) \/ CopyV0(e) \/ UnmapV0(e)
  BY <1>5 DEF ShareV0, AllocV0, MapV0, CopyV0, UnmapV0, MapStep, UserPanic
<1>6. CASE ChildStack(e) \/ ChildUpcall(e) \/ Start(e)
  BY <1>6 DEF ChildStack, ChildUpcall, Start, UserPanic
<1> QED BY <1>1, <1>2, <1>3, <1>4, <1>5, <1>6 DEF Runs

\* The first program is loaded writable.
LEMMA BootHand ==
  ASSUME MemInv, CowInv, HandsOK, CowBoot
  PROVE  HandsOK'
<1>1. /\ Root \in Env /\ CowTypeOK /\ Image \subseteq Va
      /\ UNCHANGED <<plan, forks, pc, child, hand, upcall>>
  BY LayoutAssumption, SpaceAssumption DEF CowBoot, CowInv, fixVars, progVars
<1>2. state \in [Env -> {"FREE", "LOADING", "EMBRYO", "UP", "BLOCKED"}]
  BY DEF MemInv, ProcOK
<1>3. ASSUME state[Root] \in {"FREE", "LOADING"}, \A f \in Env \ {Root} : state'[f] = state[f],
             NoCow(Root) => NoCow(Root)',
             \A f \in Env \ {Root} : Tame(f)
      PROVE  HandsOK'
  <2>1. \A f \in Env : pc'[f] = pc[f] /\ child'[f] = child[f] /\ hand'[f] = hand[f]
                       /\ upcall'[f] = upcall[f]
    BY <1>1
  <2>2. (Forked' <=> Forked) /\ (LastFork' <=> LastFork)
    BY <1>1 DEF Forked, LastFork
  <2>3. HandOK(Root)'
    <3>1. NoCow(Root)' /\ ~hand'[Root] /\ pc[Root] = "user" /\ child[Root] = NoEnv
      BY <1>1, <1>3, <2>1 DEF HandsOK, HandOK, CowInv, ProgOK, PlaceOK, Forking
    <3> QED BY <1>1, <2>1, <3>1, KidAlone
  <2>4. ASSUME NEW f \in Env \ {Root} PROVE HandOK(f)'
    <3>1. PICK d : d = child[f]
      OBVIOUS
    <3>2. d # NoEnv => d \in Env \ {Root} /\ Tame(d)
      BY <1>1, <1>3, <3>1 DEF CowInv, ProgOK, PlaceOK, CowTypeOK
    <3>3. (NoCow(f) => NoCow(f)') /\ (Armed(f) => Armed(f)') /\ (Ready(f) => Ready(f)')
      BY <1>3, <2>1 DEF Tame, KeepsCow, KeepsArmed, Ready
    <3>4. RunningOK(f) => RunningOK(f)'
      BY <2>1, <2>2, <3>3 DEF RunningOK
    <3>5. KidOK(f) => KidOK(f)'
      BY <2>1, <3>1, <3>2 DEF KidOK, Tame, KeepsCow, KeepsArmed
    <3> QED BY <1>3, <2>1, <3>3, <3>4, <3>5 DEF HandsOK, HandOK
  <2> QED BY <2>3, <2>4 DEF HandsOK
<1>4. ASSUME EntriesKept, state[Root] \in {"FREE", "LOADING"},
             \A f \in Env \ {Root} : state'[f] = state[f]
      PROVE  HandsOK'
  BY <1>1, <1>3, <1>4, KeptTame DEF Tame, KeepsCow
<1>5. CASE EnvCreate
  <2>1. state[Root] = "FREE"
    BY <1>5 DEF EnvCreate
  <2>2. CASE Panic
    BY <1>4, <2>1, <2>2 DEF Panic, EntriesKept
  <2>3. CASE ~Panic
    <3>1. mem.free # {} /\ mem' = EnvSetupVm(mem, Root) /\ \A f \in Env \ {Root} : state'[f] = state[f]
      BY <1>1, <1>2, <1>5, <2>3 DEF EnvCreate
    <3>2. EntriesKept
      BY <1>1, <2>1, <3>1, SetupEntries
    <3> QED BY <1>4, <2>1, <3>1, <3>2
  <2> QED BY <2>2, <2>3
<1>6. ASSUME NEW va \in Image, RegionAlloc(va) PROVE HandsOK'
  <2>1. state[Root] = "LOADING" /\ va \in Va
    BY <1>1, <1>6 DEF RegionAlloc
  <2>2. CASE Panic
    BY <1>4, <2>1, <2>2 DEF Panic, EntriesKept
  <2>3. CASE ~Panic
    <3>1. /\ CanAlloc(mem, Root, va) /\ mem' = EnvPageAlloc(mem, Root, va, {"W"})
          /\ \A f \in Env \ {Root} : state'[f] = state[f]
      BY <1>1, <1>2, <1>6, <2>3 DEF RegionAlloc
    <3>2. GotFresh(Root, va, {"W"})
      BY <1>1, <2>1, <3>1, AllocEntries, Layout
    <3>3. OthersKept(Root, va) /\ "COW" \notin mem'.perm[<<Root, va>>]
      BY <3>2 DEF GotFresh
    <3>4. KeepsCow(Root)
      BY <1>1, <2>1, <3>3, ChangedCow
    <3>5. \A f \in Env \ {Root} : Tame(f)
      BY <3>3, OtherTame
    <3> QED BY <1>3, <2>1, <3>1, <3>4, <3>5 DEF KeepsCow
  <2> QED BY <2>2, <2>3
<1> QED BY <1>5, <1>6 DEF CowBoot

-----------------------------------------------------------------------------
(* The theorems.                                                            *)

LEMMA CowStep == MemInv /\ CowInv /\ [CowNext]_cowVars => MemInv' /\ CowInv'
<1> SUFFICES ASSUME MemInv, CowInv, [CowNext]_cowVars PROVE MemInv' /\ CowInv'
  OBVIOUS
<1>1. MemInv'
  BY CowCalls, EveryStep DEF MemStep
<1> SUFFICES CowInv'
  BY <1>1
<1>2. CASE UNCHANGED cowVars
  <2>1. mem' = mem /\ state' = state /\ parent' = parent /\ plan' = plan /\ forks' = forks
    BY <1>2 DEF cowVars, memVars, procVars, fixVars
  <2>2. /\ pc' = pc /\ child' = child /\ at' = at /\ pte' = pte /\ fault' = fault
        /\ fpc' = fpc /\ hand' = hand /\ upcall' = upcall /\ starved' = starved
    BY <1>2 DEF cowVars, progVars
  <2>3. CowTypeOK'
    BY <2>1, <2>2 DEF CowInv, CowTypeOK
  <2>4. ASSUME NEW e \in Env PROVE ProgOK(e)'
    <3>1. ProgOK(e) /\ Here(e)' = Here(e)
      BY <2>2 DEF CowInv, Here
    <3> QED BY <2>1, <2>2, <3>1 DEF ProgOK, PlaceOK, SteadyOK, Steady, LoopOK, MappedOK
  <2>5. ASSUME NEW f \in Env, NEW g \in Env, NEW va \in Va, NEW vb \in Va,
               Shared(f, va, g, vb)'
        PROVE  Explained(f, va, g, vb)'
    <3>1. Explained(f, va, g, vb)
      BY <2>1, <2>5 DEF CowInv, SharingOK, Shared
    <3>2. \A a \in Env : Here(a)' = Here(a)
      BY <2>2 DEF Here
    <3> QED BY <2>1, <2>2, <3>1, <3>2 DEF Explained, Plain, Making
  <2> QED BY <2>3, <2>4, <2>5 DEF CowInv, SharingOK
<1>3. CASE CowBoot
  BY <1>3, BootInv
<1>4. CASE CowStopped
  BY <1>2, <1>4 DEF CowStopped
<1>5. ASSUME NEW e \in Env, Runs(e) PROVE CowInv'
  BY <1>5, RunsInv
<1> QED BY <1>2, <1>3, <1>4, <1>5 DEF CowNext

LEMMA CowStart == CowInit => MemInv /\ CowInv
<1> SUFFICES ASSUME CowInit PROVE MemInv /\ CowInv
  OBVIOUS
<1>1. Init
  BY DEF CowInit
<1>2. MemInv
  BY <1>1, InitInv
<1>3. CowTypeOK
  <2>1. pc \in [Env -> Places] /\ child \in [Env -> Env \cup {NoEnv}]
    BY DEF CowInit, Places
  <2>2. /\ at \in [Env -> 1 .. 5] /\ pte \in [Env -> SUBSET Bits]
        /\ fault \in [Env -> {"text", "stack", NoVa}]
        /\ fpc \in [Env -> {"alloc", "copy", "map", "unmap"}]
    BY DEF CowInit
  <2>3. hand \in [Env -> BOOLEAN] /\ upcall \in [Env -> BOOLEAN]
    BY Zenon DEF CowInit
  <2> QED BY <2>1, <2>2, <2>3 DEF CowInit, CowTypeOK
<1>4. \A f \in Env, va \in Va : mem.frame[<<f, va>>] = NoPage
  BY <1>1, SlotFacts DEF Init, NoMemory
<1>5. SharingOK
  BY <1>4 DEF SharingOK, Shared
<1>6. ASSUME NEW e \in Env PROVE ProgOK(e)
  <2>1. /\ pc[e] = "user" /\ child[e] = NoEnv /\ at[e] = 1 /\ fault[e] = NoVa
        /\ fpc[e] = "alloc" /\ state[e] = "FREE" /\ mem.frame[<<e, "tmp">>] = NoPage
    BY <1>1, <1>4, Layout DEF CowInit, Init
  <2> QED BY <2>1 DEF ProgOK, PlaceOK, SteadyOK, Steady, LoopOK, MappedOK, Forking, Copying
<1> QED BY <1>2, <1>3, <1>5, <1>6 DEF CowInv

LEMMA SamePlan ==
  ASSUME NEW e \in Env, Runs(e)
  PROVE  plan' = plan
<1>1. CASE Exit(e) \/ (\E va \in Va : PageFault(e, va) \/ \E v \in Value : UserWrite(e, va, v))
  BY <1>1 DEF Exit, PageFault, UserWrite, fixVars
<1>2. CASE ForkCall(e) \/ HandlerAlloc(e) \/ HandlerUpcall(e) \/ ExoforkFails(e)
           \/ \E c \in Env : Exofork(e, c)
  BY <1>2 DEF ForkCall, HandlerAlloc, HandlerUpcall, ExoforkFails, Exofork, fixVars
<1>3. CASE PgfaultAlloc(e) \/ PgfaultCopy(e) \/ PgfaultMap(e) \/ PgfaultUnmap(e)
  BY <1>3 DEF PgfaultAlloc, PgfaultCopy, PgfaultMap, PgfaultUnmap, fixVars
<1>4. CASE SkipPage(e) \/ ReadPte(e) \/ DupChild(e) \/ DupOwn(e)
  BY <1>4 DEF SkipPage, ReadPte, DupChild, DupOwn, MapStep, fixVars
<1>5. CASE ShareV0(e) \/ AllocV0(e) \/ MapV0(e) \/ CopyV0(e) \/ UnmapV0(e)
  BY <1>5 DEF ShareV0, AllocV0, MapV0, CopyV0, UnmapV0, MapStep, fixVars
<1>6. CASE ChildStack(e) \/ ChildUpcall(e) \/ Start(e)
  BY <1>6 DEF ChildStack, ChildUpcall, Start, fixVars
<1> QED BY <1>1, <1>2, <1>3, <1>4, <1>5, <1>6 DEF Runs

LEMMA HandKept == MemInv /\ CowInv /\ HandInv /\ [CowNext]_cowVars => HandInv'
<1> SUFFICES ASSUME MemInv, CowInv, HandInv, [CowNext]_cowVars, ~starved', ~ForksHalfArmed'
             PROVE  HandsOK'
  BY DEF HandInv
<1>1. CASE UNCHANGED cowVars
  <2>1. UNCHANGED <<mem, state, pc, child, hand, upcall, plan, forks, starved>>
    BY <1>1 DEF cowVars, memVars, procVars, fixVars, progVars
  <2>2. HandsOK
    BY <2>1 DEF HandInv, ForksHalfArmed
  <2>3. ASSUME NEW e \in Env PROVE HandOK(e)'
    BY <2>1, <2>2 DEF HandsOK, HandOK, RunningOK, KidOK, NoCow, Ready, Armed, UserMemCheck,
                      Forked, LastFork
  <2> QED BY <2>3 DEF HandsOK
<1>2. CASE CowBoot
  <2>1. UNCHANGED <<plan, starved>>
    BY <1>2 DEF CowBoot, fixVars, progVars
  <2> QED BY <1>2, <2>1, BootHand DEF HandInv, ForksHalfArmed
<1>3. CASE CowStopped
  BY <1>1, <1>3 DEF CowStopped
<1>4. ASSUME NEW e \in Env, Runs(e) PROVE HandsOK'
  <2>1. plan' = plan /\ ~starved
    BY <1>4, Starving, SamePlan
  <2>2. HandsOK /\ ~ForksHalfArmed
    BY <2>1 DEF HandInv, ForksHalfArmed
  <2> QED BY <1>4, <2>2, RunsHand
<1> QED BY <1>1, <1>2, <1>3, <1>4 DEF CowNext

LEMMA HandStart == CowInit => HandInv
<1> SUFFICES ASSUME CowInit PROVE HandsOK
  BY DEF HandInv
<1>1. /\ mem = NoMemory /\ state = [e \in Env |-> "FREE"]
      /\ hand = [e \in Env |-> FALSE]
  BY DEF CowInit, Init
<1>2. ASSUME NEW e \in Env PROVE NoCow(e) /\ ~hand[e] /\ state[e] = "FREE"
  BY <1>1 DEF NoMemory, NoCow
<1> QED BY <1>2 DEF HandsOK, HandOK

LEMMA CowAlways == CowSpec => [](MemInv /\ CowInv /\ HandInv)
BY CowStart, CowStep, HandStart, HandKept, PTL DEF CowSpec

\* The programs of fork.c and pgfault.c only do what Memory allows a program: each
\* of their steps is a system call with arguments the kernel takes, a write the
\* hardware allows, or no step of the memory at all.  What is proved of Memory
\* holds of them.
THEOREM CowImplementsMemory == CowSpec => Spec
<1>1. CowInit => Init
  BY DEF CowInit
<1>2. MemInv /\ CowInv /\ [CowNext]_cowVars => [Next]_memVars
  BY CowCalls
<1> QED BY <1>1, <1>2, CowAlways, PTL DEF CowSpec, Spec

\* A page that a program may write is in the address space of no other program,
\* but for the child it has not started: through any interleaving of fork(),
\* fork_v0() and pgfault() of any number of programs, and their failures.
THEOREM OwnPagesCorrect == CowSpec => []OwnPages
<1>1. MemInv /\ CowInv => OwnPages
  <2> SUFFICES ASSUME CowInv, NEW s \in Env \X Va, NEW t \in Env \X Va,
                      s[1] # t[1], mem.frame[s] = mem.frame[t], mem.frame[s] # NoPage,
                      "W" \in mem.perm[s]
               PROVE  state[s[1]] = "EMBRYO" \/ state[t[1]] = "EMBRYO"
    BY DEF OwnPages
  <2>1. PICK f \in Env, va \in Va : s = <<f, va>>
    OBVIOUS
  <2>2. PICK g \in Env, vb \in Va : t = <<g, vb>>
    OBVIOUS
  <2>3. f # g /\ Shared(f, va, g, vb) /\ "W" \in mem.perm[<<f, va>>]
    BY <2>1, <2>2 DEF Shared
  <2>4. Making(f, va, g, vb) \/ Making(g, vb, f, va)
    BY <2>3 DEF CowInv, SharingOK, Explained, Plain
  <2>5. ASSUME NEW a \in Env, NEW x, NEW b \in Env, NEW y, a # b, Making(a, x, b, y)
        PROVE  state[b] = "EMBRYO"
    <3>1. b = child[a] => state[b] = "EMBRYO"
      BY Layout DEF CowInv, ProgOK, PlaceOK
    <3> QED BY <2>5, <3>1 DEF Making
  <2> QED BY <2>1, <2>2, <2>3, <2>4, <2>5
<1> QED BY <1>1, CowAlways, PTL

\* While no allocation has failed, a program that finds a page of its own
\* copy-on-write has the upcall and the exception stack it takes to write it, in the
\* middle of fork() too, unless fork(), fork_v0() and fork() were called in this order:
\* the last may be of a child to which fork_v0() gave the handler and not the upcall.
THEOREM FaultsAreHandledCorrect == CowSpec => []FaultsAreHandled
<1>1. HandInv => FaultsAreHandled
  <2> SUFFICES ASSUME HandInv, ~starved, ~ForksHalfArmed, NEW e \in Env, NEW va \in Va,
                      state[e] = "UP", "COW" \in mem.perm[<<e, va>>]
               PROVE  upcall[e] /\ hand[e] /\ UserMemCheck(e, "xstk", {"W"})
    BY DEF FaultsAreHandled
  <2>1. RunningOK(e) /\ ~NoCow(e)
    BY DEF HandInv, HandsOK, HandOK, NoCow
  <2> QED BY <2>1 DEF RunningOK, Ready, Armed
<1> QED BY <1>1, CowAlways, PTL

-----------------------------------------------------------------------------
(* What the pages contain.                                                  *)

Fields == {"free", "ref", "frame", "perm", "data"}

\* A page that is not free contains in r what it does in m.
Spared(m, r) == DOMAIN r = Fields /\ \A p \in Page \ m.free : r.data[p] = m.data[p]

LEMMA PageAllocData ==
  ASSUME NEW m \in MemType, m.free # {}
  PROVE  Spared(m, PageAlloc(m)) /\ PageAlloc(m).data[NextFree(m)] = Zero
<1>1. NextFree(m) \in m.free
  BY AllocFields
<1> HIDE DEF NextFree
<1>2. DOMAIN m = Fields /\ m.data \in [Page -> Value] /\ m.free \in SUBSET Page
  BY DEF MemType, Fields
<1>3. PageAlloc(m).data = [m.data EXCEPT ![NextFree(m)] = Zero] /\ DOMAIN PageAlloc(m) = Fields
  BY <1>2 DEF PageAlloc, Fields
<1> QED BY <1>1, <1>2, <1>3 DEF Spared

LEMMA ReferData ==
  ASSUME NEW m, DOMAIN m = Fields, NEW s, NEW p
  PROVE  DOMAIN Refer(m, s, p) = Fields /\ Refer(m, s, p).data = m.data
BY DEF Refer, Fields

LEMMA RemoveData ==
  ASSUME NEW m, DOMAIN m = Fields, NEW e, NEW va
  PROVE  DOMAIN PageRemove(m, e, va) = Fields /\ PageRemove(m, e, va).data = m.data
<1> DEFINE p == m.frame[<<e, va>>]
<1>1. DOMAIN PageDecref(m, p) = Fields /\ PageDecref(m, p).data = m.data
  BY DEF PageDecref, Fields
<1>2. CASE p = NoPage
  BY <1>2 DEF PageRemove
<1>3. CASE p # NoPage
  <2> DEFINE d == PageDecref(m, p)
  <2>1. PageRemove(m, e, va) = [d EXCEPT !.frame[<<e, va>>] = NoPage, !.perm[<<e, va>>] = {}]
    BY <1>3 DEF PageRemove
  <2> HIDE DEF d, p
  <2>2. DOMAIN d = Fields /\ d.data = m.data
    BY <1>1 DEF d
  <2> QED BY <2>1, <2>2 DEF Fields
<1> QED BY <1>2, <1>3

LEMMA WalkData ==
  ASSUME NEW m, Good(m), NEW e, NEW va, CanWalk(m, e, va)
  PROVE  Spared(m, PgdirWalk(m, e, va))
<1>0. m \in MemType /\ DOMAIN m = Fields
  BY DEF Good, MemType, Fields
<1>1. CASE HasTable(m, e, va)
  BY <1>0, <1>1 DEF PgdirWalk, Spared
<1>2. CASE ~HasTable(m, e, va)
  <2>1. m.free # {}
    BY <1>2 DEF CanWalk
  <2>2. Spared(m, PageAlloc(m))
    BY <1>0, <2>1, PageAllocData
  <2>3. PgdirWalk(m, e, va) = Refer(PageAlloc(m), <<e, TabOf[va]>>, NextFree(m))
    BY <1>2 DEF PgdirWalk
  <2> QED BY <2>2, <2>3, ReferData DEF Spared
<1> QED BY <1>1, <1>2

LEMMA InsertData ==
  ASSUME NEW m, Good(m), NEW e, NEW va, NEW p, NEW perm, CanWalk(m, e, va)
  PROVE  Spared(m, PageInsert(m, e, va, p, perm))
<1> DEFINE w == PgdirWalk(m, e, va)
           c == [w EXCEPT !.ref[p] = @ + 1]
           d == PageRemove(c, e, va)
<1>1. Spared(m, w)
  BY WalkData
<1>2. PageInsert(m, e, va, p, perm) = [d EXCEPT !.frame[<<e, va>>] = p, !.perm[<<e, va>>] = perm]
  BY DEF PageInsert
<1> HIDE DEF w
<1>3. DOMAIN c = Fields /\ c.data = w.data
  BY <1>1 DEF Spared, Fields
<1> HIDE DEF c
<1>4. DOMAIN d = Fields /\ d.data = w.data
  BY <1>3, RemoveData
<1> HIDE DEF d
<1>5. LET r == [d EXCEPT !.frame[<<e, va>>] = p, !.perm[<<e, va>>] = perm]
      IN  DOMAIN r = Fields /\ r.data = w.data
  BY <1>4 DEF Fields
<1> QED BY <1>1, <1>2, <1>5 DEF Spared

\* The pages that somebody has mapped keep what they contain.
KeptData == \A f \in Env, va \in Va : mem.frame[<<f, va>>] # NoPage =>
  mem'.data[mem.frame[<<f, va>>]] = mem.data[mem.frame[<<f, va>>]]

LEMMA EntryPage ==
  ASSUME MemInv, NEW f \in Env, NEW va \in Va, mem.frame[<<f, va>>] # NoPage
  PROVE  /\ mem.frame[<<f, va>>] \in Page \ mem.free
         /\ mem.data[mem.frame[<<f, va>>]] \in Value
<1>1. <<f, va>> \in Slot
  BY SlotFacts
<1>2. mem.frame[<<f, va>>] \in Page
  BY <1>1 DEF MemInv, Good, MemType
<1>3. <<f, va>> \in Refs(mem, mem.frame[<<f, va>>])
  BY <1>1 DEF Refs
<1>4. mem.frame[<<f, va>>] \notin mem.free
  BY <1>3 DEF MemInv, Good, FreeUnused
<1> QED BY <1>2, <1>4 DEF MemInv, Good, MemType

LEMMA SparedKept ==
  ASSUME MemInv, Spared(mem, mem')
  PROVE  KeptData
BY EntryPage DEF Spared, KeptData

\* A page that env_page_alloc() maps is one of zeroes.
LEMMA AllocData ==
  ASSUME MemInv, NEW t \in Env, NEW k \in Va, NEW perm \in SUBSET Bits,
         mem' = EnvPageAlloc(mem, t, k, perm)
  PROVE  /\ KeptData
         /\ CanAlloc(mem, t, k) => mem'.data[mem'.frame[<<t, k>>]] = Zero
<1> DEFINE a == PageAlloc(mem)
           p == NextFree(mem)
<1>0. Good(mem) /\ mem \in MemType /\ DOMAIN mem = Fields
  BY DEF MemInv, Good, MemType, Fields
<1>1. CASE mem.free = {}
  BY <1>1 DEF EnvPageAlloc, KeptData, CanAlloc
<1>2. CASE mem.free # {}
  <2>1. /\ Good(a) /\ p \in Page /\ p \in mem.free /\ p \notin a.free
        /\ a.free \subseteq mem.free
    BY <1>0, <1>2, AllocGood
  <2>2. Spared(mem, a) /\ a.data[p] = Zero
    BY <1>0, <1>2, PageAllocData
  <2>3. CASE ~CanAlloc(mem, t, k)
    <3>1. mem' = a
      BY <1>2, <2>3 DEF EnvPageAlloc
    <3> QED BY <2>2, <2>3, <3>1, SparedKept
  <2>4. CASE CanAlloc(mem, t, k)
    <3>1. mem' = PageInsert(a, t, k, p, perm) /\ CanWalk(a, t, k)
      BY <1>2, <2>4 DEF EnvPageAlloc, CanAlloc
    <3> HIDE DEF a, p
    <3>2. Spared(a, mem')
      BY <2>1, <3>1, InsertData
    <3>3. Spared(mem, mem') /\ mem'.data[p] = Zero
      BY <2>1, <2>2, <3>2 DEF Spared
    <3>4. Inserted(a, t, k, p, perm, mem')
      BY <2>1, <3>1, InsertGood
    <3> QED BY <3>3, <3>4, SparedKept DEF Inserted
  <2> QED BY <2>3, <2>4
<1> QED BY <1>1, <1>2

LEMMA MapData ==
  ASSUME MemInv, NEW s \in Env, NEW i \in Va, NEW t \in Env, NEW k \in Va,
         NEW perm \in SUBSET Bits, mem' = EnvPageMap(mem, s, i, t, k, perm)
  PROVE  KeptData
<1>1. CASE ~MayMap(mem, s, i, t, k, perm)
  BY <1>1 DEF EnvPageMap, KeptData
<1>2. CASE MayMap(mem, s, i, t, k, perm)
  <2>1. CanWalk(mem, t, k) /\ mem' = PageInsert(mem, t, k, mem.frame[<<s, i>>], perm)
    BY <1>2 DEF MayMap, EnvPageMap
  <2> QED BY <2>1, InsertData, SparedKept DEF MemInv
<1> QED BY <1>1, <1>2

LEMMA UnmapData ==
  ASSUME MemInv, NEW t, NEW k, mem' = PageRemove(mem, t, k)
  PROVE  KeptData
<1>1. DOMAIN mem = Fields
  BY DEF MemInv, Good, MemType, Fields
<1> QED BY <1>1, RemoveData DEF KeptData

LEMMA FreeData ==
  ASSUME NEW t, Free(t)
  PROVE  KeptData
BY DEF Free, EnvFree, KeptData

LEMMA SetupData ==
  ASSUME MemInv, NEW c, mem.free # {}, mem' = EnvSetupVm(mem, c)
  PROVE  KeptData
<1>1. mem \in MemType
  BY DEF MemInv, Good
<1>2. Spared(mem, PageAlloc(mem))
  BY <1>1, PageAllocData
<1>3. Spared(mem, mem')
  BY <1>2, ReferData DEF EnvSetupVm, Spared
<1> QED BY <1>3, SparedKept

-----------------------------------------------------------------------------
(* What each program sees.                                                  *)

\* The copies that are under way contain what they should.  What the loops have not
\* come to is not mapped in the child; the page at hand is still the parent's too
\* before the second call of duppage(), and it is the child's at UTEMP.
Ahead(e, i) == i > at[e] \/ (i = at[e] /\ pc[e] \in {"page", "page0", "dup", "dup0"})
DataOK(e) ==
  /\ pc[e] = "own" => mem.frame[<<e, Here(e)>>] = mem.frame[<<child[e], Here(e)>>]
  /\ pc[e] = "copy" => mem.frame[<<e, "tmp">>] = mem.frame[<<child[e], Here(e)>>]
  /\ child[e] # NoEnv =>
       \A i \in {2, 3} : Ahead(e, i) => mem.frame[<<child[e], Order[i]>>] = NoPage
  /\ pc[e] # "panic" /\ fault[e] # NoVa /\ fpc[e] = "map" =>
       /\ mem.frame[<<e, "tmp">>] # NoPage
       /\ mem.data[mem.frame[<<e, "tmp">>]] = mem.data[mem.frame[<<e, fault[e]>>]]
  /\ state[e] # "BLOCKED"
DataInv == \A e \in Env : DataOK(e)

\* Whether the page at hand of e is not the child's yet.
Giving(e) == pc[e] \in {"own", "utemp", "copy"}

Hidden(e, va) == mem.frame[<<child[e], va>>] = NoPage \/ (Giving(e) /\ Here(e) = va)

Content(f, va) == mem.data[mem.frame[<<f, va>>]]

\* A program that is UP, or that is loaded, sees its pages, and an embryo that is
\* being made what the loops have given it.
UpView(f) == state[f] = "UP" =>
  /\ Stage(f) = "running" /\ Maker(f) = NoEnv
  /\ \A va \in Image : Seen(f, va) = Content(f, va) /\ Seen(f, va) # NoVa
LoadView(f) == state[f] = "LOADING" =>
  /\ Stage(f) = "loading" /\ Maker(f) = NoEnv
  /\ \A va \in Image :
       Seen(f, va) = IF mem.frame[<<f, va>>] = NoPage THEN NoVa ELSE Content(f, va)
KidView(e) == child[e] # NoEnv =>
  /\ Stage(child[e]) = "made" /\ Maker(child[e]) = e
  /\ \A va \in Image : Seen(child[e], va) =
       IF Hidden(e, va) THEN NoVa ELSE Content(child[e], va)
NoneView(f) == state[f] = "FREE" \/ (state[f] = "EMBRYO" /\ \A e \in Env : child[e] # f) =>
  /\ Stage(f) = "none" /\ Maker(f) = NoEnv
  /\ \A va \in Image : Seen(f, va) = NoVa
Views == \A f \in Env : UpView(f) /\ LoadView(f) /\ KidView(f) /\ NoneView(f)

LEMMA MakersAre ==
  ASSUME CowInv, NEW f \in Env, NEW m \in Env
  PROVE  /\ m \in Makers(f) <=> child[m] = f
         /\ child[m] = f => state[f] = "EMBRYO" /\ parent[f] = m
<1>1. f # NoEnv
  BY Layout
<1>2. child[m] = f => state[f] = "EMBRYO" /\ parent[f] = m /\ pc[m] \in Forking
  BY <1>1 DEF CowInv, ProgOK, PlaceOK
<1>3. pc[m] \in Forking => state[m] = "UP"
  BY DEF CowInv, ProgOK, PlaceOK, Forking
<1> QED BY <1>2, <1>3 DEF Makers

LEMMA ImagePages ==
  /\ Image = {"text", "stack"} /\ Image \subseteq Va
  /\ "tmp" \notin Image /\ "xstk" \notin Image
  /\ NoVa \notin Value /\ Zero \in Value /\ "text" # "stack"
BY LayoutAssumption, SpaceAssumption

LEMMA StageViews == MemInv /\ CowInv /\ DataInv => Views
<1> SUFFICES ASSUME MemInv, CowInv, DataInv, NEW f \in Env
             PROVE  UpView(f) /\ LoadView(f) /\ KidView(f) /\ NoneView(f)
  BY DEF Views
<1>1. ASSUME state[f] # "EMBRYO" PROVE Makers(f) = {} /\ \A va \in Image : ~Filling(f, va)
  <2>1. \A m \in Env : m \notin Makers(f)
    BY <1>1, MakersAre
  <2>2. Makers(f) = {}
    BY <2>1 DEF Makers
  <2> QED BY <2>2 DEF Filling
<1>2. \A va \in Image : mem.frame[<<f, va>>] # NoPage => Content(f, va) # NoVa
  BY EntryPage, ImagePages DEF Content
<1>3. UpView(f)
  <2> SUFFICES ASSUME state[f] = "UP"
               PROVE  /\ Stage(f) = "running" /\ Maker(f) = NoEnv
                      /\ \A va \in Image : Seen(f, va) = Content(f, va) /\ Seen(f, va) # NoVa
    BY DEF UpView
  <2>1. Stage(f) = "running"
    BY DEF Stage
  <2>2. \A va \in Image : mem.frame[<<f, va>>] # NoPage
    BY ImagePages DEF CowInv, ProgOK, MappedOK
  <2>3. Maker(f) = NoEnv
    BY <2>1 DEF Maker
  <2>4. \A va \in Image : Seen(f, va) = Content(f, va)
    BY <1>1, <2>1, <2>2 DEF Seen, Content
  <2> QED BY <1>2, <2>1, <2>2, <2>3, <2>4
<1>4. LoadView(f)
  <2> SUFFICES ASSUME state[f] = "LOADING"
               PROVE  /\ Stage(f) = "loading" /\ Maker(f) = NoEnv
                      /\ \A va \in Image : Seen(f, va) =
                           IF mem.frame[<<f, va>>] = NoPage THEN NoVa ELSE Content(f, va)
    BY DEF LoadView
  <2>1. Stage(f) = "loading"
    BY DEF Stage
  <2>2. Maker(f) = NoEnv
    BY <2>1 DEF Maker
  <2>3. \A va \in Image : Seen(f, va) =
          IF mem.frame[<<f, va>>] = NoPage THEN NoVa ELSE Content(f, va)
    BY <1>1, <2>1 DEF Seen, Content
  <2> QED BY <2>1, <2>2, <2>3
<1>5. NoneView(f)
  <2> SUFFICES ASSUME state[f] = "FREE" \/ (state[f] = "EMBRYO" /\ \A e \in Env : child[e] # f)
               PROVE  /\ Stage(f) = "none" /\ Maker(f) = NoEnv
                      /\ \A va \in Image : Seen(f, va) = NoVa
    BY DEF NoneView
  <2>1. \A m \in Env : child[m] # f => m \notin Makers(f)
    BY MakersAre
  <2>2. state[f] = "EMBRYO" => Makers(f) = {}
    BY <2>1 DEF Makers
  <2>3. Stage(f) = "none"
    BY <2>2 DEF Stage
  <2> QED BY <2>3 DEF Maker, Seen
<1>6. KidView(f)
  <2> SUFFICES ASSUME NEW c, c = child[f], c # NoEnv
               PROVE  /\ Stage(c) = "made" /\ Maker(c) = f
                      /\ \A va \in Image : Seen(c, va) =
                           IF Hidden(f, va) THEN NoVa ELSE Content(c, va)
    BY DEF KidView
  <2>1. c \in Env
    BY DEF CowInv, CowTypeOK
  <2>2. /\ state[c] = "EMBRYO" /\ f \in Makers(c)
        /\ \A m \in Env : m \in Makers(c) => m = f
    BY <2>1, MakersAre
  <2>3. Makers(c) = {f}
    BY <2>2 DEF Makers
  <2>4. Stage(c) = "made"
    BY <2>2, <2>3 DEF Stage
  <2>5. Maker(c) = f
    BY <2>3, <2>4 DEF Maker
  <2>6. ASSUME NEW va \in Image
        PROVE  Filling(c, va) <=> Giving(f) /\ Here(f) = va
    <3>1. pc[f] = "own" => mem.frame[<<f, Here(f)>>] = mem.frame[<<c, Here(f)>>]
      BY DEF DataInv, DataOK
    <3> QED BY <2>3, <3>1 DEF Filling, Giving
  <2>7. ASSUME NEW va \in Image
        PROVE  Seen(c, va) = IF Hidden(f, va) THEN NoVa ELSE Content(c, va)
    BY <2>4, <2>6 DEF Seen, Content, Hidden
  <2> QED BY <2>4, <2>5, <2>7
<1> QED BY <1>3, <1>4, <1>5, <1>6

-----------------------------------------------------------------------------
(* From what each program sees to the steps of Private.                     *)

Same(f) ==
  /\ Stage(f)' = Stage(f) /\ Maker(f)' = Maker(f)
  /\ \A va \in Image : Seen(f, va)' = Seen(f, va)

LEMMA StutterView ==
  ASSUME \A f \in Env : Same(f)
  PROVE  UNCHANGED P!vars
<1>1. Spaces' = Spaces /\ Stages' = Stages /\ MakerOf' = MakerOf
  BY DEF Spaces, Stages, MakerOf, Same
<1> QED BY <1>1 DEF P!vars

\* One page of one program changes.
LEMMA OnePage ==
  ASSUME NEW e \in Env, NEW va \in Image, NEW v,
         \A f \in Env \ {e} : Same(f),
         Stage(e)' = Stage(e), Maker(e)' = Maker(e), Seen(e, va)' = v,
         \A w \in Image \ {va} : Seen(e, w)' = Seen(e, w)
  PROVE  /\ Spaces' = [Spaces EXCEPT ![e][va] = v]
         /\ UNCHANGED <<Stages, MakerOf>>
<1>1. \A f \in Env \ {e} : Spaces'[f] = Spaces[f]
  BY DEF Same, Spaces
<1>2. Spaces'[e] = [Spaces[e] EXCEPT ![va] = v]
  BY DEF Spaces
<1>3. DOMAIN Spaces' = Env /\ DOMAIN Spaces = Env /\ Spaces' = [f \in Env |-> Spaces'[f]]
  BY DEF Spaces
<1>4. Spaces' = [Spaces EXCEPT ![e][va] = v]
  BY <1>1, <1>2, <1>3
<1>5. UNCHANGED <<Stages, MakerOf>>
  BY DEF Same, Stages, MakerOf
<1> QED BY <1>4, <1>5

LEMMA WriteView ==
  ASSUME NEW e \in Env, NEW va \in Image, NEW v \in Value, Stage(e) = "running",
         \A f \in Env \ {e} : Same(f),
         Stage(e)' = Stage(e), Maker(e)' = Maker(e), Seen(e, va)' = v,
         \A w \in Image \ {va} : Seen(e, w)' = Seen(e, w)
  PROVE  P!Next
<1>1. Stages[e] = "running"
  BY DEF Stages
<1>2. P!Write(e, va, v)
  BY <1>1, OnePage DEF P!Write
<1> QED BY <1>2 DEF P!Next

LEMMA CopyView ==
  ASSUME NEW c \in Env, NEW va \in Image, Stage(c) = "made", Maker(c) \in Env,
         Seen(c, va) = NoVa, \A f \in Env \ {c} : Same(f),
         Stage(c)' = Stage(c), Maker(c)' = Maker(c), Seen(c, va)' = Seen(Maker(c), va),
         \A w \in Image \ {va} : Seen(c, w)' = Seen(c, w)
  PROVE  P!Next
<1>1. /\ Stages[c] = "made" /\ Spaces[c][va] = NoVa
      /\ Spaces[MakerOf[c]][va] = Seen(Maker(c), va)
  BY DEF Stages, Spaces, MakerOf
<1>2. P!Copy(c, va)
  BY <1>1, OnePage DEF P!Copy
<1> QED BY <1>2 DEF P!Next

\* The stage of one program changes, and what it sees does not.
LEMMA OneStage ==
  ASSUME NEW c \in Env, NEW st, NEW m, \A f \in Env \ {c} : Same(f),
         Stage(c)' = st, Maker(c)' = m, \A va \in Image : Seen(c, va)' = Seen(c, va)
  PROVE  /\ Stages' = [Stages EXCEPT ![c] = st]
         /\ MakerOf' = [MakerOf EXCEPT ![c] = m]
         /\ UNCHANGED Spaces
BY DEF Same, Stages, MakerOf, Spaces

LEMMA MakeView ==
  ASSUME NEW e \in Env, NEW c \in Env, Stage(e) = "running", Stage(c) = "none",
         \A f \in Env \ {c} : Same(f), Stage(c)' = "made", Maker(c)' = e,
         \A va \in Image : Seen(c, va)' = Seen(c, va)
  PROVE  P!Next
<1>1. Stages[e] = "running" /\ Stages[c] = "none"
  BY DEF Stages
<1>2. P!Make(e, c)
  BY <1>1, OneStage DEF P!Make
<1> QED BY <1>2 DEF P!Next

LEMMA StartView ==
  ASSUME NEW c \in Env, Stage(c) = "made", \A va \in Image : Seen(c, va) # NoVa,
         \A f \in Env \ {c} : Same(f), Stage(c)' = "running", Maker(c)' = NoEnv,
         \A va \in Image : Seen(c, va)' = Seen(c, va)
  PROVE  P!Next
<1>1. Stages[c] = "made" /\ \A va \in Image : Spaces[c][va] # NoVa
  BY DEF Stages, Spaces
<1>2. P!Start(c)
  BY <1>1, OneStage DEF P!Start
<1> QED BY <1>2 DEF P!Next

LEMMA CreateView ==
  ASSUME NEW e \in Env, Stage(e) = "none", Stage(e)' = "loading", Maker(e)' = Maker(e),
         \A f \in Env \ {e} : Same(f), \A va \in Image : Seen(e, va)' = Seen(e, va)
  PROVE  P!Next
<1>1. Stages[e] = "none" /\ MakerOf' = MakerOf
  BY DEF Stages, MakerOf, Same
<1>2. P!Create(e)
  BY <1>1, OneStage DEF P!Create
<1> QED BY <1>2 DEF P!Next

LEMMA LoadedView ==
  ASSUME NEW e \in Env, NEW va \in Image, Stage(e) = "loading", Seen(e, va) = NoVa,
         \A f \in Env \ {e} : Same(f),
         \/ Stage(e)' = "loading"
         \/ Stage(e)' = "running" /\ \A w \in Image \ {va} : Seen(e, w) # NoVa,
         Maker(e)' = Maker(e), Seen(e, va)' = Zero,
         \A w \in Image \ {va} : Seen(e, w)' = Seen(e, w)
  PROVE  P!Next
<1>1. /\ Stages[e] = "loading" /\ Spaces[e][va] = NoVa
      /\ \A w \in Image \ {va} : Spaces[e][w] = Seen(e, w)
  BY DEF Stages, Spaces
<1>2. \A f \in Env \ {e} : Spaces'[f] = Spaces[f]
  BY DEF Same, Spaces
<1>3. Spaces'[e] = [Spaces[e] EXCEPT ![va] = Zero]
  BY DEF Spaces
<1>4. DOMAIN Spaces' = Env /\ DOMAIN Spaces = Env /\ Spaces' = [f \in Env |-> Spaces'[f]]
  BY DEF Spaces
<1>5. Spaces' = [Spaces EXCEPT ![e][va] = Zero]
  BY <1>2, <1>3, <1>4
<1>6. Stages' = [Stages EXCEPT ![e] = Stage(e)'] /\ MakerOf' = MakerOf
  BY DEF Same, Stages, MakerOf
<1>7. Stage(e)' = "loading" => Stages' = Stages
  BY <1>1, <1>6 DEF Stages
<1>8. P!Load(e, va)
  BY <1>1, <1>5, <1>6, <1>7 DEF P!Load
<1> QED BY <1>8 DEF P!Next

\* Programs end; nobody is left whose maker has.
LEMMA EndView ==
  ASSUME NEW S \in SUBSET Env, \A f \in Env \ S : Same(f),
         \A f \in S : /\ Stage(f) \in {"running", "made"}
                      /\ Stage(f)' = "none" /\ Maker(f)' = NoEnv
                      /\ \A va \in Image : Seen(f, va)' = NoVa,
         \A f \in Env : Maker(f) \in S => f \in S
  PROVE  P!Next
<1>1. \A c \in S : Stages[c] \in {"running", "made"}
  BY DEF Stages
<1>2. \A c \in Env : MakerOf[c] \in S => c \in S
  BY DEF MakerOf
<1>3. /\ Stages' = [f \in Env |-> IF f \in S THEN "none" ELSE Stages[f]]
      /\ MakerOf' = [f \in Env |-> IF f \in S THEN NoEnv ELSE MakerOf[f]]
  BY DEF Same, Stages, MakerOf
<1>4. Spaces' = [f \in Env |-> IF f \in S THEN P!Empty ELSE Spaces[f]]
  BY DEF Same, Spaces, P!Empty
<1>5. P!End(S)
  BY <1>1, <1>2, <1>3, <1>4 DEF P!End
<1> QED BY <1>5 DEF P!Next

-----------------------------------------------------------------------------
(* What a step leaves of the programs it is not about.                      *)

KeptFor(f) == \A va \in Va : mem.frame[<<f, va>>] # NoPage =>
  mem'.data[mem.frame[<<f, va>>]] = mem.data[mem.frame[<<f, va>>]]

\* What Private says of a step.
Promise == Views /\ Views' => P!Next \/ UNCHANGED P!vars

\* A program that is not in the middle of anything.
LEMMA CalmData ==
  ASSUME NEW f, pc'[f] \notin {"own", "copy"}, child'[f] = NoEnv,
         fault'[f] = NoVa \/ fpc'[f] # "map", state'[f] # "BLOCKED"
  PROVE  DataOK(f)'
BY DEF DataOK

LEMMA FarData ==
  ASSUME MemInv, CowInv, DataInv, NEW e, NEW c, Mine(e, c), Elsewhere(e, c),
         NEW f \in Env \ {e, c}, KeptFor(f)
  PROVE  /\ DataOK(f)'
         /\ \A i \in Va : mem'.frame[<<f, i>>] = mem.frame[<<f, i>>]
         /\ child[f] # NoEnv =>
              /\ child[f] \in Env \ {e, c} /\ state'[child[f]] = "EMBRYO"
              /\ \A i \in Va : mem'.frame[<<child[f], i>>] = mem.frame[<<child[f], i>>]
<1> DEFINE d == child[f]
<1>1. ProgOK(f) /\ DataOK(f)
  BY DEF CowInv, DataInv
<1>2. /\ pc'[f] = pc[f] /\ child'[f] = d /\ at'[f] = at[f] /\ Here(f)' = Here(f)
      /\ fault'[f] = fault[f] /\ fpc'[f] = fpc[f] /\ state'[f] = state[f]
      /\ \A va \in Va : mem'.frame[<<f, va>>] = mem.frame[<<f, va>>]
  BY DEF Elsewhere, Here
<1>3. ASSUME d # NoEnv
      PROVE  /\ d \in Env \ {e, c} /\ state'[d] = "EMBRYO"
             /\ \A va \in Va : mem'.frame[<<d, va>>] = mem.frame[<<d, va>>]
  <2>1. d \in Env /\ state[d] = "EMBRYO" /\ parent[d] = f
    BY <1>1, <1>3 DEF ProgOK, PlaceOK, CowInv, CowTypeOK
  <2>2. c = child[e] /\ c \in Env => parent[c] = e
    BY Layout DEF CowInv, ProgOK, PlaceOK, Mine
  <2>3. d \notin {e, c} /\ f \notin {e, c}
    BY <2>1, <2>2 DEF Mine
  <2> QED BY <2>1, <2>3 DEF Elsewhere
<1> HIDE DEF d
<1>4. pc[f] \in {"own", "copy"} => d # NoEnv /\ Here(f) \in Va
  BY <1>1, AtPage DEF ProgOK, PlaceOK, Forking, Copying, d
<1>5. /\ pc[f] = "own" => mem'.frame[<<f, Here(f)>>] = mem'.frame[<<d, Here(f)>>]
      /\ pc[f] = "copy" => mem'.frame[<<f, "tmp">>] = mem'.frame[<<d, Here(f)>>]
  BY <1>1, <1>2, <1>3, <1>4, Layout DEF DataOK, d
<1>6. d # NoEnv =>
        \A i \in {2, 3} : Ahead(f, i) => mem'.frame[<<d, Order[i]>>] = NoPage
  BY <1>1, <1>3, Layout DEF DataOK, d
<1>7. \A i : Ahead(f, i)' <=> Ahead(f, i)
  BY <1>2 DEF Ahead
<1>8. ASSUME pc[f] # "panic", fault[f] # NoVa, fpc[f] = "map"
      PROVE  /\ mem'.frame[<<f, "tmp">>] # NoPage
             /\ mem'.data[mem'.frame[<<f, "tmp">>]] = mem'.data[mem'.frame[<<f, fault[f]>>]]
  <2>1. fault[f] \in {"text", "stack"} /\ state[f] = "UP"
    BY <1>1, <1>8 DEF CowInv, CowTypeOK, ProgOK, PlaceOK
  <2>2. /\ mem.frame[<<f, "tmp">>] # NoPage /\ mem.frame[<<f, fault[f]>>] # NoPage
        /\ mem.data[mem.frame[<<f, "tmp">>]] = mem.data[mem.frame[<<f, fault[f]>>]]
    BY <1>1, <1>8, <2>1 DEF DataOK, ProgOK, MappedOK
  <2>3. /\ mem'.frame[<<f, "tmp">>] = mem.frame[<<f, "tmp">>]
        /\ mem'.frame[<<f, fault[f]>>] = mem.frame[<<f, fault[f]>>]
    BY <1>2, <2>1, Layout
  <2> QED BY <2>1, <2>2, <2>3, Layout DEF KeptFor
<1>9. DataOK(f)'
  BY <1>1, <1>2, <1>5, <1>6, <1>7, <1>8 DEF DataOK, d
<1> QED BY <1>2, <1>3, <1>9 DEF d

\* What a program that is UP sees is what its pages contain.
LEMMA UpSame ==
  ASSUME Views, Views', NEW f \in Env, state[f] = "UP", state'[f] = "UP",
         \A va \in Image : Content(f, va)' = Content(f, va)
  PROVE  Same(f)
<1>1. UpView(f) /\ UpView(f)'
  BY DEF Views
<1> QED BY <1>1 DEF UpView, Same

LEMMA KeptContent ==
  ASSUME CowInv, NEW f \in Env, state[f] = "UP", KeptFor(f), NEW va \in Image,
         mem'.frame[<<f, va>>] = mem.frame[<<f, va>>]
  PROVE  Content(f, va)' = Content(f, va)
<1>1. mem.frame[<<f, va>>] # NoPage
  BY ImagePages DEF CowInv, ProgOK, MappedOK
<1> QED BY <1>1, ImagePages DEF Content, KeptFor

\* What the child of e sees of a page, which may be hidden, stays the same.
KidKept(e, va) ==
  \/ Hidden(e, va) /\ Hidden(e, va)'
  \/ /\ mem'.frame[<<child[e], va>>] = mem.frame[<<child[e], va>>]
     /\ mem.frame[<<child[e], va>>] # NoPage =>
          mem'.data[mem.frame[<<child[e], va>>]] = mem.data[mem.frame[<<child[e], va>>]]
     /\ (Giving(e)' /\ Here(e)' = va) <=> (Giving(e) /\ Here(e) = va)

LEMMA KidPage ==
  ASSUME Views, Views', NEW e \in Env, child'[e] = child[e], NEW c \in Env, c = child[e],
         NEW va \in Image, KidKept(e, va)
  PROVE  Seen(c, va)' = Seen(c, va)
<1>1. KidView(e) /\ KidView(e)' /\ c # NoEnv
  BY Layout DEF Views
<1>2. /\ Seen(c, va) = IF Hidden(e, va) THEN NoVa ELSE Content(c, va)
      /\ Seen(c, va)' = IF Hidden(e, va)' THEN NoVa ELSE Content(c, va)'
  BY <1>1 DEF KidView
<1>3. CASE Hidden(e, va) /\ Hidden(e, va)'
  BY <1>2, <1>3
<1>4. CASE ~(Hidden(e, va) /\ Hidden(e, va)')
  <2>1. mem'.frame[<<c, va>>] = mem.frame[<<c, va>>]
    BY <1>4 DEF KidKept
  <2>2. Hidden(e, va)' <=> Hidden(e, va)
    BY <1>4, <2>1 DEF Hidden, KidKept
  <2>3. ~Hidden(e, va) => mem.frame[<<c, va>>] # NoPage
    BY DEF Hidden
  <2>4. ~Hidden(e, va) => Content(c, va)' = Content(c, va)
    BY <1>4, <2>1, <2>3 DEF KidKept, Content
  <2> QED BY <1>2, <2>2, <2>4
<1> QED BY <1>3, <1>4

LEMMA KidStage ==
  ASSUME Views, Views', NEW e \in Env, child'[e] = child[e], NEW c \in Env, c = child[e]
  PROVE  Stage(c) = "made" /\ Maker(c) = e /\ Stage(c)' = Stage(c) /\ Maker(c)' = Maker(c)
<1>1. KidView(e) /\ KidView(e)' /\ c # NoEnv
  BY Layout DEF Views
<1> QED BY <1>1 DEF KidView

LEMMA KidSame ==
  ASSUME Views, Views', NEW e \in Env, child'[e] = child[e], NEW c \in Env, c = child[e],
         \A va \in Image : KidKept(e, va)
  PROVE  Same(c)
BY KidPage, KidStage DEF Same

LEMMA FarSame ==
  ASSUME MemInv, CowInv, DataInv, Views, Views', NEW e, NEW c, Mine(e, c), Elsewhere(e, c),
         child'[e] \in {c, NoEnv}, c \in Env => child'[c] = NoEnv,
         NEW f \in Env \ {e, c}, KeptFor(f)
  PROVE  Same(f)
<1>1. /\ UpView(f) /\ LoadView(f) /\ NoneView(f)
      /\ UpView(f)' /\ LoadView(f)' /\ NoneView(f)'
  BY DEF Views
<1>2. /\ state'[f] = state[f]
      /\ \A va \in Va : mem'.frame[<<f, va>>] = mem.frame[<<f, va>>]
      /\ state[f] \in {"FREE", "LOADING", "EMBRYO", "UP"}
  BY DEF Elsewhere, MemInv, ProcOK, DataInv, DataOK
<1>3. CASE state[f] = "UP"
  BY <1>2, <1>3, UpSame, KeptContent, ImagePages
<1>4. CASE state[f] = "LOADING"
  <2>1. \A va \in Image : mem.frame[<<f, va>>] # NoPage => Content(f, va)' = Content(f, va)
    BY <1>2, ImagePages DEF Content, KeptFor
  <2> QED BY <1>1, <1>2, <1>4, <2>1, ImagePages DEF LoadView, Same
<1>5. CASE state[f] = "FREE"
  BY <1>1, <1>2, <1>5 DEF NoneView, Same
<1>6. ASSUME state[f] = "EMBRYO", NEW m \in Env, child[m] = f PROVE Same(f)
  <2>1. m \notin {e, c}
    <3>1. c \in Env => child[c] = NoEnv
      BY Layout DEF Mine, CowInv, ProgOK, PlaceOK, Forking
    <3> QED BY <1>6, <3>1, Layout DEF Mine
  <2>2. /\ pc'[m] = pc[m] /\ child'[m] = child[m] /\ Here(m)' = Here(m)
    BY <2>1 DEF Elsewhere, Here
  <2>3. \A va \in Image : KidKept(m, va)
    BY <1>2, <1>6, <2>2, ImagePages DEF KidKept, Giving, KeptFor
  <2> QED BY <1>6, <2>2, <2>3, KidSame
<1>7. CASE state[f] = "EMBRYO" /\ \A m \in Env : child[m] # f
  <2>1. \A m \in Env : child'[m] # f
    <3>1. \A m \in Env \ {e, c} : child'[m] = child[m]
      BY DEF Elsewhere
    <3> QED BY <1>7, <3>1, Layout
  <2> QED BY <1>1, <1>2, <1>7, <2>1 DEF NoneView, Same
<1> QED BY <1>2, <1>3, <1>4, <1>5, <1>6, <1>7

-----------------------------------------------------------------------------
(* Steps that change the variables of one program, and pages of its own.    *)

LEMMA KeptForAll ==
  ASSUME KeptData, NEW f \in Env
  PROVE  KeptFor(f)
BY DEF KeptData, KeptFor

Local(e) ==
  /\ Up(e) /\ pc[e] # "panic" /\ OnlyProg(e) /\ UNCHANGED <<state, parent, child>>
  /\ \A f \in Env \ {e, child[e]}, va \in Va :
       /\ mem'.frame[<<f, va>>] = mem.frame[<<f, va>>]
       /\ mem'.perm[<<f, va>>] = mem.perm[<<f, va>>]

\* The child of e does nothing itself.
LEMMA KidCalm ==
  ASSUME MemInv, CowInv, NEW e \in Env, Up(e), pc[e] # "panic", NEW c \in Env, c = child[e]
  PROVE  /\ state[c] = "EMBRYO" /\ parent[c] = e /\ c # e
         /\ pc[c] = "user" /\ child[c] = NoEnv /\ fault[c] = NoVa
<1>1. c # e /\ state[c] = "EMBRYO" /\ parent[c] = e
  BY RunsMine, Layout
<1> QED BY <1>1 DEF CowInv, ProgOK, PlaceOK, Forking

LEMMA LocalFar ==
  ASSUME MemInv, CowInv, DataInv, NEW e \in Env, Local(e), DataOK(e)',
         \A f \in Env \ {e, child[e]} : KeptFor(f)
  PROVE  DataInv' /\ (Views /\ Views' => \A f \in Env \ {e, child[e]} : Same(f))
<1>1. PICK c : c = child[e]
  OBVIOUS
<1>2. Mine(e, c) /\ Elsewhere(e, c)
  BY <1>1, RunsMine DEF Local, Elsewhere, OnlyProg
<1>3. ASSUME c \in Env PROVE DataOK(c)' /\ child'[c] = NoEnv
  <2>1. /\ state[c] = "EMBRYO" /\ c # e
        /\ pc[c] = "user" /\ child[c] = NoEnv /\ fault[c] = NoVa
    BY <1>1, <1>3, KidCalm DEF Local
  <2>2. pc'[c] = "user" /\ child'[c] = NoEnv /\ fault'[c] = NoVa /\ state'[c] = "EMBRYO"
    BY <1>3, <2>1 DEF Local, OnlyProg
  <2> QED BY <2>2, CalmData
<1>4. child'[e] \in {c, NoEnv}
  BY <1>1 DEF Local
<1>5. \A f \in Env \ {e, c} : DataOK(f)'
  BY <1>1, <1>2, FarData
<1>6. Views /\ Views' => \A f \in Env \ {e, c} : Same(f)
  BY <1>1, <1>2, <1>3, <1>4, FarSame
<1> QED BY <1>1, <1>3, <1>5, <1>6 DEF DataInv

LEMMA LocalStutter ==
  ASSUME MemInv, CowInv, DataInv, NEW e \in Env, Local(e), DataOK(e)',
         \A f \in Env \ {e, child[e]} : KeptFor(f),
         \A va \in Image : Content(e, va)' = Content(e, va),
         child[e] # NoEnv => \A va \in Image : KidKept(e, va)
  PROVE  DataInv' /\ Promise
<1>1. DataInv' /\ (Views /\ Views' => \A f \in Env \ {e, child[e]} : Same(f))
  BY LocalFar
<1>2. SUFFICES ASSUME Views, Views' PROVE UNCHANGED P!vars
  BY <1>1 DEF Promise
<1>3. Same(e)
  BY <1>2, UpSame DEF Local, Up
<1>4. child[e] \in Env => Same(child[e])
  BY <1>2, Layout, KidSame DEF Local
<1> QED BY <1>1, <1>2, <1>3, <1>4, StutterView

\* A step that leaves the memory alone.
LEMMA KeptPromise ==
  ASSUME MemInv, CowInv, DataInv, NEW e \in Env, Up(e), pc[e] # "panic", OnlyProg(e),
         UNCHANGED <<mem, state, parent, child>>, DataOK(e)',
         Giving(e)' <=> Giving(e), Giving(e) => at'[e] = at[e]
  PROVE  DataInv' /\ Promise
<1>1. Local(e) /\ \A f \in Env : KeptFor(f)
  BY DEF Local, KeptFor
<1>2. \A va \in Image : KidKept(e, va)
  BY DEF KidKept, Here
<1>3. \A va \in Image : Content(e, va)' = Content(e, va)
  BY DEF Content
<1> QED BY <1>1, <1>2, <1>3, LocalStutter

-----------------------------------------------------------------------------
(* Programs, and forks, that end.                                           *)

LEMMA MakerIs ==
  ASSUME CowInv, NEW f \in Env, Maker(f) \in Env
  PROVE  child[Maker(f)] = f
<1>1. Stage(f) = "made" /\ Maker(f) = CHOOSE m \in Makers(f) : TRUE
  BY Layout DEF Maker
<1>2. Makers(f) # {}
  BY <1>1 DEF Stage
<1>3. Maker(f) \in Makers(f)
  BY <1>1, <1>2
<1> QED BY <1>3, MakersAre

LEMMA EndStep ==
  ASSUME MemInv, CowInv, DataInv, NEW e \in Env, Up(e), pc[e] # "panic", NEW c, c = child[e],
         Elsewhere(e, c), KeptData,
         child'[e] = NoEnv, pc'[e] \notin {"own", "copy"}, fault'[e] = NoVa,
         c \in Env => /\ state'[c] \in {"EMBRYO", "FREE"} /\ child'[c] = child[c]
                      /\ pc'[c] = pc[c] /\ fault'[c] = fault[c],
         \/ state'[e] = "FREE"
         \/ state'[e] = "UP" /\ \A va \in Image : mem'.frame[<<e, va>>] = mem.frame[<<e, va>>]
  PROVE  DataInv' /\ Promise
<1>1. Mine(e, c) /\ c \in Env \cup {NoEnv} /\ (c \in Env <=> c # NoEnv)
  BY RunsMine, Layout
<1>2. c \in Env => /\ state[c] = "EMBRYO" /\ parent[c] = e /\ c # e
                   /\ pc'[c] = "user" /\ child'[c] = NoEnv /\ child[c] = NoEnv
                   /\ fault'[c] = NoVa
  BY KidCalm
<1>3. DataInv'
  <2>1. DataOK(e)' /\ (c \in Env => DataOK(c)')
    BY <1>2, CalmData
  <2>2. \A f \in Env \ {e, c} : DataOK(f)'
    BY <1>1, FarData, KeptForAll
  <2> QED BY <2>1, <2>2 DEF DataInv
<1>4. SUFFICES ASSUME Views, Views' PROVE P!Next
  BY <1>3 DEF Promise
<1>5. \A f \in Env \ {e, c} : Same(f)
  BY <1>1, <1>2, <1>4, FarSame, KeptForAll
<1>6. state'[e] = "UP" => Same(e)
  BY <1>4, UpSame, KeptContent, KeptForAll DEF Up
<1> DEFINE S == {f \in Env : f = c \/ (f = e /\ state'[e] = "FREE")}
<1>7. \A f \in Env \ S : Same(f)
  BY <1>5, <1>6
<1>8. ASSUME c \in Env
      PROVE  /\ Stage(c) = "made" /\ Stage(c)' = "none" /\ Maker(c)' = NoEnv
             /\ \A va \in Image : Seen(c, va)' = NoVa
  <2>1. Stage(c) = "made"
    BY <1>1, <1>4, <1>8 DEF Views, KidView
  <2>2. \A m \in Env \ {e} : child'[m] # c
    <3>1. \A m \in Env \ {e, c} : child'[m] = child[m]
      BY DEF Elsewhere
    <3>2. \A m \in Env \ {e} : child[m] # c
      BY <1>2, <1>8, MakersAre
    <3> QED BY <1>2, <1>8, <3>1, <3>2, Layout
  <2>3. \A m \in Env : child'[m] # c
    BY <1>1, <1>8, <2>2
  <2> QED BY <1>4, <1>8, <2>1, <2>3 DEF Views, NoneView
<1>9. ASSUME state'[e] = "FREE"
      PROVE  /\ Stage(e) = "running" /\ Stage(e)' = "none" /\ Maker(e)' = NoEnv
             /\ \A va \in Image : Seen(e, va)' = NoVa
  BY <1>4, <1>9 DEF Views, UpView, NoneView, Up
<1>10. \A f \in Env : Maker(f) \in S => f \in S
  <2> SUFFICES ASSUME NEW f \in Env, Maker(f) \in S PROVE f = c
    OBVIOUS
  <2>1. child[Maker(f)] = f
    BY MakerIs
  <2> QED BY <1>2, <2>1, Layout
<1>11. S \in SUBSET Env
  OBVIOUS
<1>12. \A f \in S : /\ Stage(f) \in {"running", "made"}
                    /\ Stage(f)' = "none" /\ Maker(f)' = NoEnv
                    /\ \A va \in Image : Seen(f, va)' = NoVa
  BY <1>8, <1>9
<1> HIDE DEF S
<1> QED BY <1>7, <1>10, <1>11, <1>12, EndView

LEMMA PanicData ==
  ASSUME MemInv, CowInv, DataInv, NEW e \in Env, Up(e), pc[e] # "panic",
         EntriesKept, KeptData, UNCHANGED <<state, parent>>, UserPanic(e)
  PROVE  DataInv' /\ Promise
<1>1. PICK c : c = child[e]
  OBVIOUS
<1>2. /\ pc'[e] = "panic" /\ child'[e] = NoEnv /\ fault'[e] = NoVa /\ OnlyProg(e)
  BY DEF CowInv, UserPanic, Goto, Leave, CowTypeOK, OnlyProg
<1>3. Elsewhere(e, c)
  BY <1>2 DEF Elsewhere, OnlyProg, EntriesKept
<1>4. c \in Env => c # e /\ state[c] = "EMBRYO"
  BY <1>1, KidCalm
<1>5. \A va \in Image : mem'.frame[<<e, va>>] = mem.frame[<<e, va>>]
  BY ImagePages DEF EntriesKept
<1> QED BY <1>1, <1>2, <1>3, <1>4, <1>5, EndStep DEF OnlyProg, Up

LEMMA GoneData ==
  ASSUME MemInv, CowInv, DataInv, NEW e \in Env, Up(e), pc[e] # "panic", Gone(e)
  PROVE  DataInv' /\ Promise
<1>1. PICK c : c = child[e]
  OBVIOUS
<1>2. /\ pc'[e] = "user" /\ child'[e] = NoEnv /\ fault'[e] = NoVa /\ OnlyProg(e) /\ Free(e)
  BY DEF CowInv, Gone, Goto, Leave, CowTypeOK, OnlyProg
<1>3. /\ state'[e] = "FREE" /\ GotFreed(e)
      /\ \A f \in Env \ {e} : /\ state'[f] = state[f]
                              /\ parent[f] # e => parent'[f] = parent[f]
  BY <1>2, FreeOthers
<1>4. Elsewhere(e, c)
  BY <1>2, <1>3 DEF Elsewhere, OnlyProg, GotFreed
<1>5. c \in Env => c # e /\ state[c] = "EMBRYO"
  BY <1>1, KidCalm
<1>6. KeptData
  BY <1>2, FreeData
<1> QED BY <1>1, <1>2, <1>3, <1>4, <1>5, <1>6, EndStep DEF OnlyProg

-----------------------------------------------------------------------------
(* The steps that leave the memory alone.                                   *)

LEMMA FaultData ==
  ASSUME MemInv, CowInv, DataInv, NEW e \in Env, NEW va \in Va,
         PageFault(e, va), ~Gone(e)
  PROVE  DataInv' /\ Promise
<1>1. /\ Up(e) /\ fault[e] = NoVa /\ pc[e] # "panic"
      /\ fault' = [fault EXCEPT ![e] = va]
      /\ UNCHANGED <<memVars, pc, child, at, pte, fpc>>
  BY DEF PageFault, Writes
<1>2. UNCHANGED <<mem, state, parent>> /\ OnlyProg(e) /\ Here(e)' = Here(e)
  BY <1>1 DEF memVars, procVars, OnlyProg, CowInv, CowTypeOK, Here
<1>3. DataOK(e) /\ fpc[e] = "alloc"
  BY <1>1 DEF DataInv, CowInv, ProgOK, PlaceOK
<1>4. DataOK(e)'
  BY <1>1, <1>2, <1>3 DEF DataOK, Ahead
<1> QED BY <1>1, <1>2, <1>4, KeptPromise DEF Giving

\* A step that gives e another place, or page, outside of the copies.
LEMMA PlaceData ==
  ASSUME MemInv, CowInv, DataInv, NEW e \in Env, Up(e), pc[e] # "panic", fault[e] = NoVa,
         UNCHANGED <<mem, state, parent, child, fault, fpc>>, OnlyProg(e),
         ~Giving(e), ~Giving(e)',
         child[e] # NoEnv => \A i \in {2, 3} : Ahead(e, i)' => Ahead(e, i)
  PROVE  DataInv' /\ Promise
<1>1. DataOK(e)
  BY DEF DataInv
<1>2. DataOK(e)'
  BY <1>1 DEF DataOK, Giving
<1> QED BY <1>2, KeptPromise

LEMMA ForkCallData ==
  ASSUME MemInv, CowInv, DataInv, NEW e \in Env, ForkCall(e)
  PROVE  DataInv' /\ Promise
<1>1. /\ Up(e) /\ fault[e] = NoVa /\ pc[e] = "user"
      /\ UNCHANGED <<mem, state, parent, child, at, pte, fault, fpc>>
  BY DEF ForkCall, At, memVars, procVars
<1>2. OnlyProg(e) /\ pc'[e] \in {"exofork0", "exofork", "xalloc"} /\ child[e] = NoEnv
  BY <1>1 DEF ForkCall, Goto, OnlyProg, CowInv, CowTypeOK, ProgOK, PlaceOK, Forking
<1> QED BY <1>1, <1>2, PlaceData DEF Giving

LEMMA HandlerUpcallData ==
  ASSUME MemInv, CowInv, DataInv, NEW e \in Env, HandlerUpcall(e)
  PROVE  DataInv' /\ Promise
<1>1. /\ Up(e) /\ fault[e] = NoVa /\ pc[e] = "upcall" /\ Goto(e, "exofork")
      /\ UNCHANGED <<mem, state, parent, child, at, pte, fault, fpc>>
  BY DEF HandlerUpcall, At, memVars, procVars
<1>2. OnlyProg(e) /\ pc'[e] = "exofork" /\ child[e] = NoEnv
  BY <1>1 DEF Goto, OnlyProg, CowInv, CowTypeOK, ProgOK, PlaceOK, Forking
<1> QED BY <1>1, <1>2, PlaceData DEF Giving

LEMMA ExoforkFailsData ==
  ASSUME MemInv, CowInv, DataInv, NEW e \in Env, ExoforkFails(e)
  PROVE  DataInv' /\ Promise
<1>1. Up(e) /\ pc[e] # "panic" /\ UserPanic(e)
  BY DEF ExoforkFails, Loops, At
<1>2. EntriesKept /\ KeptData /\ UNCHANGED <<state, parent>>
  BY DEF ExoforkFails, memVars, procVars, EntriesKept, KeptData
<1> QED BY <1>1, <1>2, PanicData

LEMMA SkipPageData ==
  ASSUME MemInv, CowInv, DataInv, NEW e \in Env, SkipPage(e)
  PROVE  DataInv' /\ Promise
<1>1. /\ Up(e) /\ fault[e] = NoVa /\ pc[e] \in {"page", "page0"} /\ NextPage(e, pc[e])
      /\ UNCHANGED <<mem, state, parent, child, fault, fpc>>
  BY DEF SkipPage, InLoop, At, memVars, procVars
<1>2. OnlyProg(e) /\ pc'[e] = pc[e] /\ at'[e] = at[e] + 1 /\ at[e] \in Nat
  BY <1>1 DEF NextPage, Goto, OnlyProg, CowInv, CowTypeOK
<1>3. \A i \in {2, 3} : Ahead(e, i)' => Ahead(e, i)
  BY <1>1, <1>2 DEF Ahead
<1> QED BY <1>1, <1>2, <1>3, PlaceData DEF Giving

LEMMA ReadPteData ==
  ASSUME MemInv, CowInv, DataInv, NEW e \in Env, ReadPte(e)
  PROVE  DataInv' /\ Promise
<1>1. /\ Up(e) /\ fault[e] = NoVa /\ pc[e] \in {"page", "page0"}
      /\ Goto(e, IF pc[e] = "page" THEN "dup" ELSE "dup0")
      /\ pte' = [pte EXCEPT ![e] = mem.perm[<<e, Here(e)>>]]
      /\ UNCHANGED <<mem, state, parent, child, at, fault, fpc>>
  BY DEF ReadPte, InLoop, At, memVars, procVars
<1>2. OnlyProg(e) /\ pc'[e] \in {"dup", "dup0"} /\ at'[e] = at[e]
  BY <1>1 DEF Goto, OnlyProg, CowInv, CowTypeOK
<1>3. \A i \in {2, 3} : Ahead(e, i)' => Ahead(e, i)
  BY <1>1, <1>2 DEF Ahead
<1> QED BY <1>1, <1>2, <1>3, PlaceData DEF Giving

LEMMA ChildUpcallData ==
  ASSUME MemInv, CowInv, DataInv, NEW e \in Env, ChildUpcall(e)
  PROVE  DataInv' /\ Promise
<1>1. PICK c : c = child[e]
  OBVIOUS
<1>2. /\ Up(e) /\ fault[e] = NoVa /\ pc[e] = "childcall" /\ pc[e] # "panic"
      /\ Goto(e, "start") /\ UNCHANGED <<at, pte, fault, fpc>>
      /\ \/ UNCHANGED <<memVars, child>>
         \/ Free(c) /\ child' = [child EXCEPT ![e] = NoEnv]
  BY <1>1 DEF ChildUpcall, At
<1>3. /\ c \in Env /\ c # e /\ state[c] = "EMBRYO" /\ state[e] = "UP"
  <2>1. c \in Env
    BY <1>1, <1>2, AtWork DEF Forking
  <2>2. state[c] = "EMBRYO" /\ c # e
    BY <1>1, <1>2, <2>1, KidCalm
  <2> QED BY <1>2, <2>1, <2>2 DEF Up
<1>4. OnlyProg(e) /\ pc'[e] = "start"
  BY <1>2 DEF Goto, OnlyProg, CowInv, CowTypeOK
<1>5. CASE UNCHANGED <<memVars, child>>
  <2>1. UNCHANGED <<mem, state, parent>>
    BY <1>5 DEF memVars, procVars
  <2>2. \A i \in {2, 3} : Ahead(e, i)' => Ahead(e, i)
    BY <1>2, <1>4 DEF Ahead
  <2> QED BY <1>2, <1>4, <1>5, <2>1, <2>2, PlaceData DEF Giving
<1>6. CASE Free(c) /\ child' = [child EXCEPT ![e] = NoEnv]
  <2>1. /\ state'[c] = "FREE" /\ GotFreed(c)
        /\ \A f \in Env \ {c} : /\ state'[f] = state[f]
                                /\ parent[f] # c => parent'[f] = parent[f]
    BY <1>3, <1>6, FreeOthers
  <2>2. child'[e] = NoEnv /\ child'[c] = child[c]
    BY <1>3, <1>6 DEF CowInv, CowTypeOK
  <2>3. Elsewhere(e, c)
    BY <1>4, <2>1 DEF Elsewhere, OnlyProg, GotFreed
  <2>4. KeptData
    BY <1>6, FreeData
  <2>5. \A va \in Image : mem'.frame[<<e, va>>] = mem.frame[<<e, va>>]
    BY <1>3, <2>1, ImagePages DEF GotFreed
  <2> QED BY <1>1, <1>2, <1>3, <1>4, <2>1, <2>2, <2>3, <2>4, <2>5, EndStep DEF OnlyProg
<1> QED BY <1>2, <1>5, <1>6

LEMMA ExoforkData ==
  ASSUME MemInv, CowInv, DataInv, NEW e \in Env, NEW c \in Env, Exofork(e, c)
  PROVE  DataInv' /\ Promise
<1>0. CowTypeOK /\ PlaceOK(e)
  BY DEF CowInv, ProgOK
<1>1. /\ Up(e) /\ fault[e] = NoVa /\ pc[e] \in {"exofork", "exofork0"}
      /\ \E place \in {"page", "page0"} : Goto(e, place)
      /\ state[c] = "FREE" /\ mem.free # {} /\ mem' = EnvSetupVm(mem, c)
      /\ state' = [state EXCEPT ![c] = "EMBRYO"] /\ parent' = [parent EXCEPT ![c] = e]
      /\ child' = [child EXCEPT ![e] = c]
      /\ UNCHANGED <<at, pte, fault, fpc>>
  BY DEF Exofork, Loops, At, SysExofork
<1>2. state[e] = "UP" /\ c # e /\ pc[e] # "panic" /\ child[e] = NoEnv /\ Mine(e, c)
  BY <1>0, <1>1 DEF Up, PlaceOK, Forking, Mine
<1>3. EntriesKept /\ KeptData
  BY <1>1, SetupEntries, SetupData
<1>4. /\ state'[c] = "EMBRYO" /\ child'[e] = c /\ pc'[e] \in {"page", "page0"}
      /\ \A f \in Env \ {c} : state'[f] = state[f] /\ parent'[f] = parent[f]
      /\ OnlyProg(e)
  <2>1. /\ state \in [Env -> {"FREE", "LOADING", "EMBRYO", "UP", "BLOCKED"}]
        /\ parent \in [Env -> Env \cup {NoEnv}]
    BY DEF MemInv, ProcOK
  <2> QED BY <1>0, <1>1, <2>1 DEF Goto, OnlyProg, CowTypeOK
<1>5. Elsewhere(e, c)
  BY <1>3, <1>4 DEF Elsewhere, OnlyProg, EntriesKept
<1>6. \A va \in Va : mem'.frame[<<c, va>>] = NoPage
  BY <1>1, <1>3, FreeEmpty DEF EntriesKept
<1>7. /\ pc'[c] = "user" /\ child'[c] = NoEnv /\ fault'[c] = NoVa
  BY <1>1, <1>2, <1>4 DEF OnlyProg, CowInv, ProgOK, PlaceOK, Forking
<1>8. DataInv'
  <2>1. DataOK(e)'
    BY <1>1, <1>2, <1>4, <1>6, Layout DEF DataOK
  <2>2. DataOK(c)'
    BY <1>4, <1>7, CalmData
  <2>3. \A f \in Env \ {e, c} : DataOK(f)'
    BY <1>2, <1>3, <1>5, FarData, KeptForAll
  <2> QED BY <2>1, <2>2, <2>3 DEF DataInv
<1>9. SUFFICES ASSUME Views, Views' PROVE P!Next
  BY <1>8 DEF Promise
<1>10. \A f \in Env \ {e, c} : Same(f)
  BY <1>2, <1>3, <1>4, <1>5, <1>7, <1>9, FarSame, KeptForAll
<1>11. Same(e)
  <2>1. \A va \in Image : mem'.frame[<<e, va>>] = mem.frame[<<e, va>>]
    BY <1>3, ImagePages DEF EntriesKept
  <2> QED BY <1>2, <1>3, <1>4, <1>9, <2>1, UpSame, KeptContent, KeptForAll
<1>12. Stage(e) = "running"
  BY <1>2, <1>9 DEF Views, UpView
<1>13. Stage(c) = "none" /\ \A va \in Image : Seen(c, va) = NoVa
  BY <1>1, <1>9 DEF Views, NoneView
<1>14. /\ Stage(c)' = "made" /\ Maker(c)' = e
       /\ \A va \in Image : Seen(c, va)' = NoVa
  <2>1. KidView(e)'
    BY <1>9 DEF Views
  <2>2. \A va \in Image : Hidden(e, va)'
    BY <1>4, <1>6, ImagePages DEF Hidden
  <2> QED BY <1>4, <2>1, <2>2, Layout DEF KidView
<1> QED BY <1>10, <1>11, <1>12, <1>13, <1>14, MakeView

\* The child begins with a copy of every page.
LEMMA StartData ==
  ASSUME MemInv, CowInv, DataInv, NEW e \in Env, Start(e)
  PROVE  DataInv' /\ Promise
<1>0. CowTypeOK /\ PlaceOK(e) /\ LoopOK(e) /\ MappedOK(e)
  BY DEF CowInv, ProgOK
<1>1. PICK c : c = child[e]
  OBVIOUS
<1>2. Up(e) /\ fault[e] = NoVa /\ pc[e] \in {"start", "page0"} /\ pc[e] # "panic" /\ at[e] = 5
  BY <1>0, Layout DEF Start, At, Done, CowTypeOK, LoopOK
<1>3. EntriesKept /\ KeptData
  BY DEF Start, SysEnvStart, memVars, EntriesKept, KeptData
<1>4. CASE c = NoEnv
  <2>1. UserPanic(e) /\ UNCHANGED <<state, parent>>
    BY <1>1, <1>4 DEF Start, memVars, procVars
  <2> QED BY <1>2, <1>3, <2>1, PanicData
<1>5. CASE c # NoEnv
  <2>1. /\ state' = [state EXCEPT ![c] = "UP"] /\ UNCHANGED parent
        /\ pc' = [pc EXCEPT ![e] = "user", ![c] = "user"] /\ Leave(e)
    BY <1>1, <1>5 DEF Start, SysEnvStart
  <2>2. /\ c \in Env /\ c # e /\ Mine(e, c) /\ state[e] = "UP"
        /\ child[c] = NoEnv /\ fault[c] = NoVa
    BY <1>1, <1>2, <1>5, RunsMine, KidCalm
  <2>3. /\ pc'[e] = "user" /\ child'[e] = NoEnv /\ fault'[e] = NoVa /\ pc'[c] = "user"
        /\ \A f \in Env \ {e} : child'[f] = child[f] /\ at'[f] = at[f] /\ pte'[f] = pte[f]
                                /\ fault'[f] = fault[f] /\ fpc'[f] = fpc[f]
        /\ \A f \in Env \ {e, c} : pc'[f] = pc[f]
    BY <1>0, <2>1, <2>2 DEF Leave, CowTypeOK
  <2>4. state'[c] = "UP" /\ \A f \in Env \ {c} : state'[f] = state[f]
    BY <2>1, <2>2 DEF MemInv, ProcOK
  <2>5. Elsewhere(e, c)
    BY <1>3, <2>1, <2>3, <2>4 DEF Elsewhere, EntriesKept
  <2>6. DataInv'
    <3>1. DataOK(e)' /\ DataOK(c)'
      BY <2>2, <2>3, <2>4, CalmData
    <3>2. \A f \in Env \ {e, c} : DataOK(f)'
      BY <1>3, <2>2, <2>5, FarData, KeptForAll
    <3> QED BY <3>1, <3>2 DEF DataInv
  <2>7. SUFFICES ASSUME Views, Views' PROVE P!Next
    BY <2>6 DEF Promise
  <2>8. \A f \in Env \ {e, c} : Same(f)
    BY <1>3, <2>2, <2>3, <2>5, <2>7, FarSame, KeptForAll
  <2>9. \A f \in Env, va \in Image : mem'.frame[<<f, va>>] = mem.frame[<<f, va>>]
    BY <1>3, ImagePages DEF EntriesKept
  <2>10. Same(e)
    BY <1>3, <2>2, <2>4, <2>7, <2>9, UpSame, KeptContent, KeptForAll
  <2>11. \A va \in Image : mem.frame[<<c, va>>] # NoPage
    BY <1>0, <1>1, <1>2, <1>5, ImagePages, Layout DEF MappedOK
  <2>12. /\ Stage(c) = "made"
         /\ \A va \in Image : Seen(c, va) = Content(c, va)
    <3>1. \A va \in Image : ~Hidden(e, va)
      BY <1>1, <1>2, <2>11 DEF Hidden, Giving
    <3> QED BY <1>1, <1>5, <2>7, <3>1 DEF Views, KidView
  <2>13. \A va \in Image : Content(c, va) # NoVa
    BY <2>2, <2>11, EntryPage, ImagePages DEF Content
  <2>14. /\ Stage(c)' = "running" /\ Maker(c)' = NoEnv
         /\ \A va \in Image : Seen(c, va)' = Content(c, va)'
    BY <2>2, <2>4, <2>7 DEF Views, UpView
  <2>15. \A va \in Image : Content(c, va)' = Content(c, va)
    BY <1>3, <2>2, <2>9, <2>11, ImagePages DEF Content, KeptData
  <2> QED BY <2>2, <2>8, <2>10, <2>12, <2>13, <2>14, <2>15, StartView
<1> QED BY <1>4, <1>5

-----------------------------------------------------------------------------
(* The steps that write to a page.                                          *)

\* A page that e writes is nobody else's, but for the one it gives its child.
Lent(e, va, f, vb) ==
  \/ /\ f = child[e] /\ vb = Here(e)
     /\ \/ pc[e] = "own" /\ va = Here(e)
        \/ pc[e] \in {"copy", "unmap"} /\ va = "tmp"
  \/ f = e /\ fault[e] # NoVa /\ fpc[e] = "unmap"

LEMMA WriteAlone ==
  ASSUME CowInv, NEW e \in Env, Up(e), pc[e] # "panic",
         NEW va \in Va, "W" \in mem.perm[<<e, va>>],
         NEW f \in Env, NEW vb \in Va, Shared(e, va, f, vb)
  PROVE  Lent(e, va, f, vb)
<1>1. Explained(e, va, f, vb)
  BY DEF CowInv, SharingOK
<1>2. ~Plain(e, va, f, vb)
  BY DEF Plain
<1>3. state[e] # "EMBRYO"
  BY DEF Up
<1>4. child[f] # e
  BY <1>3, MakersAre
<1> QED BY <1>1, <1>2, <1>3, <1>4 DEF Explained, Making, Lent

LEMMA WriteFields ==
  ASSUME MemInv, NEW e \in Env, NEW va \in Va, NEW v, Write(e, va, v)
  PROVE  /\ EntriesKept /\ UNCHANGED <<state, parent>>
         /\ mem.frame[<<e, va>>] # NoPage /\ "W" \in mem.perm[<<e, va>>]
         /\ mem'.data[mem.frame[<<e, va>>]] = v
         /\ \A q \in Page : q # mem.frame[<<e, va>>] => mem'.data[q] = mem.data[q]
<1>1. EntriesKept
  BY WriteEntries
<1>2. mem.frame[<<e, va>>] # NoPage /\ "W" \in mem.perm[<<e, va>>] /\ UNCHANGED <<state, parent>>
  BY DEF Write, procVars
<1>3. mem.frame[<<e, va>>] \in Page
  BY <1>2, EntryPage
<1>4. mem.data \in [Page -> Value] /\ DOMAIN mem = {"free", "ref", "frame", "perm", "data"}
  BY DEF MemInv, Good, MemType
<1>5. mem'.data = [mem.data EXCEPT ![mem.frame[<<e, va>>]] = v]
  BY <1>4 DEF Write
<1> QED BY <1>1, <1>2, <1>3, <1>4, <1>5

\* What a write of e leaves.
LEMMA WriteLocal ==
  ASSUME MemInv, CowInv, NEW e \in Env, Up(e), pc[e] # "panic", NEW va \in Va, NEW v,
         Write(e, va, v), OnlyProg(e), UNCHANGED child,
         fault[e] = NoVa \/ fpc[e] # "unmap"
  PROVE  /\ Local(e) /\ \A f \in Env \ {e, child[e]} : KeptFor(f)
         /\ Content(e, va)' = v
         /\ \A vb \in Va \ {va} : mem.frame[<<e, vb>>] # NoPage =>
              /\ Content(e, vb)' = Content(e, vb)
         /\ child[e] \in Env => \A vb \in Va :
              /\ mem'.frame[<<child[e], vb>>] = mem.frame[<<child[e], vb>>]
              /\ \/ mem.frame[<<child[e], vb>>] # NoPage =>
                      mem'.data[mem.frame[<<child[e], vb>>]] = mem.data[mem.frame[<<child[e], vb>>]]
                 \/ vb = Here(e) /\ pc[e] = "own" /\ va = Here(e)
                 \/ vb = Here(e) /\ pc[e] \in {"copy", "unmap"} /\ va = "tmp"
<1>1. /\ EntriesKept /\ UNCHANGED <<state, parent>>
      /\ mem.frame[<<e, va>>] # NoPage /\ "W" \in mem.perm[<<e, va>>]
      /\ mem'.data[mem.frame[<<e, va>>]] = v
      /\ \A q \in Page : q # mem.frame[<<e, va>>] => mem'.data[q] = mem.data[q]
  BY WriteFields
<1>2. ASSUME NEW f \in Env, NEW vb \in Va, mem.frame[<<f, vb>>] # NoPage
      PROVE  \/ mem'.data[mem.frame[<<f, vb>>]] = mem.data[mem.frame[<<f, vb>>]]
             \/ f = e /\ vb = va
             \/ /\ f = child[e] /\ vb = Here(e)
                /\ \/ pc[e] = "own" /\ va = Here(e)
                   \/ pc[e] \in {"copy", "unmap"} /\ va = "tmp"
  <2>1. CASE mem.frame[<<f, vb>>] # mem.frame[<<e, va>>]
    BY <1>1, <1>2, <2>1, EntryPage
  <2>2. CASE mem.frame[<<f, vb>>] = mem.frame[<<e, va>>]
    <3>1. CASE f # e \/ vb # va
      <4>1. Shared(e, va, f, vb)
        BY <1>1, <2>2, <3>1 DEF Shared
      <4>2. Lent(e, va, f, vb)
        BY <1>1, <4>1, WriteAlone
      <4> QED BY <4>2 DEF Lent
    <3> QED BY <3>1
  <2> QED BY <2>1, <2>2
<1>3. \A f \in Env \ {e, child[e]} : KeptFor(f)
  BY <1>2 DEF KeptFor
<1>4. Local(e)
  BY <1>1 DEF Local, EntriesKept
<1>5. Content(e, va)' = v
  BY <1>1 DEF Content, EntriesKept
<1>6. e # child[e]
  BY RunsMine, Layout
<1>7. \A vb \in Va \ {va} : mem.frame[<<e, vb>>] # NoPage => Content(e, vb)' = Content(e, vb)
  BY <1>1, <1>2, <1>6 DEF Content, EntriesKept
<1>8. child[e] \in Env => \A vb \in Va :
        mem'.frame[<<child[e], vb>>] = mem.frame[<<child[e], vb>>]
  BY <1>1 DEF EntriesKept
<1> QED BY <1>2, <1>3, <1>4, <1>5, <1>6, <1>7, <1>8

\* What e writes is seen by e alone: its child does not see yet the page they share.
LEMMA UserWriteData ==
  ASSUME MemInv, CowInv, DataInv, NEW e \in Env, NEW va \in Va, NEW v \in Value,
         UserWrite(e, va, v)
  PROVE  DataInv' /\ Promise
<1>1. /\ Up(e) /\ fault[e] = NoVa /\ pc[e] # "panic" /\ Write(e, va, v) /\ va \in {"text", "stack"}
      /\ UNCHANGED <<pc, child, at, pte, fault, fpc>> /\ OnlyProg(e)
  BY DEF UserWrite, Writes, progVars, OnlyProg
<1>2. /\ Local(e) /\ \A f \in Env \ {e, child[e]} : KeptFor(f)
      /\ Content(e, va)' = v
      /\ \A vb \in Va \ {va} : mem.frame[<<e, vb>>] # NoPage =>
           Content(e, vb)' = Content(e, vb)
      /\ child[e] \in Env => \A vb \in Va :
           /\ mem'.frame[<<child[e], vb>>] = mem.frame[<<child[e], vb>>]
           /\ \/ mem.frame[<<child[e], vb>>] # NoPage =>
                   mem'.data[mem.frame[<<child[e], vb>>]] = mem.data[mem.frame[<<child[e], vb>>]]
              \/ vb = Here(e) /\ pc[e] = "own"
  BY <1>1, WriteLocal
<1>3. Here(e)' = Here(e) /\ \A i : Ahead(e, i)' <=> Ahead(e, i)
  BY <1>1 DEF Here, Ahead
<1>4. EntriesKept
  BY <1>1, WriteEntries
<1>5. DataOK(e)'
  <2>1. DataOK(e) /\ child[e] \in Env \cup {NoEnv} /\ \A i \in 1 .. 4 : Order[i] \in Va
    BY Layout DEF DataInv, CowInv, CowTypeOK
  <2>2. pc[e] \in {"own", "copy"} => Here(e) \in Va /\ child[e] # NoEnv
    BY AtPage DEF Copying, CowInv, ProgOK, PlaceOK, Forking
  <2>3. /\ pc[e] = "own" => mem'.frame[<<e, Here(e)>>] = mem'.frame[<<child[e], Here(e)>>]
        /\ pc[e] = "copy" => mem'.frame[<<e, "tmp">>] = mem'.frame[<<child[e], Here(e)>>]
    BY <1>4, <2>1, <2>2, Layout DEF DataOK, EntriesKept
  <2>4. child[e] # NoEnv =>
          \A i \in {2, 3} : Ahead(e, i) => mem'.frame[<<child[e], Order[i]>>] = NoPage
    BY <1>4, <2>1 DEF DataOK, EntriesKept
  <2> QED BY <1>1, <1>2, <1>3, <2>1, <2>3, <2>4 DEF DataOK, Local
<1>6. DataInv' /\ (Views /\ Views' => \A f \in Env \ {e, child[e]} : Same(f))
  BY <1>2, <1>5, LocalFar
<1>7. SUFFICES ASSUME Views, Views' PROVE P!Next
  BY <1>6 DEF Promise
<1>8. va \in Image /\ state[e] = "UP" /\ state'[e] = "UP"
  BY <1>1, <1>2, ImagePages DEF Up, Local
<1>9. UpView(e) /\ UpView(e)'
  BY <1>7 DEF Views
<1>10. \A w \in Image \ {va} : Content(e, w)' = Content(e, w)
  <2>1. \A w \in Image : mem.frame[<<e, w>>] # NoPage
    BY <1>8, ImagePages DEF CowInv, ProgOK, MappedOK
  <2> QED BY <1>2, <2>1, ImagePages
<1>11. child[e] \in Env => Same(child[e])
  <2>1. child[e] \in Env => \A w \in Image : KidKept(e, w)
    BY <1>1, <1>2, <1>3, ImagePages DEF KidKept, Hidden, Giving
  <2> QED BY <1>1, <1>7, <2>1, KidSame
<1>12. \A f \in Env \ {e} : Same(f)
  BY <1>6, <1>7, <1>11
<1> QED BY <1>2, <1>8, <1>9, <1>10, <1>12, WriteView DEF UpView

\* The child of e gets page k, a copy of what e has there, and nobody else changes.
LEMMA KidGets ==
  ASSUME MemInv, CowInv, DataInv, NEW e \in Env, Local(e), DataOK(e)',
         \A f \in Env \ {e, child[e]} : KeptFor(f),
         \A va \in Image : Content(e, va)' = Content(e, va),
         NEW c \in Env, c = child[e], NEW k \in Va,
         \A va \in Image \ {k} : KidKept(e, va),
         k \in Image => Hidden(e, k) /\ ~Hidden(e, k)' /\ Content(c, k)' = Content(e, k)
  PROVE  DataInv' /\ Promise
<1>1. CASE k \notin Image
  <2>1. \A va \in Image : KidKept(e, va)
    BY <1>1
  <2> QED BY <2>1, LocalStutter
<1>2. CASE k \in Image
  <2>1. DataInv' /\ (Views /\ Views' => \A f \in Env \ {e, child[e]} : Same(f))
    BY LocalFar
  <2>2. SUFFICES ASSUME Views, Views' PROVE P!Next
    BY <2>1 DEF Promise
  <2>3. Same(e)
    BY <2>2, UpSame DEF Local, Up
  <2>4. child'[e] = child[e] /\ child[e] # NoEnv
    BY Layout DEF Local
  <2>5. Stage(c) = "made" /\ Maker(c) = e /\ Stage(c)' = Stage(c) /\ Maker(c)' = Maker(c)
    BY <2>2, <2>4, KidStage
  <2>6. \A w \in Image \ {k} : Seen(c, w)' = Seen(c, w)
    BY <2>2, <2>4, KidPage
  <2>7. KidView(e) /\ KidView(e)' /\ UpView(e)
    BY <2>2 DEF Views
  <2>8. Seen(c, k) = NoVa
    BY <1>2, <2>4, <2>7 DEF KidView
  <2>9. Seen(c, k)' = Content(c, k)'
    BY <1>2, <2>4, <2>7 DEF KidView
  <2>10. Seen(e, k) = Content(e, k)
    BY <1>2, <2>7 DEF UpView, Local, Up
  <2>11. Seen(c, k)' = Seen(Maker(c), k)
    BY <1>2, <2>5, <2>9, <2>10
  <2>12. \A f \in Env \ {c} : Same(f)
    BY <2>1, <2>2, <2>3
  <2> QED BY <1>2, <2>5, <2>6, <2>8, <2>11, <2>12, CopyView
<1> QED BY <1>1, <1>2

\* The image of a program that is UP is mapped.
LEMMA UpMapped ==
  ASSUME CowInv, NEW e \in Env, Up(e), NEW va \in Image
  PROVE  mem.frame[<<e, va>>] # NoPage /\ va \in Va /\ va # "tmp" /\ va # "xstk"
BY ImagePages DEF CowInv, ProgOK, MappedOK, Up

LEMMA PgfaultCopyData ==
  ASSUME MemInv, CowInv, DataInv, NEW e \in Env, PgfaultCopy(e)
  PROVE  DataInv' /\ Promise
<1>1. PICK k : k = fault[e]
  OBVIOUS
<1>2. PICK v : v = Content(e, k)
  OBVIOUS
<1>3. /\ InFault(e, "copy") /\ Write(e, "tmp", v)
      /\ fpc' = [fpc EXCEPT ![e] = "map"]
      /\ UNCHANGED <<pc, child, at, pte, fault>>
  BY <1>1, <1>2 DEF PgfaultCopy, Content
<1>4. /\ Up(e) /\ pc[e] # "panic" /\ k # NoVa /\ fpc[e] = "copy" /\ pc[e] \notin Copying
      /\ k \in {"text", "stack"} /\ k \in Va /\ mem.frame[<<e, k>>] # NoPage
  BY <1>1, <1>3, InsideFault
<1>5. OnlyProg(e) /\ fpc'[e] = "map" /\ pc[e] \notin {"own", "utemp", "copy", "unmap"}
  BY <1>3, <1>4 DEF OnlyProg, CowInv, CowTypeOK, Copying
<1>6. /\ Local(e) /\ \A f \in Env \ {e, child[e]} : KeptFor(f)
      /\ Content(e, "tmp")' = v
      /\ \A vb \in Va \ {"tmp"} : mem.frame[<<e, vb>>] # NoPage =>
           Content(e, vb)' = Content(e, vb)
      /\ child[e] \in Env => \A vb \in Va :
           /\ mem'.frame[<<child[e], vb>>] = mem.frame[<<child[e], vb>>]
           /\ mem.frame[<<child[e], vb>>] # NoPage =>
                mem'.data[mem.frame[<<child[e], vb>>]] = mem.data[mem.frame[<<child[e], vb>>]]
  BY <1>3, <1>4, <1>5, Layout, WriteLocal
<1>7. EntriesKept /\ mem.frame[<<e, "tmp">>] # NoPage
  BY <1>3, Layout, WriteEntries DEF Write
<1>8. DataOK(e)'
  <2>1. DataOK(e) /\ \A i \in 1 .. 4 : Order[i] \in Va
    BY Layout DEF DataInv
  <2>2. \A i : Ahead(e, i)' <=> Ahead(e, i)
    BY <1>3 DEF Ahead
  <2>3. child[e] \in Env \cup {NoEnv}
    BY DEF CowInv, CowTypeOK
  <2>4. child'[e] # NoEnv =>
          \A i \in {2, 3} : Ahead(e, i)' => mem'.frame[<<child'[e], Order[i]>>] = NoPage
    BY <1>3, <1>7, <2>1, <2>2, <2>3 DEF DataOK, EntriesKept
  <2>5. mem'.frame[<<e, "tmp">>] # NoPage
    BY <1>7, Layout DEF EntriesKept
  <2>6. mem'.data[mem'.frame[<<e, "tmp">>]] = mem'.data[mem'.frame[<<e, fault'[e]>>]]
    <3>1. k # "tmp" /\ fault'[e] = k
      BY <1>1, <1>3, <1>4
    <3>2. Content(e, k)' = v
      BY <1>2, <1>4, <1>6, <3>1
    <3> QED BY <1>6, <3>1, <3>2 DEF Content
  <2>7. pc'[e] \notin {"own", "copy"} /\ state'[e] # "BLOCKED"
    BY <1>3, <1>4, <1>5, <1>6 DEF Local, Up
  <2> QED BY <2>4, <2>5, <2>6, <2>7 DEF DataOK
<1>9. \A va \in Image : Content(e, va)' = Content(e, va)
  BY <1>4, <1>6, UpMapped
<1>10. child[e] # NoEnv => \A va \in Image : KidKept(e, va)
  <2>1. ~Giving(e) /\ ~Giving(e)'
    BY <1>3, <1>5 DEF Giving
  <2>2. child[e] \in Env \cup {NoEnv}
    BY DEF CowInv, CowTypeOK
  <2> QED BY <1>6, <2>1, <2>2, ImagePages DEF KidKept
<1> QED BY <1>6, <1>8, <1>9, <1>10, LocalStutter

\* The memmove() of fork_v0(): UTEMP is the child's page.
LEMMA CopyV0Data ==
  ASSUME MemInv, CowInv, DataInv, NEW e \in Env, CopyV0(e)
  PROVE  DataInv' /\ Promise
<1>1. PICK c : c = child[e]
  OBVIOUS
<1>2. PICK k : k = Here(e)
  OBVIOUS
<1>3. PICK v : v = Content(e, k)
  OBVIOUS
<1>4. /\ At(e, "copy") /\ Write(e, "tmp", v) /\ Goto(e, "unmap")
      /\ UNCHANGED <<child, at, pte, fault, fpc>>
  BY <1>2, <1>3 DEF CopyV0, Content
<1>5. /\ CowTypeOK /\ Up(e) /\ pc[e] = "copy" /\ pc[e] # "panic" /\ fault[e] = NoVa
      /\ c \in Env /\ c # e
      /\ k \in Va /\ k # "tmp" /\ at[e] \in 2 .. 4 /\ mem.frame[<<e, k>>] # NoPage
      /\ LoopOK(e)
  BY <1>1, <1>2, <1>4, LoopFacts DEF Copying
<1>6. OnlyProg(e) /\ pc'[e] = "unmap" /\ Here(e)' = k
  BY <1>2, <1>4, <1>5 DEF OnlyProg, CowTypeOK, Goto, Here
<1>7. /\ Local(e) /\ \A f \in Env \ {e, child[e]} : KeptFor(f)
      /\ \A vb \in Va \ {"tmp"} : mem.frame[<<e, vb>>] # NoPage =>
           Content(e, vb)' = Content(e, vb)
      /\ \A vb \in Va :
           /\ mem'.frame[<<c, vb>>] = mem.frame[<<c, vb>>]
           /\ \/ mem.frame[<<c, vb>>] # NoPage =>
                   mem'.data[mem.frame[<<c, vb>>]] = mem.data[mem.frame[<<c, vb>>]]
              \/ vb = k
  BY <1>1, <1>2, <1>4, <1>5, <1>6, Layout, WriteLocal
<1>8. EntriesKept /\ mem'.data[mem.frame[<<e, "tmp">>]] = v
  BY <1>4, Layout, WriteFields
<1>9. DataOK(e) /\ mem.frame[<<e, "tmp">>] = mem.frame[<<c, k>>] /\ mem.frame[<<c, k>>] # NoPage
  BY <1>1, <1>2, <1>5 DEF DataInv, DataOK, LoopOK, Copying
<1>10. DataOK(e)'
  <2>1. \A i : Ahead(e, i)' => Ahead(e, i)
    BY <1>4, <1>6 DEF Ahead
  <2>2. \A i \in {2, 3} : Ahead(e, i) => mem'.frame[<<c, Order[i]>>] = NoPage
    BY <1>1, <1>5, <1>7, <1>9, Layout DEF DataOK
  <2> QED BY <1>1, <1>4, <1>5, <1>6, <1>7, <2>1, <2>2 DEF DataOK, Local, Up
<1>11. \A va \in Image : Content(e, va)' = Content(e, va)
  BY <1>5, <1>7, UpMapped
<1>12. \A va \in Image \ {k} : KidKept(e, va)
  BY <1>1, <1>2, <1>6, <1>7, ImagePages DEF KidKept
<1>13. Hidden(e, k) /\ ~Hidden(e, k)'
  <2>1. mem'.frame[<<c, k>>] # NoPage
    BY <1>5, <1>7, <1>9
  <2> QED BY <1>1, <1>2, <1>4, <1>5, <1>6, <2>1 DEF Hidden, Giving
<1>14. Content(c, k)' = Content(e, k)
  BY <1>3, <1>5, <1>7, <1>8, <1>9 DEF Content
<1> QED BY <1>1, <1>5, <1>7, <1>10, <1>11, <1>12, <1>13, <1>14, KidGets

-----------------------------------------------------------------------------
(* The steps that allocate a page.                                          *)

\* One entry changes, and the pages that were mapped keep what they contain.
LEMMA EntryLocal ==
  ASSUME MemInv, CowInv, NEW e \in Env, Up(e), pc[e] # "panic",
         NEW t \in {e, child[e]}, NEW k \in Va, OthersKept(t, k), KeptData,
         OnlyProg(e), UNCHANGED <<state, parent, child>>
  PROVE  /\ Local(e) /\ \A f \in Env : KeptFor(f)
         /\ \A va \in Image : t # e \/ va # k => Content(e, va)' = Content(e, va)
<1>1. Local(e)
  BY DEF Local, OthersKept
<1>2. \A f \in Env : KeptFor(f)
  BY KeptForAll
<1>3. \A va \in Image : t # e \/ va # k => mem'.frame[<<e, va>>] = mem.frame[<<e, va>>]
  BY ImagePages DEF OthersKept
<1>4. \A va \in Image : t # e \/ va # k => Content(e, va)' = Content(e, va)
  BY <1>2, <1>3, KeptContent DEF Up
<1> QED BY <1>1, <1>2, <1>4

\* The child has not got the page at hand before the loops give it, nor the ones
\* after it.
LEMMA NotYet ==
  ASSUME CowInv, DataInv, NEW e \in Env, at[e] \in 2 .. 4, NEW c \in Env, c = child[e]
  PROVE  /\ pc[e] \in {"dup", "dup0"} /\ Here(e) \in Image => mem.frame[<<c, Here(e)>>] = NoPage
         /\ \A i \in {2, 3} : i > at[e] =>
              mem.frame[<<c, Order[i]>>] = NoPage /\ Order[i] \in Va /\ Order[i] # Here(e)
         /\ \A i \in {2, 3} : Order[i] \in Va
<1>1. DataOK(e) /\ c # NoEnv
  BY Layout DEF DataInv
<1>2. Here(e) \in Image => at[e] \in {2, 3}
  BY Layout, ImagePages DEF Here
<1>3. pc[e] \in {"dup", "dup0"} /\ Here(e) \in Image => mem.frame[<<c, Here(e)>>] = NoPage
  BY <1>1, <1>2 DEF DataOK, Ahead, Here
<1>4. ASSUME NEW i \in {2, 3}, i > at[e]
      PROVE  mem.frame[<<c, Order[i]>>] = NoPage /\ Order[i] # Here(e)
  <2>1. i = 3 /\ at[e] = 2
    BY <1>4
  <2> QED BY <1>1, <1>4, <2>1, Layout DEF DataOK, Ahead, Here
<1> QED BY <1>3, <1>4, Layout

LEMMA HandlerAllocData ==
  ASSUME MemInv, CowInv, DataInv, NEW e \in Env, HandlerAlloc(e)
  PROVE  DataInv' /\ Promise
<1>1. /\ Up(e) /\ fault[e] = NoVa /\ pc[e] = "xalloc" /\ pc[e] # "panic"
      /\ mem' = EnvPageAlloc(mem, e, "xstk", {"W"})
      /\ UNCHANGED <<state, parent, child, at, pte, fault, fpc>>
      /\ Goto(e, IF CanAlloc(mem, e, "xstk") THEN "upcall" ELSE "exofork")
  BY DEF HandlerAlloc, At, SysPageAlloc, procVars
<1>2. OnlyProg(e) /\ pc'[e] \in {"upcall", "exofork"} /\ child[e] = NoEnv
  BY <1>1 DEF Goto, OnlyProg, CowInv, CowTypeOK, ProgOK, PlaceOK, Forking
<1>3. OthersKept(e, "xstk") /\ KeptData
  BY <1>1, AllocEntries, AllocData, Layout DEF GotFresh, EntriesKept, OthersKept
<1>4. Local(e) /\ \A va \in Image : Content(e, va)' = Content(e, va)
  BY <1>1, <1>2, <1>3, EntryLocal, ImagePages, Layout
<1>5. DataOK(e)'
  BY <1>1, <1>2, CalmData DEF Up
<1> QED BY <1>2, <1>3, <1>4, <1>5, KeptForAll, LocalStutter

LEMMA PgfaultAllocData ==
  ASSUME MemInv, CowInv, DataInv, NEW e \in Env, PgfaultAlloc(e)
  PROVE  DataInv' /\ Promise
<1>1. /\ InFault(e, "alloc") /\ mem' = EnvPageAlloc(mem, e, "tmp", {"W"})
      /\ UNCHANGED <<state, parent>>
      /\ IF CanAlloc(mem, e, "tmp")
         THEN /\ fpc' = [fpc EXCEPT ![e] = "copy"]
              /\ UNCHANGED <<pc, child, at, pte, fault>>
         ELSE UserPanic(e)
  BY DEF PgfaultAlloc, SysPageAlloc, procVars
<1>2. Up(e) /\ pc[e] # "panic" /\ pc[e] \notin Copying
  BY <1>1, InsideFault
<1>3. KeptData
  BY <1>1, AllocData, Layout
<1>4. CASE ~CanAlloc(mem, e, "tmp")
  <2>1. EntriesKept
    BY <1>1, <1>4, AllocEntries, Layout
  <2> QED BY <1>1, <1>2, <1>3, <1>4, <2>1, PanicData
<1>5. CASE CanAlloc(mem, e, "tmp")
  <2>1. OthersKept(e, "tmp")
    BY <1>1, <1>5, AllocEntries, Layout DEF GotFresh
  <2>2. OnlyProg(e) /\ fpc'[e] = "copy" /\ UNCHANGED <<pc, child, at, pte, fault>>
    BY <1>1, <1>5 DEF OnlyProg, CowInv, CowTypeOK
  <2>3. Local(e) /\ \A va \in Image : Content(e, va)' = Content(e, va)
    BY <1>1, <1>2, <1>3, <2>1, <2>2, EntryLocal, ImagePages, Layout
  <2>4. pc[e] \notin {"own", "utemp", "copy"}
    BY <1>2 DEF Copying
  <2>5. child[e] # NoEnv => /\ child[e] \in Env
                            /\ \A va \in Va : mem'.frame[<<child[e], va>>] = mem.frame[<<child[e], va>>]
    BY <1>2, <2>1, RunsMine DEF OthersKept
  <2>6. DataOK(e)'
    <3>1. DataOK(e) /\ \A i \in {2, 3} : Order[i] \in Va
      BY Layout DEF DataInv
    <3>2. \A i : Ahead(e, i)' <=> Ahead(e, i)
      BY <2>2 DEF Ahead
    <3> QED BY <1>1, <1>2, <2>2, <2>4, <2>5, <3>1, <3>2 DEF DataOK, Up
  <2>7. child[e] # NoEnv => \A va \in Image : KidKept(e, va)
    BY <1>3, <2>2, <2>4, <2>5, ImagePages DEF KidKept, Giving, KeptData
  <2> QED BY <1>3, <2>3, <2>6, <2>7, KeptForAll, LocalStutter
<1> QED BY <1>4, <1>5

\* The page of fork_v0() is the child's before its contents are.
LEMMA AllocV0Data ==
  ASSUME MemInv, CowInv, DataInv, NEW e \in Env, AllocV0(e)
  PROVE  DataInv' /\ Promise
<1>1. PICK c : c = child[e]
  OBVIOUS
<1>2. PICK k : k = Here(e)
  OBVIOUS
<1>3. /\ At(e, "dup0") /\ mem' = EnvPageAlloc(mem, c, k, {"W"})
      /\ UNCHANGED <<state, parent>>
      /\ IF CanAlloc(mem, c, k)
         THEN Goto(e, "utemp") /\ UNCHANGED <<child, at, pte, fault, fpc>>
         ELSE UserPanic(e)
  BY <1>1, <1>2 DEF AllocV0, At, SysPageAlloc, procVars
<1>4. /\ CowTypeOK /\ Up(e) /\ pc[e] = "dup0" /\ pc[e] # "panic" /\ fault[e] = NoVa
      /\ c \in Env /\ c # e /\ k \in Va /\ at[e] \in 2 .. 4
  BY <1>1, <1>2, <1>3, LoopFacts DEF Copying
<1>5. KeptData
  BY <1>3, <1>4, AllocData, Layout
<1>6. CASE ~CanAlloc(mem, c, k)
  <2>1. EntriesKept
    BY <1>3, <1>4, <1>6, AllocEntries, Layout
  <2> QED BY <1>3, <1>4, <1>5, <1>6, <2>1, PanicData
<1>7. CASE CanAlloc(mem, c, k)
  <2>1. OthersKept(c, k)
    BY <1>3, <1>4, <1>7, AllocEntries, Layout DEF GotFresh
  <2>2. OnlyProg(e) /\ pc'[e] = "utemp" /\ UNCHANGED <<child, at, pte, fault, fpc>>
    BY <1>3, <1>4, <1>7 DEF OnlyProg, Goto, CowTypeOK
  <2>3. Local(e) /\ \A va \in Image : Content(e, va)' = Content(e, va)
    BY <1>1, <1>3, <1>4, <1>5, <2>1, <2>2, EntryLocal
  <2>4. /\ k \in Image => mem.frame[<<c, k>>] = NoPage
        /\ \A i \in {2, 3} : i > at[e] =>
             mem.frame[<<c, Order[i]>>] = NoPage /\ Order[i] \in Va /\ Order[i] # k
    BY <1>1, <1>2, <1>4, NotYet
  <2>5. DataOK(e)'
    <3>1. \A i : Ahead(e, i)' => i > at[e]
      BY <2>2 DEF Ahead
    <3>2. \A i \in {2, 3} : i > at[e] => mem'.frame[<<c, Order[i]>>] = NoPage
      BY <1>4, <2>1, <2>4 DEF OthersKept
    <3> QED BY <1>1, <1>3, <1>4, <2>2, <3>1, <3>2 DEF DataOK, Up
  <2>6. ASSUME NEW va \in Image PROVE KidKept(e, va)
    <3>1. Here(e)' = k /\ Giving(e)' /\ ~Giving(e)
      BY <1>2, <1>4, <2>2 DEF Here, Giving
    <3>2. CASE va = k
      BY <1>1, <2>2, <2>4, <2>6, <3>1, <3>2 DEF KidKept, Hidden
    <3>3. CASE va # k
      <4>1. va \in Va /\ mem'.frame[<<c, va>>] = mem.frame[<<c, va>>]
        BY <1>4, <2>1, <3>3, ImagePages DEF OthersKept
      <4> QED BY <1>1, <1>4, <1>5, <3>1, <3>3, <4>1 DEF KidKept, KeptData
    <3> QED BY <3>2, <3>3
  <2> QED BY <1>5, <2>3, <2>5, <2>6, KeptForAll, LocalStutter
<1> QED BY <1>6, <1>7

LEMMA ChildStackData ==
  ASSUME MemInv, CowInv, DataInv, NEW e \in Env, ChildStack(e)
  PROVE  DataInv' /\ Promise
<1>1. PICK c : c = child[e]
  OBVIOUS
<1>2. /\ Up(e) /\ fault[e] = NoVa /\ pc[e] = "page" /\ pc[e] # "panic" /\ at[e] = 5
      /\ mem' = EnvPageAlloc(mem, c, "xstk", {"W"})
      /\ UNCHANGED <<state, parent>>
      /\ IF CanAlloc(mem, c, "xstk")
         THEN Goto(e, "childcall") /\ UNCHANGED <<child, at, pte, fault, fpc>>
         ELSE UserPanic(e)
  BY <1>1, Layout DEF ChildStack, At, SysPageAlloc, procVars, Done, CowInv, CowTypeOK
<1>3. c \in Env /\ c # e
  BY <1>1, <1>2, AtWork DEF Forking
<1>4. KeptData
  BY <1>2, <1>3, AllocData, Layout
<1>5. CASE ~CanAlloc(mem, c, "xstk")
  <2>1. EntriesKept
    BY <1>2, <1>3, <1>5, AllocEntries, Layout
  <2> QED BY <1>2, <1>4, <1>5, <2>1, PanicData
<1>6. CASE CanAlloc(mem, c, "xstk")
  <2>1. OthersKept(c, "xstk")
    BY <1>2, <1>3, <1>6, AllocEntries, Layout DEF GotFresh
  <2>2. OnlyProg(e) /\ pc'[e] = "childcall" /\ UNCHANGED <<child, at, pte, fault, fpc>>
    BY <1>2, <1>6 DEF OnlyProg, Goto, CowInv, CowTypeOK
  <2>3. Local(e) /\ \A va \in Image : Content(e, va)' = Content(e, va)
    BY <1>1, <1>2, <1>3, <1>4, <2>1, <2>2, EntryLocal, Layout
  <2>4. DataOK(e)'
    <3>1. \A i \in {2, 3} : ~Ahead(e, i)'
      BY <1>2, <2>2 DEF Ahead
    <3> QED BY <1>2, <2>2, <3>1 DEF DataOK, Up
  <2>5. ASSUME NEW va \in Image PROVE KidKept(e, va)
    <3>1. va \in Va /\ mem'.frame[<<c, va>>] = mem.frame[<<c, va>>]
      BY <1>3, <2>1, ImagePages DEF OthersKept
    <3>2. ~Giving(e) /\ ~Giving(e)'
      BY <1>2, <2>2 DEF Giving
    <3> QED BY <1>1, <1>3, <1>4, <3>1, <3>2 DEF KidKept, KeptData
  <2> QED BY <1>4, <2>3, <2>4, <2>5, KeptForAll, LocalStutter
<1> QED BY <1>5, <1>6

-----------------------------------------------------------------------------
(* The steps that map a page a second time, or unmap one.                   *)

\* What a call of the loops does, when the kernel maps the page.
Mapping(e, s, i, d, k, perm, place) ==
  /\ GotMapped(s, i, d, k, perm) /\ KeptData /\ OnlyProg(e) /\ pc'[e] = place
  /\ UNCHANGED <<state, parent, child, fault, fpc>>
  /\ at'[e] = IF place \in {"page", "page0"} THEN at[e] + 1 ELSE at[e]

LEMMA MapStepData ==
  ASSUME MemInv, CowInv, DataInv, NEW e \in Env, Up(e),
         pc[e] \in {"dup", "own", "dup0", "utemp"},
         NEW s \in Env, NEW d \in Env, NEW i \in Va, NEW k \in Va, NEW perm \in SUBSET Bits,
         NEW place, MapStep(e, s, i, d, k, perm, place)
  PROVE  (DataInv' /\ Promise) \/ Mapping(e, s, i, d, k, perm, place)
<1>1. mem' = EnvPageMap(mem, s, i, d, k, perm) /\ UNCHANGED <<state, parent>>
  BY DEF MapStep, SysPageMap, procVars
<1>2. KeptData
  BY <1>1, MapData
<1>3. CASE MayMap(mem, s, i, d, k, perm)
  <2>1. /\ GotMapped(s, i, d, k, perm) /\ OnlyProg(e) /\ pc'[e] = place
        /\ UNCHANGED <<state, parent, child, fault, fpc>>
        /\ IF place \in {"page", "page0"} THEN at'[e] = at[e] + 1
           ELSE UNCHANGED <<at, pte>>
    BY <1>3, MapStepDone DEF CowInv
  <2> QED BY <1>2, <2>1 DEF Mapping
<1>4. CASE ~MayMap(mem, s, i, d, k, perm)
  <2>1. EntriesKept
    BY <1>1, <1>4, MapEntries
  <2>2. UserPanic(e) /\ pc[e] # "panic"
    BY <1>4 DEF MapStep
  <2> QED BY <1>1, <1>2, <2>1, <2>2, PanicData
<1> QED BY <1>3, <1>4

\* The page at hand becomes the child's, and the loop goes on.
LEMMA ShareData ==
  ASSUME MemInv, CowInv, DataInv, NEW e \in Env, NEW from \in {"dup", "dup0"}, At(e, from),
         NEW place \in {"page", "page0"},
         MapStep(e, e, Here(e), child[e], Here(e), {}, place)
  PROVE  DataInv' /\ Promise
<1>0. from \in Copying
  BY DEF Copying
<1>1. PICK c : c = child[e]
  OBVIOUS
<1>2. PICK k : k = Here(e)
  OBVIOUS
<1>3. /\ CowTypeOK /\ Up(e) /\ pc[e] = from /\ pc[e] # "panic" /\ fault[e] = NoVa
      /\ c \in Env /\ c # e /\ k \in Va /\ at[e] \in 2 .. 4 /\ mem.frame[<<e, k>>] # NoPage
  BY <1>0, <1>1, <1>2, LoopFacts
<1>4. SUFFICES ASSUME Mapping(e, e, k, c, k, {}, place) PROVE DataInv' /\ Promise
  BY <1>1, <1>2, <1>3, Layout, MapStepData
<1>5. /\ OthersKept(c, k) /\ mem'.frame[<<c, k>>] = mem.frame[<<e, k>>]
      /\ KeptData /\ OnlyProg(e) /\ pc'[e] = place /\ at'[e] = at[e] + 1
      /\ UNCHANGED <<state, parent, child, fault, fpc>>
  BY <1>4 DEF Mapping, GotMapped
<1>6. Local(e) /\ \A va \in Image : Content(e, va)' = Content(e, va)
  BY <1>1, <1>3, <1>5, EntryLocal
<1>7. /\ k \in Image => mem.frame[<<c, k>>] = NoPage
      /\ \A i \in {2, 3} : i > at[e] =>
           mem.frame[<<c, Order[i]>>] = NoPage /\ Order[i] \in Va /\ Order[i] # k
  BY <1>1, <1>2, <1>3, NotYet
<1>8. DataOK(e)'
  <2>1. \A i : i \in {2, 3} /\ Ahead(e, i)' => i > at[e]
    BY <1>3, <1>5 DEF Ahead
  <2>2. \A i \in {2, 3} : i > at[e] => mem'.frame[<<c, Order[i]>>] = NoPage
    BY <1>3, <1>5, <1>7 DEF OthersKept
  <2> QED BY <1>1, <1>3, <1>5, <2>1, <2>2 DEF DataOK, Up
<1>9. ~Giving(e) /\ ~Giving(e)'
  BY <1>3, <1>5 DEF Giving
<1>10. ASSUME NEW va \in Image \ {k} PROVE KidKept(e, va)
  <2>1. va \in Va /\ mem'.frame[<<c, va>>] = mem.frame[<<c, va>>]
    BY <1>3, <1>5, ImagePages DEF OthersKept
  <2> QED BY <1>1, <1>3, <1>5, <1>9, <2>1 DEF KidKept, KeptData
<1>11. k \in Image => Hidden(e, k) /\ ~Hidden(e, k)'
  BY <1>1, <1>3, <1>5, <1>7, <1>9 DEF Hidden
<1>12. Content(c, k)' = Content(e, k)
  BY <1>3, <1>5 DEF Content, KeptData
<1> QED BY <1>1, <1>3, <1>5, <1>6, <1>8, <1>10, <1>11, <1>12, KeptForAll, KidGets

\* The first call of duppage() for a page that is written: the child has it, and
\* the parent may still write to it.
LEMMA GiveData ==
  ASSUME MemInv, CowInv, DataInv, NEW e \in Env, At(e, "dup"),
         MapStep(e, e, Here(e), child[e], Here(e), {"COW"}, "own")
  PROVE  DataInv' /\ Promise
<1>1. PICK c : c = child[e]
  OBVIOUS
<1>2. PICK k : k = Here(e)
  OBVIOUS
<1>3. /\ CowTypeOK /\ Up(e) /\ pc[e] = "dup" /\ pc[e] # "panic" /\ fault[e] = NoVa
      /\ c \in Env /\ c # e /\ k \in Va /\ at[e] \in 2 .. 4 /\ mem.frame[<<e, k>>] # NoPage
  BY <1>1, <1>2, LoopFacts DEF Copying
<1>4. SUFFICES ASSUME Mapping(e, e, k, c, k, {"COW"}, "own") PROVE DataInv' /\ Promise
  BY <1>1, <1>2, <1>3, Layout, MapStepData
<1>5. /\ OthersKept(c, k) /\ mem'.frame[<<c, k>>] = mem.frame[<<e, k>>]
      /\ KeptData /\ OnlyProg(e) /\ pc'[e] = "own" /\ at'[e] = at[e]
      /\ UNCHANGED <<state, parent, child, fault, fpc>>
  <2>1. "own" \notin {"page", "page0"}
    OBVIOUS
  <2> QED BY <1>4, <2>1 DEF Mapping, GotMapped
<1>6. Local(e) /\ \A va \in Image : Content(e, va)' = Content(e, va)
  BY <1>1, <1>3, <1>5, EntryLocal
<1>7. /\ k \in Image => mem.frame[<<c, k>>] = NoPage
      /\ \A i \in {2, 3} : i > at[e] =>
           mem.frame[<<c, Order[i]>>] = NoPage /\ Order[i] \in Va /\ Order[i] # k
  BY <1>1, <1>2, <1>3, NotYet
<1>8. Here(e)' = k /\ Giving(e)' /\ ~Giving(e)
  BY <1>2, <1>3, <1>5 DEF Here, Giving
<1>9. DataOK(e)'
  <2>1. \A i : Ahead(e, i)' => i > at[e]
    BY <1>5 DEF Ahead
  <2>2. \A i \in {2, 3} : i > at[e] => mem'.frame[<<c, Order[i]>>] = NoPage
    BY <1>3, <1>5, <1>7 DEF OthersKept
  <2>3. mem'.frame[<<e, k>>] = mem'.frame[<<c, k>>]
    BY <1>3, <1>5 DEF OthersKept
  <2> QED BY <1>1, <1>3, <1>5, <1>8, <2>1, <2>2, <2>3 DEF DataOK, Up
<1>10. ASSUME NEW va \in Image PROVE KidKept(e, va)
  <2>1. CASE va = k
    BY <1>1, <1>7, <1>8, <2>1 DEF KidKept, Hidden
  <2>2. CASE va # k
    <3>1. va \in Va /\ mem'.frame[<<c, va>>] = mem.frame[<<c, va>>]
      BY <1>3, <1>5, <2>2, ImagePages DEF OthersKept
    <3> QED BY <1>1, <1>3, <1>5, <1>8, <2>2, <3>1 DEF KidKept, KeptData
  <2> QED BY <2>1, <2>2
<1> QED BY <1>5, <1>6, <1>9, <1>10, KeptForAll, LocalStutter

LEMMA DupChildData ==
  ASSUME MemInv, CowInv, DataInv, NEW e \in Env, DupChild(e)
  PROVE  DataInv' /\ Promise
<1>1. At(e, "dup") /\ Into(e) = child[e]
  BY DEF DupChild, At, Into
<1>2. CASE pte[e] \cap {"W", "COW"} # {}
  BY <1>1, <1>2, GiveData DEF DupChild
<1>3. CASE pte[e] \cap {"W", "COW"} = {}
  BY <1>1, <1>3, ShareData DEF DupChild
<1> QED BY <1>2, <1>3

LEMMA ShareV0Data ==
  ASSUME MemInv, CowInv, DataInv, NEW e \in Env, ShareV0(e)
  PROVE  DataInv' /\ Promise
BY ShareData DEF ShareV0

\* The second call of duppage(): from now on the page is the child's.
LEMMA DupOwnData ==
  ASSUME MemInv, CowInv, DataInv, NEW e \in Env, DupOwn(e)
  PROVE  DataInv' /\ Promise
<1>1. PICK c : c = child[e]
  OBVIOUS
<1>2. PICK k : k = Here(e)
  OBVIOUS
<1>3. At(e, "own") /\ MapStep(e, e, k, e, k, {"COW"}, "page")
  BY <1>2 DEF DupOwn, At, Into
<1>4. /\ CowTypeOK /\ Up(e) /\ pc[e] = "own" /\ pc[e] # "panic" /\ fault[e] = NoVa
      /\ c \in Env /\ c # e /\ k \in Va /\ at[e] \in 2 .. 4 /\ mem.frame[<<e, k>>] # NoPage
      /\ LoopOK(e)
  BY <1>1, <1>2, <1>3, LoopFacts DEF Copying
<1>5. SUFFICES ASSUME Mapping(e, e, k, e, k, {"COW"}, "page") PROVE DataInv' /\ Promise
  BY <1>3, <1>4, Layout, MapStepData
<1>6. /\ OthersKept(e, k) /\ mem'.frame[<<e, k>>] = mem.frame[<<e, k>>]
      /\ KeptData /\ OnlyProg(e) /\ pc'[e] = "page" /\ at'[e] = at[e] + 1
      /\ UNCHANGED <<state, parent, child, fault, fpc>>
  BY <1>5 DEF Mapping, GotMapped
<1>7. Local(e)
  BY <1>1, <1>4, <1>6, EntryLocal
<1>8. \A va \in Va : mem'.frame[<<e, va>>] = mem.frame[<<e, va>>]
  BY <1>4, <1>6 DEF OthersKept
<1>9. \A va \in Image : Content(e, va)' = Content(e, va)
  BY <1>4, <1>6, <1>8, ImagePages, KeptContent, KeptForAll DEF Up
<1>10. \A va \in Va : mem'.frame[<<c, va>>] = mem.frame[<<c, va>>]
  BY <1>4, <1>6 DEF OthersKept
<1>11. DataOK(e) /\ mem.frame[<<e, k>>] = mem.frame[<<c, k>>]
  BY <1>1, <1>2, <1>4 DEF DataInv, DataOK
<1>12. DataOK(e)'
  <2>1. \A i : i \in {2, 3} /\ Ahead(e, i)' => Ahead(e, i)
    BY <1>4, <1>6 DEF Ahead
  <2>2. \A i \in {2, 3} : Ahead(e, i) => mem'.frame[<<c, Order[i]>>] = NoPage
    BY <1>1, <1>4, <1>10, <1>11, Layout DEF DataOK
  <2> QED BY <1>1, <1>4, <1>6, <2>1, <2>2 DEF DataOK, Up
<1>13. Giving(e) /\ ~Giving(e)'
  BY <1>4, <1>6 DEF Giving
<1>14. \A va \in Image \ {k} : KidKept(e, va)
  BY <1>1, <1>2, <1>4, <1>6, <1>10, <1>13, ImagePages DEF KidKept, KeptData
<1>15. Hidden(e, k) /\ ~Hidden(e, k)' /\ Content(c, k)' = Content(e, k)
  <2>1. mem'.frame[<<c, k>>] = mem.frame[<<e, k>>]
    BY <1>4, <1>10, <1>11
  <2>2. Content(c, k)' = Content(e, k)
    BY <1>4, <1>6, <2>1 DEF Content, KeptData
  <2> QED BY <1>1, <1>2, <1>4, <1>6, <1>13, <2>1, <2>2 DEF Hidden
<1> QED BY <1>1, <1>4, <1>6, <1>7, <1>9, <1>12, <1>14, <1>15, KeptForAll, KidGets

\* A step on the entry of e at PFTEMP or UTEMP is nothing that anybody sees.
LEMMA TempData ==
  ASSUME MemInv, CowInv, DataInv, NEW e \in Env, Up(e), pc[e] # "panic",
         OthersKept(e, "tmp"), KeptData, OnlyProg(e), UNCHANGED <<state, parent, child>>,
         pc'[e] = "copy" => mem'.frame[<<e, "tmp">>] = mem'.frame[<<child[e], Here(e)'>>],
         pc'[e] # "own", fault'[e] = NoVa \/ fpc'[e] # "map",
         \A i \in {2, 3} : Ahead(e, i)' => Ahead(e, i),
         \A va \in Image :
           (Giving(e)' /\ Here(e)' = va) <=> (Giving(e) /\ Here(e) = va)
  PROVE  DataInv' /\ Promise
<1>1. PICK c : c = child[e]
  OBVIOUS
<1>2. c \in Env \cup {NoEnv} /\ c # e /\ (c # NoEnv => c \in Env) /\ state[e] = "UP"
  BY <1>1, RunsMine, Layout
<1>3. Local(e) /\ \A va \in Image : Content(e, va)' = Content(e, va)
  BY Layout, ImagePages, EntryLocal
<1>4. c \in Env => \A va \in Va : mem'.frame[<<c, va>>] = mem.frame[<<c, va>>]
  BY <1>2 DEF OthersKept
<1>5. DataOK(e)'
  <2>1. DataOK(e) /\ \A i \in {2, 3} : Order[i] \in Va
    BY Layout DEF DataInv
  <2>2. c # NoEnv => \A i \in {2, 3} : Ahead(e, i)' => mem'.frame[<<c, Order[i]>>] = NoPage
    BY <1>1, <1>2, <1>4, <2>1 DEF DataOK
  <2> QED BY <1>1, <1>2, <2>2 DEF DataOK
<1>6. c # NoEnv => \A va \in Image : KidKept(e, va)
  BY <1>1, <1>2, <1>4, ImagePages DEF KidKept, KeptData
<1> QED BY <1>1, <1>3, <1>5, <1>6, KeptForAll, LocalStutter

LEMMA MapV0Data ==
  ASSUME MemInv, CowInv, DataInv, NEW e \in Env, MapV0(e)
  PROVE  DataInv' /\ Promise
<1>1. PICK c : c = child[e]
  OBVIOUS
<1>2. PICK k : k = Here(e)
  OBVIOUS
<1>3. At(e, "utemp") /\ MapStep(e, c, k, e, "tmp", {"W"}, "copy")
  BY <1>1, <1>2 DEF MapV0
<1>4. /\ Up(e) /\ pc[e] = "utemp" /\ pc[e] # "panic" /\ fault[e] = NoVa
      /\ c \in Env /\ c # e /\ k \in Va /\ k # "tmp"
  BY <1>1, <1>2, <1>3, LoopFacts DEF Copying
<1>5. SUFFICES ASSUME Mapping(e, c, k, e, "tmp", {"W"}, "copy") PROVE DataInv' /\ Promise
  BY <1>3, <1>4, Layout, MapStepData
<1>6. /\ OthersKept(e, "tmp") /\ mem'.frame[<<e, "tmp">>] = mem.frame[<<c, k>>]
      /\ KeptData /\ OnlyProg(e) /\ pc'[e] = "copy" /\ at'[e] = at[e]
      /\ UNCHANGED <<state, parent, child, fault, fpc>>
  <2>1. "copy" \notin {"page", "page0"}
    OBVIOUS
  <2> QED BY <1>5, <2>1 DEF Mapping, GotMapped
<1>7. mem'.frame[<<c, k>>] = mem.frame[<<c, k>>] /\ Here(e)' = k
  BY <1>2, <1>4, <1>6 DEF OthersKept, Here
<1>8. /\ \A i \in {2, 3} : Ahead(e, i)' => Ahead(e, i)
      /\ Giving(e) /\ Giving(e)'
  BY <1>4, <1>6 DEF Ahead, Giving
<1> QED BY <1>1, <1>2, <1>4, <1>6, <1>7, <1>8, TempData

LEMMA UnmapV0Data ==
  ASSUME MemInv, CowInv, DataInv, NEW e \in Env, UnmapV0(e)
  PROVE  DataInv' /\ Promise
<1>1. /\ At(e, "unmap") /\ mem' = PageRemove(mem, e, "tmp") /\ NextPage(e, "page0")
      /\ UNCHANGED <<state, parent, child, fault, fpc>>
  BY DEF UnmapV0, SysPageUnmap, procVars
<1>2. /\ CowTypeOK /\ Up(e) /\ pc[e] = "unmap" /\ pc[e] # "panic" /\ fault[e] = NoVa
      /\ at[e] \in 2 .. 4
  BY <1>1, LoopFacts DEF Copying
<1>3. OnlyProg(e) /\ pc'[e] = "page0" /\ at'[e] = at[e] + 1
  BY <1>1, <1>2 DEF NextPage, Goto, OnlyProg, CowTypeOK
<1>4. OthersKept(e, "tmp") /\ KeptData
  BY <1>1, UnmapEntries, UnmapData, Layout DEF GotCleared
<1>5. \A i \in {2, 3} : Ahead(e, i)' => Ahead(e, i)
  BY <1>2, <1>3 DEF Ahead
<1> QED BY <1>1, <1>2, <1>3, <1>4, <1>5, TempData DEF Giving

LEMMA PgfaultUnmapData ==
  ASSUME MemInv, CowInv, DataInv, NEW e \in Env, PgfaultUnmap(e)
  PROVE  DataInv' /\ Promise
<1>1. /\ InFault(e, "unmap") /\ mem' = PageRemove(mem, e, "tmp")
      /\ fault' = [fault EXCEPT ![e] = NoVa] /\ fpc' = [fpc EXCEPT ![e] = "alloc"]
      /\ UNCHANGED <<state, parent, pc, child, at, pte>>
  BY DEF PgfaultUnmap, SysPageUnmap, procVars
<1>2. Up(e) /\ pc[e] # "panic" /\ pc[e] \notin Copying
  BY <1>1, InsideFault
<1>3. OnlyProg(e) /\ fault'[e] = NoVa
  BY <1>1 DEF OnlyProg, CowInv, CowTypeOK
<1>4. OthersKept(e, "tmp") /\ KeptData
  BY <1>1, UnmapEntries, UnmapData, Layout DEF GotCleared
<1>5. \A i \in {2, 3} : Ahead(e, i)' => Ahead(e, i)
  BY <1>1 DEF Ahead
<1> QED BY <1>1, <1>2, <1>3, <1>4, <1>5, TempData DEF Giving, Copying

\* pgfault() maps its copy, which contains what the page that faulted does.
LEMMA PgfaultMapData ==
  ASSUME MemInv, CowInv, DataInv, NEW e \in Env, PgfaultMap(e)
  PROVE  DataInv' /\ Promise
<1>1. PICK k : k = fault[e]
  OBVIOUS
<1>2. /\ InFault(e, "map") /\ mem' = EnvPageMap(mem, e, "tmp", e, k, {"W"})
      /\ fpc' = [fpc EXCEPT ![e] = "unmap"]
      /\ UNCHANGED <<state, parent, pc, child, at, pte, fault>>
  BY <1>1 DEF PgfaultMap, SysPageMap, procVars
<1>3. /\ Up(e) /\ pc[e] # "panic" /\ k # NoVa /\ fpc[e] = "map" /\ pc[e] \notin Copying
      /\ k \in {"text", "stack"} /\ k \in Va /\ mem.frame[<<e, k>>] # NoPage
  BY <1>1, <1>2, InsideFault
<1>4. OnlyProg(e) /\ fpc'[e] = "unmap"
  BY <1>2 DEF OnlyProg, CowInv, CowTypeOK
<1>5. PICK c : c = child[e]
  OBVIOUS
<1>6. c \in Env \cup {NoEnv} /\ c # e /\ (c # NoEnv => c \in Env)
  BY <1>3, <1>5, RunsMine, Layout
<1>7. KeptData
  BY <1>2, <1>3, MapData, Layout
<1>8. /\ OthersKept(e, k)
      /\ mem'.frame[<<e, k>>] \in {mem.frame[<<e, k>>], mem.frame[<<e, "tmp">>]}
  <2>1. CASE MayMap(mem, e, "tmp", e, k, {"W"})
    BY <1>2, <1>3, <2>1, MapEntries, Layout DEF GotMapped
  <2>2. CASE ~MayMap(mem, e, "tmp", e, k, {"W"})
    BY <1>2, <1>3, <2>2, MapEntries, Layout DEF EntriesKept, OthersKept
  <2> QED BY <2>1, <2>2
<1>9. Local(e) /\ \A va \in Image \ {k} : Content(e, va)' = Content(e, va)
  BY <1>2, <1>3, <1>4, <1>7, <1>8, EntryLocal
<1>10. DataOK(e)
  BY DEF DataInv
<1>11. Content(e, k)' = Content(e, k)
  <2>1. /\ mem.frame[<<e, "tmp">>] # NoPage
        /\ mem.data[mem.frame[<<e, "tmp">>]] = mem.data[mem.frame[<<e, k>>]]
    BY <1>1, <1>3, <1>10 DEF DataOK
  <2>2. /\ mem'.data[mem.frame[<<e, "tmp">>]] = mem.data[mem.frame[<<e, "tmp">>]]
        /\ mem'.data[mem.frame[<<e, k>>]] = mem.data[mem.frame[<<e, k>>]]
    BY <1>3, <1>7, <2>1, Layout DEF KeptData
  <2> QED BY <1>8, <2>1, <2>2 DEF Content
<1>12. pc[e] \notin {"own", "utemp", "copy"}
  BY <1>3 DEF Copying
<1>13. c \in Env => \A va \in Va : mem'.frame[<<c, va>>] = mem.frame[<<c, va>>]
  BY <1>6, <1>8 DEF OthersKept
<1>14. DataOK(e)'
  <2>1. \A i : Ahead(e, i)' <=> Ahead(e, i)
    BY <1>2 DEF Ahead
  <2>2. c # NoEnv => \A i \in {2, 3} : Ahead(e, i) => mem'.frame[<<c, Order[i]>>] = NoPage
    BY <1>5, <1>6, <1>10, <1>13, Layout DEF DataOK
  <2> QED BY <1>2, <1>3, <1>4, <1>5, <1>12, <2>1, <2>2 DEF DataOK, Up
<1>15. c # NoEnv => \A va \in Image : KidKept(e, va)
  BY <1>2, <1>5, <1>6, <1>7, <1>12, <1>13, ImagePages DEF KidKept, Giving, KeptData
<1> QED BY <1>5, <1>7, <1>9, <1>11, <1>14, <1>15, KeptForAll, LocalStutter

LEMMA RunsData ==
  ASSUME MemInv, CowInv, DataInv, NEW e \in Env, Runs(e)
  PROVE  DataInv' /\ Promise
<1>1. CASE Exit(e)
  <2>1. Up(e) /\ pc[e] # "panic" /\ Gone(e)
    BY <1>1 DEF Exit, At
  <2> QED BY <2>1, GoneData
<1>2. ASSUME NEW va \in Va, PageFault(e, va) PROVE DataInv' /\ Promise
  <2>1. Up(e) /\ pc[e] # "panic"
    BY <1>2 DEF PageFault, Writes
  <2>2. CASE Gone(e)
    BY <2>1, <2>2, GoneData
  <2>3. CASE ~Gone(e)
    BY <1>2, <2>3, FaultData
  <2> QED BY <2>2, <2>3
<1>3. ASSUME NEW va \in Va, NEW v \in Value, UserWrite(e, va, v) PROVE DataInv' /\ Promise
  BY <1>3, UserWriteData
<1>4. ASSUME NEW c \in Env, Exofork(e, c) PROVE DataInv' /\ Promise
  BY <1>4, ExoforkData
<1>5. CASE ForkCall(e) \/ HandlerAlloc(e) \/ HandlerUpcall(e) \/ ExoforkFails(e)
  BY <1>5, ForkCallData, HandlerAllocData, HandlerUpcallData, ExoforkFailsData
<1>6. CASE PgfaultAlloc(e) \/ PgfaultCopy(e) \/ PgfaultMap(e) \/ PgfaultUnmap(e)
  BY <1>6, PgfaultAllocData, PgfaultCopyData, PgfaultMapData, PgfaultUnmapData
<1>7. CASE SkipPage(e) \/ ReadPte(e) \/ DupChild(e) \/ DupOwn(e)
  BY <1>7, SkipPageData, ReadPteData, DupChildData, DupOwnData
<1>8. CASE ShareV0(e) \/ AllocV0(e) \/ MapV0(e) \/ CopyV0(e) \/ UnmapV0(e)
  BY <1>8, ShareV0Data, AllocV0Data, MapV0Data, CopyV0Data, UnmapV0Data
<1>9. CASE ChildStack(e) \/ ChildUpcall(e) \/ Start(e)
  BY <1>9, ChildStackData, ChildUpcallData, StartData
<1> QED BY <1>1, <1>2, <1>3, <1>4, <1>5, <1>6, <1>7, <1>8, <1>9 DEF Runs

-----------------------------------------------------------------------------
(* The kernel loads the first program, and nothing happens.                 *)

LEMMA IdleData ==
  ASSUME DataInv, UNCHANGED <<mem, state, parent, pc, child, at, pte, fault, fpc>>
  PROVE  DataInv' /\ UNCHANGED P!vars
<1>1. \A f : Here(f)' = Here(f) /\ Makers(f)' = Makers(f)
  BY DEF Here, Makers
<1>2. \A f, i : Ahead(f, i)' <=> Ahead(f, i)
  BY DEF Ahead
<1>3. ASSUME NEW f \in Env PROVE DataOK(f)'
  <2>1. DataOK(f) /\ Here(f)' = Here(f)
    BY <1>1 DEF DataInv
  <2> QED BY <1>2, <2>1 DEF DataOK
<1>4. \A f, va : Filling(f, va)' <=> Filling(f, va)
  BY <1>1 DEF Filling
<1>5. \A f : Stage(f)' = Stage(f)
  BY <1>1 DEF Stage
<1>6. ASSUME NEW f PROVE Maker(f)' = Maker(f)
  <2>1. Makers(f)' = Makers(f)
    BY <1>1
  <2>2. (CHOOSE m \in Makers(f) : TRUE)' = CHOOSE m \in Makers(f) : TRUE
    BY <2>1
  <2>3. Stage(f)' = Stage(f)
    BY <1>5
  <2>4. CASE Stage(f) = "made"
    <3>1. Maker(f) = CHOOSE m \in Makers(f) : TRUE
      BY <2>4 DEF Maker
    <3>2. Maker(f)' = (CHOOSE m \in Makers(f) : TRUE)'
      BY <2>3, <2>4 DEF Maker
    <3> QED BY <2>2, <3>1, <3>2
  <2>5. CASE Stage(f) # "made"
    BY <2>3, <2>5 DEF Maker
  <2> QED BY <2>4, <2>5
<1>7. \A f, va : Seen(f, va)' = Seen(f, va)
  BY <1>4, <1>5 DEF Seen
<1>8. \A f \in Env : Same(f)
  BY <1>5, <1>6, <1>7 DEF Same
<1> QED BY <1>3, <1>8, StutterView DEF DataInv

\* Only Root changes, and nobody makes it.
LEMMA LoadData ==
  ASSUME MemInv, CowInv, DataInv, state[Root] \in {"FREE", "LOADING"},
         state'[Root] \in {"LOADING", "UP"},
         UNCHANGED <<pc, child, at, pte, fault, fpc>>, KeptData,
         \A f \in Env \ {Root} : state'[f] = state[f],
         \A f \in Env \ {Root}, va \in Va : mem'.frame[<<f, va>>] = mem.frame[<<f, va>>]
  PROVE  /\ DataInv'
         /\ Views /\ Views' => \A f \in Env \ {Root} : Same(f)
<1>0. CowTypeOK /\ Root \in Env
  BY SpaceAssumption DEF CowInv
<1>1. ASSUME NEW f \in Env PROVE child[f] # Root /\ (child[f] # NoEnv => child[f] \in Env)
  BY <1>0, <1>1, Layout DEF CowInv, ProgOK, PlaceOK, CowTypeOK
<1>2. pc[Root] = "user" /\ fault[Root] = NoVa /\ child[Root] = NoEnv
  BY <1>0 DEF CowInv, ProgOK, PlaceOK, Forking
<1>3. DataOK(Root)'
  BY <1>2, CalmData
<1>4. ASSUME NEW f \in Env \ {Root} PROVE DataOK(f)'
  <2>1. PICK d : d = child[f]
    OBVIOUS
  <2>2. DataOK(f) /\ ProgOK(f) /\ Here(f)' = Here(f)
    BY DEF DataInv, CowInv, Here
  <2>3. \A va \in Va : /\ mem'.frame[<<f, va>>] = mem.frame[<<f, va>>]
                       /\ d # NoEnv => mem'.frame[<<d, va>>] = mem.frame[<<d, va>>]
    BY <1>1, <2>1
  <2>4. pc[f] \in {"own", "copy"} => d # NoEnv /\ Here(f) \in Va
    <3>1. pc[f] \in {"own", "copy"} => pc[f] \in Copying
      BY DEF Copying
    <3>2. pc[f] \in Copying => pc[f] \in Forking \ {"start"} /\ Here(f) \in Va
      BY AtPage
    <3> QED BY <2>1, <2>2, <3>1, <3>2 DEF ProgOK, PlaceOK
  <2>5. /\ pc[f] = "own" => mem'.frame[<<f, Here(f)>>] = mem'.frame[<<d, Here(f)>>]
        /\ pc[f] = "copy" => mem'.frame[<<f, "tmp">>] = mem'.frame[<<d, Here(f)>>]
    BY <2>1, <2>2, <2>3, <2>4, Layout DEF DataOK
  <2>6. d # NoEnv =>
          \A i \in {2, 3} : Ahead(f, i)' => mem'.frame[<<d, Order[i]>>] = NoPage
    <3>1. (\A i : Ahead(f, i)' <=> Ahead(f, i)) /\ \A i \in {2, 3} : Order[i] \in Va
      BY Layout DEF Ahead
    <3> QED BY <2>1, <2>2, <2>3, <3>1 DEF DataOK
  <2>7. ASSUME pc[f] # "panic", fault[f] # NoVa, fpc[f] = "map"
        PROVE  /\ mem'.frame[<<f, "tmp">>] # NoPage
               /\ mem'.data[mem'.frame[<<f, "tmp">>]] = mem'.data[mem'.frame[<<f, fault[f]>>]]
    <3>1. fault[f] \in {"text", "stack"} /\ state[f] = "UP"
      BY <1>0, <2>2, <2>7 DEF CowTypeOK, ProgOK, PlaceOK
    <3>2. /\ mem.frame[<<f, "tmp">>] # NoPage /\ mem.frame[<<f, fault[f]>>] # NoPage
          /\ mem.data[mem.frame[<<f, "tmp">>]] = mem.data[mem.frame[<<f, fault[f]>>]]
      BY <2>2, <2>7, <3>1 DEF DataOK, ProgOK, MappedOK
    <3>3. /\ mem'.frame[<<f, "tmp">>] = mem.frame[<<f, "tmp">>]
          /\ mem'.frame[<<f, fault[f]>>] = mem.frame[<<f, fault[f]>>]
      BY <2>3, <3>1, Layout
    <3> QED BY <3>1, <3>2, <3>3, Layout DEF KeptData
  <2>8. state'[f] # "BLOCKED"
    BY <2>2 DEF DataOK
  <2> QED BY <2>1, <2>2, <2>5, <2>6, <2>7, <2>8 DEF DataOK
<1>5. DataInv'
  BY <1>3, <1>4 DEF DataInv
<1>6. ASSUME Views, Views', NEW f \in Env \ {Root} PROVE Same(f)
  <2>1. /\ UpView(f) /\ LoadView(f) /\ NoneView(f)
        /\ UpView(f)' /\ LoadView(f)' /\ NoneView(f)'
    BY <1>6 DEF Views
  <2>2. state'[f] = state[f] /\ state[f] \in {"FREE", "LOADING", "EMBRYO", "UP"}
    BY DEF MemInv, ProcOK, DataInv, DataOK
  <2>3. CASE state[f] = "UP"
    BY <1>6, <2>2, <2>3, UpSame, KeptContent, KeptForAll, ImagePages
  <2>4. CASE state[f] = "LOADING"
    <3>1. \A va \in Image : mem.frame[<<f, va>>] # NoPage => Content(f, va)' = Content(f, va)
      BY ImagePages DEF Content, KeptData
    <3> QED BY <2>1, <2>2, <2>4, <3>1, ImagePages DEF LoadView, Same
  <2>5. CASE state[f] = "FREE"
    BY <2>1, <2>2, <2>5 DEF NoneView, Same
  <2>6. ASSUME state[f] = "EMBRYO", NEW m \in Env, child[m] = f PROVE Same(f)
    <3>1. Here(m)' = Here(m) /\ (Giving(m)' <=> Giving(m))
      BY DEF Here, Giving
    <3>2. \A va \in Image : KidKept(m, va)
      BY <2>6, <3>1, ImagePages DEF KidKept, KeptData
    <3> QED BY <1>6, <2>6, <3>2, KidSame
  <2>7. CASE state[f] = "EMBRYO" /\ \A m \in Env : child[m] # f
    BY <2>1, <2>2, <2>7 DEF NoneView, Same
  <2> QED BY <2>2, <2>3, <2>4, <2>5, <2>6, <2>7
<1> QED BY <1>5, <1>6

LEMMA BootData ==
  ASSUME MemInv, CowInv, DataInv, CowBoot
  PROVE  DataInv' /\ Promise
<1>0. UNCHANGED <<pc, child, at, pte, fault, fpc>> /\ Root \in Env
  BY SpaceAssumption DEF CowBoot, fixVars, progVars
<1>1. state \in [Env -> {"FREE", "LOADING", "EMBRYO", "UP", "BLOCKED"}]
  BY DEF MemInv, ProcOK
<1>2. CASE Panic
  BY <1>0, <1>2, IdleData DEF Panic, Promise
<1>3. CASE EnvCreate /\ ~Panic
  <2>1. /\ state[Root] = "FREE" /\ mem.free # {} /\ mem' = EnvSetupVm(mem, Root)
        /\ state' = [state EXCEPT ![Root] = "LOADING"]
    BY <1>3, ImagePages DEF EnvCreate
  <2>2. EntriesKept /\ KeptData
    BY <1>0, <2>1, SetupEntries, SetupData
  <2>3. state'[Root] = "LOADING" /\ \A f \in Env \ {Root} : state'[f] = state[f]
    BY <1>0, <1>1, <2>1
  <2>4. DataInv' /\ (Views /\ Views' => \A f \in Env \ {Root} : Same(f))
    BY <1>0, <2>1, <2>2, <2>3, LoadData DEF EntriesKept
  <2>5. SUFFICES ASSUME Views, Views' PROVE P!Next
    BY <2>4 DEF Promise
  <2>6. NoneView(Root) /\ LoadView(Root)'
    BY <1>0, <2>5 DEF Views
  <2>7. \A va \in Image : mem'.frame[<<Root, va>>] = NoPage
    BY <1>0, <2>1, <2>2, FreeEmpty, ImagePages DEF EntriesKept
  <2>8. /\ Stage(Root) = "none" /\ Stage(Root)' = "loading" /\ Maker(Root)' = Maker(Root)
        /\ \A va \in Image : Seen(Root, va)' = Seen(Root, va)
    BY <2>1, <2>3, <2>6, <2>7 DEF NoneView, LoadView
  <2> QED BY <1>0, <2>4, <2>5, <2>8, CreateView
<1>4. ASSUME NEW va \in Image, RegionAlloc(va), ~Panic PROVE DataInv' /\ Promise
  <2>1. /\ state[Root] = "LOADING" /\ CanAlloc(mem, Root, va)
        /\ mem.frame[<<Root, va>>] = NoPage
        /\ mem' = EnvPageAlloc(mem, Root, va, {"W"})
        /\ state' = [state EXCEPT ![Root] =
             IF \A v \in Image \ {va} : mem.frame[<<Root, v>>] # NoPage
             THEN "UP" ELSE "LOADING"]
    BY <1>4 DEF RegionAlloc
  <2>2. va \in Va
    BY ImagePages
  <2>3. KeptData /\ mem'.data[mem'.frame[<<Root, va>>]] = Zero
    BY <1>0, <2>1, <2>2, AllocData, Layout
  <2>4. OthersKept(Root, va) /\ mem'.frame[<<Root, va>>] # NoPage
    BY <1>0, <2>1, <2>2, AllocEntries, Layout DEF GotFresh
  <2>5. /\ state'[Root] \in {"UP", "LOADING"}
        /\ \A f \in Env \ {Root} : state'[f] = state[f]
        /\ state'[Root] = "UP" => \A v \in Image \ {va} : mem.frame[<<Root, v>>] # NoPage
    BY <1>0, <1>1, <2>1
  <2>6. DataInv' /\ (Views /\ Views' => \A f \in Env \ {Root} : Same(f))
    BY <1>0, <2>1, <2>3, <2>4, <2>5, LoadData DEF OthersKept
  <2>7. SUFFICES ASSUME Views, Views' PROVE P!Next
    BY <2>6 DEF Promise
  <2>8. LoadView(Root) /\ LoadView(Root)' /\ UpView(Root)'
    BY <1>0, <2>7 DEF Views
  <2>9. ASSUME NEW w \in Image \ {va}
        PROVE  /\ mem'.frame[<<Root, w>>] = mem.frame[<<Root, w>>]
               /\ mem.frame[<<Root, w>>] # NoPage => Content(Root, w)' = Content(Root, w)
    <3>1. w \in Va /\ mem'.frame[<<Root, w>>] = mem.frame[<<Root, w>>]
      BY <1>0, <2>4, ImagePages DEF OthersKept
    <3> QED BY <1>0, <2>3, <3>1 DEF Content, KeptData
  <2>10. Stage(Root) = "loading" /\ Maker(Root) = NoEnv /\ Seen(Root, va) = NoVa
    BY <2>1, <2>8 DEF LoadView
  <2>11. Maker(Root)' = Maker(Root) /\ Seen(Root, va)' = Zero
    <3>1. Content(Root, va)' = Zero
      BY <2>3 DEF Content
    <3> QED BY <2>4, <2>5, <2>8, <2>10, <3>1 DEF LoadView, UpView
  <2>12. ASSUME NEW w \in Image \ {va} PROVE Seen(Root, w)' = Seen(Root, w)
    <3>1. Seen(Root, w) = IF mem.frame[<<Root, w>>] = NoPage THEN NoVa ELSE Content(Root, w)
      BY <2>1, <2>8 DEF LoadView
    <3>2. CASE state'[Root] = "UP"
      BY <2>5, <2>8, <2>9, <3>1, <3>2 DEF UpView
    <3>3. CASE state'[Root] = "LOADING"
      BY <2>8, <2>9, <3>1, <3>3 DEF LoadView
    <3> QED BY <2>5, <3>2, <3>3
  <2>13. \/ Stage(Root)' = "loading"
         \/ Stage(Root)' = "running" /\ \A w \in Image \ {va} : Seen(Root, w) # NoVa
    <3>1. state'[Root] = "LOADING" => Stage(Root)' = "loading"
      BY <2>8 DEF LoadView
    <3>2. state'[Root] = "UP" =>
            Stage(Root)' = "running" /\ \A w \in Image : Seen(Root, w)' # NoVa
      BY <2>8 DEF UpView
    <3> QED BY <2>5, <2>12, <3>1, <3>2
  <2> QED BY <1>0, <2>6, <2>7, <2>10, <2>11, <2>12, <2>13, LoadedView
<1> QED BY <1>2, <1>3, <1>4 DEF CowBoot

LEMMA DataStep ==
  MemInv /\ CowInv /\ DataInv /\ [CowNext]_cowVars => DataInv' /\ Promise
<1> SUFFICES ASSUME MemInv, CowInv, DataInv, [CowNext]_cowVars PROVE DataInv' /\ Promise
  OBVIOUS
<1>1. CASE UNCHANGED cowVars
  <2>1. UNCHANGED <<mem, state, parent, pc, child, at, pte, fault, fpc>>
    BY <1>1 DEF cowVars, memVars, procVars, progVars
  <2> QED BY <2>1, IdleData DEF Promise
<1>2. CASE CowBoot
  BY <1>2, BootData
<1>3. CASE CowStopped
  BY <1>1, <1>3 DEF CowStopped
<1>4. ASSUME NEW e \in Env, Runs(e) PROVE DataInv' /\ Promise
  BY <1>4, RunsData
<1> QED BY <1>1, <1>2, <1>3, <1>4 DEF CowNext

LEMMA DataStart == CowInit => DataInv /\ P!Init
<1> SUFFICES ASSUME CowInit PROVE DataInv /\ P!Init
  OBVIOUS
<1>1. /\ state = [e \in Env |-> "FREE"] /\ pc = [e \in Env |-> "user"]
      /\ child = [e \in Env |-> NoEnv] /\ fault = [e \in Env |-> NoVa]
  BY DEF CowInit, Init
<1>2. \A f \in Env : DataOK(f)
  BY <1>1 DEF DataOK
<1>3. MemInv /\ CowInv /\ DataInv
  BY <1>2, CowStart DEF DataInv
<1>4. ASSUME NEW f \in Env
      PROVE  /\ Stage(f) = "none" /\ Maker(f) = NoEnv
             /\ \A va \in Image : Seen(f, va) = NoVa
  BY <1>1, <1>3, StageViews DEF Views, NoneView
<1>5. Spaces = [f \in Env |-> P!Empty]
  BY <1>4 DEF Spaces, P!Empty
<1>6. Stages = [f \in Env |-> "none"] /\ MakerOf = [f \in Env |-> NoEnv]
  BY <1>4 DEF Stages, MakerOf
<1> QED BY <1>3, <1>5, <1>6 DEF P!Init

\* fork() and fork_v0() keep their promise, for any number of programs, pages of
\* memory and forks: a child starts with a copy of every page of its parent, and
\* what a program sees is changed by its own writes only, through every
\* interleaving of the system calls of fork(), fork_v0() and pgfault(), and every
\* failure of theirs.
THEOREM PrivateImplemented == CowSpec => ImplementsPrivate
<1>1. CowSpec => [](MemInv /\ CowInv /\ DataInv)
  BY CowStart, CowStep, DataStart, DataStep, PTL DEF CowSpec
<1>2. MemInv /\ CowInv /\ DataInv /\ (MemInv /\ CowInv /\ DataInv)' /\ [CowNext]_cowVars
        => [P!Next]_P!vars
  <2>1. MemInv' /\ CowInv' /\ DataInv' => Views'
    BY StageViews, PTL
  <2> QED BY <2>1, StageViews, DataStep DEF Promise
<1> QED BY <1>1, <1>2, DataStart, PTL DEF CowSpec, ImplementsPrivate, P!Spec
=============================================================================
