------------------------------- MODULE Memory -------------------------------
(***************************************************************************)
(* Physical pages and address spaces of the kernel in src/sched: pp_ref,   *)
(* the free list, page directories, page tables and their entries, and the *)
(* system calls that change them.  A system call runs under the kernel     *)
(* lock, so it is one action; which processor runs whom is Kernel's.       *)
(*                                                                         *)
(* Pages are interchangeable, so the free list is a set and its head any   *)
(* page of it.  Of the permission bits PTE_W and the PTE_AVAIL bit that    *)
(* lib/fork.c calls PTE_COW are kept.  env_run() loads %cr3 on every       *)
(* return to a program, which empties the TLB; it is left out.             *)
(***************************************************************************)
EXTENDS Naturals, FiniteSets

CONSTANTS
  Env, Root,        \* slots of envs[], and the one env_create() fills
  Page,             \* the pages page_init() puts on the free list
  Va, Tab,          \* virtual pages in use, and the page tables for them
  TabOf,            \* the page table that covers a virtual page
  Image,            \* the virtual pages load_icode() maps
  Value, Zero,      \* contents of a page
  Perms,            \* the permissions programs ask for
  Windows,          \* where they want the pages they receive
  NoPage, NoVa, NoEnv

Bits == {"W", "COW"}
Slot == Env \X ({"dir"} \cup Tab \cup Va)

ASSUME SpaceAssumption ==
  /\ IsFiniteSet(Env) /\ Root \in Env /\ NoEnv \notin Env
  /\ IsFiniteSet(Page) /\ NoPage \notin Page
  /\ IsFiniteSet(Va) /\ IsFiniteSet(Tab) /\ NoVa \notin Va
  /\ "dir" \notin Tab \cup Va /\ Tab \cap Va = {}
  /\ TabOf \in [Va -> Tab] /\ Image \subseteq Va /\ Zero \in Value
  /\ Perms \subseteq SUBSET Bits /\ Windows \subseteq Va

VARIABLES
  mem,       \* the memory, see below
  state,     \* "FREE", "LOADING" (its image), "EMBRYO" (made by sys_exofork()),
             \* "UP" or "BLOCKED" (in sys_ipc_recv())
  parent,    \* the environment that env_parent_id names, NoEnv if it is gone
  recving,   \* env_ipc_recving
  dstva,     \* env_ipc_dstva, NoVa for 0
  panicked   \* the kernel has panicked

procVars == <<state, parent, recving, dstva, panicked>>
memVars == <<mem, procVars>>

(***************************************************************************)
(* mem.free          page_free_list                                        *)
(* mem.ref[p]        pages[p].pp_ref                                       *)
(* mem.frame[e, k]   the page behind entry k of e: its page directory, a   *)
(*                   page table, or the page mapped at a virtual page      *)
(* mem.perm[e, va]   the permission bits of a page table entry             *)
(* mem.data[p]       what page p contains                                  *)
(***************************************************************************)
NoMemory ==
  [free |-> Page, ref |-> [p \in Page |-> 0], frame |-> [s \in Slot |-> NoPage],
   perm |-> [s \in Env \X Va |-> {}], data |-> [p \in Page |-> Zero]]

-----------------------------------------------------------------------------
(* kern/pmap.c.  Each operator maps a memory to a memory.                  *)

NextFree(m) == CHOOSE p \in m.free : TRUE

\* page_alloc(ALLOC_ZERO), when the list is not empty.
PageAlloc(m) ==
  [m EXCEPT !.free = @ \ {NextFree(m)}, !.data[NextFree(m)] = Zero]

\* Entry s refers to p from now on.
Refer(m, s, p) == [m EXCEPT !.ref[p] = @ + 1, !.frame[s] = p]

PageDecref(m, p) ==
  [m EXCEPT !.ref[p] = @ - 1,
            !.free = IF m.ref[p] = 1 THEN @ \cup {p} ELSE @]

HasTable(m, e, va) == m.frame[<<e, TabOf[va]>>] # NoPage

\* pgdir_walk(.., 1): the page table is made if it is missing, and there are pages.
CanWalk(m, e, va) == HasTable(m, e, va) \/ m.free # {}
PgdirWalk(m, e, va) ==
  IF HasTable(m, e, va) THEN m
  ELSE Refer(PageAlloc(m), <<e, TabOf[va]>>, NextFree(m))

PageRemove(m, e, va) ==
  IF m.frame[<<e, va>>] = NoPage THEN m
  ELSE [PageDecref(m, m.frame[<<e, va>>])
          EXCEPT !.frame[<<e, va>>] = NoPage, !.perm[<<e, va>>] = {}]

\* Seeded fault: the old mapping goes before the new one is counted.
InsertUncounted(m, e, va, p, perm) ==
  LET cleared == PageRemove(PgdirWalk(m, e, va), e, va)
  IN  [Refer(cleared, <<e, va>>, p) EXCEPT !.perm[<<e, va>>] = perm]

\* page_insert(), when pgdir_walk() does not fail: the new mapping is counted
\* before the old one is removed, which may be one of the same page.
PageInsert(m, e, va, p, perm) ==
  LET counted == [PgdirWalk(m, e, va) EXCEPT !.ref[p] = @ + 1]
  IN  [PageRemove(counted, e, va)
         EXCEPT !.frame[<<e, va>>] = p, !.perm[<<e, va>>] = perm]

-----------------------------------------------------------------------------
(* What the system calls are made of.                                      *)

CanAlloc(m, e, va) == m.free # {} /\ CanWalk(PageAlloc(m), e, va)

\* env_page_alloc(): the page is not given back when page_insert() fails.
EnvPageAlloc(m, e, va, perm) ==
  IF m.free = {} THEN m
  ELSE IF CanAlloc(m, e, va)
       THEN PageInsert(PageAlloc(m), e, va, NextFree(m), perm)
       ELSE PageAlloc(m)

\* Seeded fault: PTE_W is not compared with the entry the page comes from.
MayMapAny(m, s, sva, d, dva, perm) ==
  m.frame[<<s, sva>>] # NoPage /\ CanWalk(m, d, dva)

MayMap(m, s, sva, d, dva, perm) ==
  /\ m.frame[<<s, sva>>] # NoPage
  /\ "W" \in perm => "W" \in m.perm[<<s, sva>>]
  /\ CanWalk(m, d, dva)

EnvPageMap(m, s, sva, d, dva, perm) ==
  IF MayMap(m, s, sva, d, dva, perm)
  THEN PageInsert(m, d, dva, m.frame[<<s, sva>>], perm)
  ELSE m

\* env_setup_vm(), when there is a page.
EnvSetupVm(m, e) == Refer(PageAlloc(m), <<e, "dir">>, NextFree(m))

\* The entries of e that refer to p.
Own(m, e, p) == {s \in Slot : s[1] = e /\ m.frame[s] = p}

\* Seeded fault: the page tables are not released.
EnvFreeKeepsTables(m, e) ==
  LET own(p) == Cardinality({s \in Own(m, e, p) : s[2] \notin Tab})
  IN  [free |-> m.free \cup {p \in Page : own(p) > 0 /\ own(p) = m.ref[p]},
       ref |-> [p \in Page |-> m.ref[p] - own(p)],
       frame |-> [s \in Slot |-> IF s[1] = e THEN NoPage ELSE m.frame[s]],
       perm |-> [s \in Env \X Va |-> IF s[1] = e THEN {} ELSE m.perm[s]],
       data |-> m.data]

\* The loops of env_free(): every page, then its table, then the directory.
EnvFree(m, e) ==
  LET own(p) == Cardinality(Own(m, e, p))
  IN  [free |-> m.free \cup {p \in Page : own(p) > 0 /\ own(p) = m.ref[p]},
       ref |-> [p \in Page |-> m.ref[p] - own(p)],
       frame |-> [s \in Slot |-> IF s[1] = e THEN NoPage ELSE m.frame[s]],
       perm |-> [s \in Env \X Va |-> IF s[1] = e THEN {} ELSE m.perm[s]],
       data |-> m.data]

-----------------------------------------------------------------------------
Init ==
  /\ mem = NoMemory
  /\ state = [e \in Env |-> "FREE"]
  /\ parent = [e \in Env |-> NoEnv]
  /\ recving = [e \in Env |-> FALSE]
  /\ dstva = [e \in Env |-> NoVa]
  /\ panicked = FALSE

Panic == panicked' = TRUE /\ UNCHANGED <<mem, state, parent, recving, dstva>>

\* env_create(), at boot: the directory, then the pages of load_icode() one by one.
EnvCreate ==
  /\ mem = NoMemory /\ state[Root] = "FREE" /\ ~panicked
  /\ IF mem.free = {} THEN Panic
     ELSE /\ mem' = EnvSetupVm(mem, Root)
          /\ state' = [state EXCEPT ![Root] = IF Image = {} THEN "UP" ELSE "LOADING"]
          /\ UNCHANGED <<parent, recving, dstva, panicked>>

RegionAlloc(va) ==
  /\ state[Root] = "LOADING" /\ ~panicked
  /\ mem.frame[<<Root, va>>] = NoPage
  /\ IF ~CanAlloc(mem, Root, va) THEN Panic
     ELSE /\ mem' = EnvPageAlloc(mem, Root, va, {"W"})
          /\ state' = [state EXCEPT ![Root] =
               IF \A v \in Image \ {va} : mem.frame[<<Root, v>>] # NoPage
               THEN "UP" ELSE "LOADING"]
          /\ UNCHANGED <<parent, recving, dstva, panicked>>

-----------------------------------------------------------------------------
(* System calls of an environment e.  The ones that fail change nothing but *)
(* what the operators above say.                                           *)

Up(e) == state[e] = "UP" /\ ~panicked

\* envid2env(.., 1): itself or a child.
Named(e, t) == t = e \/ (state[t] # "FREE" /\ parent[t] = e)

\* A program writes to its memory.
Write(e, va, v) ==
  /\ Up(e) /\ mem.frame[<<e, va>>] # NoPage /\ "W" \in mem.perm[<<e, va>>]
  /\ mem' = [mem EXCEPT !.data[mem.frame[<<e, va>>]] = v]
  /\ UNCHANGED procVars

SysPageAlloc(e, t, va, perm) ==
  /\ Up(e) /\ Named(e, t)
  /\ mem' = EnvPageAlloc(mem, t, va, perm)
  /\ UNCHANGED procVars

SysPageMap(e, s, sva, t, va, perm) ==
  /\ Up(e) /\ Named(e, s) /\ Named(e, t)
  /\ mem' = EnvPageMap(mem, s, sva, t, va, perm)
  /\ UNCHANGED procVars

SysPageUnmap(e, t, va) ==
  /\ Up(e) /\ Named(e, t)
  /\ mem' = PageRemove(mem, t, va)
  /\ UNCHANGED procVars

SysExofork(e, c) ==
  /\ Up(e) /\ state[c] = "FREE" /\ mem.free # {}
  /\ mem' = EnvSetupVm(mem, c)
  /\ state' = [state EXCEPT ![c] = "EMBRYO"]
  /\ parent' = [parent EXCEPT ![c] = e]
  /\ recving' = [recving EXCEPT ![c] = FALSE]
  /\ UNCHANGED <<dstva, panicked>>

\* sys_env_set_status(c, ENV_RUNNABLE) on the child of an exofork.
SysEnvStart(e, c) ==
  /\ Up(e) /\ parent[c] = e /\ state[c] = "EMBRYO"
  /\ state' = [state EXCEPT ![c] = "UP"]
  /\ UNCHANGED <<mem, parent, recving, dstva, panicked>>

\* env_free(); nobody is the child of an environment that is gone.
Free(t) ==
  /\ mem' = EnvFree(mem, t)
  /\ state' = [state EXCEPT ![t] = "FREE"]
  /\ parent' = [c \in Env |-> IF parent[c] = t \/ c = t THEN NoEnv ELSE parent[c]]
  /\ UNCHANGED <<recving, dstva, panicked>>

\* sys_env_destroy(), and a fault that ends e.
SysEnvDestroy(e, t) == Up(e) /\ Named(e, t) /\ Free(t)

\* env_ipc_recving is set before dstva is looked at.
SysIpcRecv(e, va) ==
  /\ Up(e)
  /\ recving' = [recving EXCEPT ![e] = TRUE]
  /\ dstva' = [dstva EXCEPT ![e] = va]
  /\ state' = [state EXCEPT ![e] = "BLOCKED"]
  /\ UNCHANGED <<mem, parent, panicked>>

SysIpcRecvBad(e) ==
  /\ Up(e)
  /\ recving' = [recving EXCEPT ![e] = TRUE]
  /\ UNCHANGED <<mem, state, parent, dstva, panicked>>

-----------------------------------------------------------------------------
(* sys_ipc_try_send().                                                     *)

Receives(t) == state[t] # "FREE" /\ recving[t]

\* The end of a send: the receiver goes on.
Wake(t) ==
  /\ recving' = [recving EXCEPT ![t] = FALSE]
  /\ state' = [state EXCEPT ![t] = "UP"]
  /\ UNCHANGED <<parent, dstva, panicked>>

Sendable(e, va, perm) ==
  mem.frame[<<e, va>>] # NoPage /\ ("W" \in perm => "W" \in mem.perm[<<e, va>>])

\* A page of zeroes is mapped at dstva first, then the sender's in its place.
Deliver(m, e, va, t, perm) ==
  EnvPageMap(EnvPageAlloc(m, t, dstva[t], perm), e, va, t, dstva[t], perm)

\* No page is sent, or the receiver asks for none.
SendValue(e, t, va, perm) ==
  /\ Up(e) /\ Receives(t)
  /\ va = NoVa \/ (va # NoVa /\ dstva[t] = NoVa /\ Sendable(e, va, perm))
  /\ Wake(t) /\ UNCHANGED mem

\* The zeroes go first even to the sender's own page, which then sends those.
SendPage(e, t, va, perm) ==
  /\ Up(e) /\ Receives(t) /\ dstva[t] # NoVa /\ Sendable(e, va, perm)
  /\ mem' = Deliver(mem, e, va, t, perm)
  /\ IF CanAlloc(mem, t, dstva[t]) THEN Wake(t) ELSE UNCHANGED procVars

\* page_lookup() leaves srcpte unset when nothing is mapped at srcva, and what
\* srcpte points to is read all the same: the kernel faults, the call returns
\* -E_INVAL, or it goes on and fails in env_page_map() after the receiver has
\* got its page of zeroes.  That page may be the one sent: by a program to itself.
SendNothing(e, t, va, perm) ==
  /\ Up(e) /\ Receives(t) /\ va # NoVa /\ mem.frame[<<e, va>>] = NoPage
  /\ \/ Panic
     \/ /\ dstva[t] # NoVa
        /\ mem' = Deliver(mem, e, va, t, perm)
        /\ IF e = t /\ va = dstva[t] /\ CanAlloc(mem, t, va) THEN Wake(t)
           ELSE UNCHANGED procVars
     \/ dstva[t] = NoVa /\ Wake(t) /\ UNCHANGED mem

-----------------------------------------------------------------------------
Acts(e) ==
  \/ \E va \in Va, v \in Value : Write(e, va, v)
  \/ \E t \in Env, va \in Va, perm \in Perms : SysPageAlloc(e, t, va, perm)
  \/ \E s, t \in Env, sva, va \in Va, perm \in Perms : SysPageMap(e, s, sva, t, va, perm)
  \/ \E t \in Env, va \in Va : SysPageUnmap(e, t, va)
  \/ \E c \in Env : SysExofork(e, c) \/ SysEnvStart(e, c) \/ SysEnvDestroy(e, c)
  \/ SysIpcRecvBad(e)
  \/ \E va \in Windows \cup {NoVa} : SysIpcRecv(e, va)
  \/ \E t \in Env, va \in Va \cup {NoVa}, perm \in Perms : SendValue(e, t, va, perm)
  \/ \E t \in Env, va \in Va, perm \in Perms :
       SendPage(e, t, va, perm) \/ SendNothing(e, t, va, perm)

\* Nothing happens once the kernel has panicked, or every program has ended.
Stopped ==
  /\ panicked \/ \A e \in Env : state[e] \notin {"UP", "LOADING"}
  /\ mem # NoMemory \/ panicked
  /\ UNCHANGED memVars

Next ==
  \/ EnvCreate \/ \E va \in Image : RegionAlloc(va)
  \/ \E e \in Env : Acts(e)
  \/ Stopped

Spec == Init /\ [][Next]_memVars

-----------------------------------------------------------------------------
TypeOK ==
  /\ mem \in [free : SUBSET Page, ref : [Page -> Nat],
             frame : [Slot -> Page \cup {NoPage}],
             perm : [Env \X Va -> SUBSET Bits], data : [Page -> Value]]
  /\ state \in [Env -> {"FREE", "LOADING", "EMBRYO", "UP", "BLOCKED"}]
  /\ parent \in [Env -> Env \cup {NoEnv}]
  /\ recving \in [Env -> BOOLEAN] /\ dstva \in [Env -> Va \cup {NoVa}]
  /\ panicked \in BOOLEAN

\* The entries of anybody that refer to page p.
Refs(m, p) == {s \in Slot : m.frame[s] = p}

RefExact(m) == \A p \in Page : m.ref[p] = Cardinality(Refs(m, p))
FreeUnused(m) == \A p \in m.free : Refs(m, p) = {}

\* The entries of a program live in its page tables, and those and its directory
\* exist as long as it does.
Rooted ==
  \A e \in Env :
    /\ state[e] = "FREE" <=> mem.frame[<<e, "dir">>] = NoPage
    /\ \A t \in Tab : state[e] = "FREE" => mem.frame[<<e, t>>] = NoPage
    /\ \A va \in Va : ~HasTable(mem, e, va) => mem.frame[<<e, va>>] = NoPage

\* pp_ref is the number of entries that refer to a page, page tables and
\* directories included, and a page of the free list has none, whatever programs
\* map, send, unmap or run out of; and no entry outlives what it is in.
PagesCounted == RefExact(mem) /\ FreeUnused(mem) /\ Rooted

\* A page that programs share read-only is not made writable under the others: no
\* call turns a page that nobody may write into one that somebody may.
Writable(p) == \E s \in Env \X Va : mem.frame[s] = p /\ "W" \in mem.perm[s]
Mapped(p) == \E s \in Env \X Va : mem.frame[s] = p
NoEscalation == [][\A p \in Page : Mapped(p) /\ ~Writable(p) => ~Writable(p)']_memVars

\* The error path of env_page_alloc() loses a page, and only the last one:
\* a page that is neither free nor referred to was lost when no page was left.
Lost == {p \in Page : p \notin mem.free /\ Refs(mem, p) = {}}
LostWhenFull == [][Lost' \subseteq Lost \/ mem'.free = {}]_memVars
=============================================================================
