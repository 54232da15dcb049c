------------------------------- MODULE CowFork -------------------------------
(***************************************************************************)
(* fork() and fork_v0() of src/sched/lib/fork.c over the system calls of   *)
(* Memory: programs that compute, write to their pages, fork and exit, one *)
(* system call a step.  A program writes to its stack at any moment, so in *)
(* the middle of fork() too, and a write may fault and run pgfault().      *)
(*                                                                         *)
(* Four virtual pages stand for an address space: "tmp" for PFTEMP and     *)
(* UTEMP, "text" for what is never written, "stack" for what always is,    *)
(* "xstk" for the exception stack.                                         *)
(***************************************************************************)
EXTENDS Memory, Sequences

CONSTANTS
  Plans     \* bound: the forks that programs begin, in order, sequences of
            \* "fork" and "fork_v0"

ASSUME LayoutAssumption ==
  /\ {"tmp", "text", "stack", "xstk"} \subseteq Va
  /\ Image = {"text", "stack"} /\ NoVa \notin Value
  /\ {{}, {"W"}, {"COW"}} \subseteq Perms
  /\ Plans \subseteq Seq({"fork", "fork_v0"})

VARIABLES
  plan,     \* one of Plans
  pc,       \* where a program is: "user", "panic" or a place of fork() or of
            \* fork_v0()
  child,    \* the child that fork() is making
  at,       \* pnum, as an index in Order
  pte,      \* the permissions read from uvpt[pnum]
  fault,    \* the virtual page pgfault() is working on, NoVa outside of it
  fpc,      \* the place in pgfault()
  hand,     \* _pgfault_handler is set
  upcall,   \* env_pgfault_upcall is set
  starved,  \* some allocation has failed
  forks     \* forks begun

progVars == <<pc, child, at, pte, fault, fpc, hand, upcall, starved>>
fixVars == <<plan, forks>>
cowVars == <<memVars, fixVars, progVars>>

\* The pages below UTOP, in the order of the loops of fork() and fork_v0().
Order == <<"tmp", "text", "stack", "xstk">>

CowInit ==
  /\ Init
  /\ plan \in Plans
  /\ pc = [e \in Env |-> "user"]
  /\ child = [e \in Env |-> NoEnv]
  /\ at = [e \in Env |-> 1]
  /\ pte = [e \in Env |-> {}]
  /\ fault = [e \in Env |-> NoVa]
  /\ fpc = [e \in Env |-> "alloc"]
  /\ hand = [e \in Env |-> FALSE] /\ upcall = [e \in Env |-> FALSE]
  /\ starved = FALSE /\ forks = 0

-----------------------------------------------------------------------------
(* Steps of a program that is not inside pgfault().                        *)

At(e, place) == Up(e) /\ fault[e] = NoVa /\ pc[e] = place

Goto(e, place) == pc' = [pc EXCEPT ![e] = place]

\* A program that is not in fork() or pgfault() has none of their variables.
Leave(e) ==
  /\ child' = [child EXCEPT ![e] = NoEnv]
  /\ at' = [at EXCEPT ![e] = 1]
  /\ pte' = [pte EXCEPT ![e] = {}]
  /\ fault' = [fault EXCEPT ![e] = NoVa]
  /\ fpc' = [fpc EXCEPT ![e] = "alloc"]

\* panic(): the program traps into the kernel monitor for good.
UserPanic(e) ==
  /\ Goto(e, "panic") /\ starved' = TRUE
  /\ Leave(e)
  /\ UNCHANGED <<hand, upcall>>

\* user_mem_check() of one page.
UserMemCheck(e, va, perm) ==
  mem.frame[<<e, va>>] # NoPage /\ perm \subseteq mem.perm[<<e, va>>]

\* Every program is loaded, and what it loaded it can write.
CowBoot ==
  /\ EnvCreate \/ \E va \in Image : RegionAlloc(va)
  /\ UNCHANGED <<fixVars, progVars>>

\* The environment is destroyed by its own exit() or by the kernel.
Gone(e) ==
  /\ Free(e)
  /\ Goto(e, "user")
  /\ Leave(e)
  /\ hand' = [hand EXCEPT ![e] = FALSE]
  /\ UNCHANGED <<upcall, starved>>

Exit(e) == At(e, "user") /\ Gone(e) /\ UNCHANGED fixVars

\* Where programs write: anywhere they have, and to the stack inside fork().
Writes(e) == IF pc[e] = "user" THEN {"text", "stack"}
             ELSE IF pc[e] = "panic" THEN {} ELSE {"stack"}

UserWrite(e, va, v) ==
  /\ Up(e) /\ fault[e] = NoVa /\ va \in Writes(e)
  /\ Write(e, va, v)
  /\ UNCHANGED <<fixVars, progVars>>

\* page_fault_handler() for a write: the upcall runs on the exception stack, or
\* the environment is destroyed.
PageFault(e, va) ==
  /\ Up(e) /\ fault[e] = NoVa /\ va \in Writes(e)
  /\ "W" \notin mem.perm[<<e, va>>]
  /\ IF upcall[e] /\ UserMemCheck(e, "xstk", {"W"})
     THEN /\ fault' = [fault EXCEPT ![e] = va]
          /\ UNCHANGED <<memVars, pc, child, at, pte, fpc, hand, upcall, starved>>
     ELSE Gone(e)
  /\ UNCHANGED fixVars

-----------------------------------------------------------------------------
(* pgfault().  Its test for a write to a page that is not copy-on-write is  *)
(* (err & FEC_WR) & !(..), which is always 0.                              *)

InFault(e, place) == Up(e) /\ pc[e] # "panic" /\ fault[e] # NoVa /\ fpc[e] = place

PgfaultAlloc(e) ==
  /\ InFault(e, "alloc")
  /\ SysPageAlloc(e, e, "tmp", {"W"})
  /\ IF CanAlloc(mem, e, "tmp")
     THEN /\ fpc' = [fpc EXCEPT ![e] = "copy"]
          /\ UNCHANGED <<pc, child, at, pte, fault, hand, upcall, starved>>
     ELSE UserPanic(e)
  /\ UNCHANGED fixVars

\* memmove(PFTEMP, addr, PGSIZE)
PgfaultCopy(e) ==
  /\ InFault(e, "copy")
  /\ Write(e, "tmp", mem.data[mem.frame[<<e, fault[e]>>]])
  /\ fpc' = [fpc EXCEPT ![e] = "map"]
  /\ UNCHANGED <<fixVars, pc, child, at, pte, fault, hand, upcall, starved>>

PgfaultMap(e) ==
  /\ InFault(e, "map")
  /\ SysPageMap(e, e, "tmp", e, fault[e], {"W"})
  /\ fpc' = [fpc EXCEPT ![e] = "unmap"]
  /\ UNCHANGED <<fixVars, pc, child, at, pte, fault, hand, upcall, starved>>

\* Back to the write that faulted.
PgfaultUnmap(e) ==
  /\ InFault(e, "unmap")
  /\ SysPageUnmap(e, e, "tmp")
  /\ fault' = [fault EXCEPT ![e] = NoVa]
  /\ fpc' = [fpc EXCEPT ![e] = "alloc"]
  /\ UNCHANGED <<fixVars, pc, child, at, pte, hand, upcall, starved>>

-----------------------------------------------------------------------------
(* fork() and fork_v0(), up to their loops.                                *)

\* The call itself writes to the stack.  set_pgfault_handler() has an exception
\* stack to make the first time.
ForkCall(e) ==
  /\ At(e, "user") /\ forks < Len(plan) /\ "W" \in mem.perm[<<e, "stack">>]
  /\ forks' = forks + 1
  /\ Goto(e, IF plan[forks + 1] = "fork_v0" THEN "exofork0"
             ELSE IF hand[e] THEN "exofork" ELSE "xalloc")
  /\ UNCHANGED <<memVars, plan, child, at, pte, fault, fpc, hand, upcall, starved>>

\* It returns without a word when there is no page for it.
HandlerAlloc(e) ==
  /\ At(e, "xalloc")
  /\ SysPageAlloc(e, e, "xstk", {"W"})
  /\ Goto(e, IF CanAlloc(mem, e, "xstk") THEN "upcall" ELSE "exofork")
  /\ starved' = (starved \/ ~CanAlloc(mem, e, "xstk"))
  /\ UNCHANGED <<fixVars, child, at, pte, fault, fpc, hand, upcall>>

HandlerUpcall(e) ==
  /\ At(e, "upcall") /\ UserMemCheck(e, "text", {})
  /\ upcall' = [upcall EXCEPT ![e] = TRUE]
  /\ hand' = [hand EXCEPT ![e] = TRUE]
  /\ Goto(e, "exofork")
  /\ UNCHANGED <<memVars, fixVars, child, at, pte, fault, fpc, starved>>

\* Where the calls of sys_exofork() are, and the loops after them.
Loops == [exofork |-> "page", exofork0 |-> "page0"]
InLoop(e) == \E place \in {"page", "page0"} : At(e, place)

\* env_alloc() clears env_pgfault_upcall.
Exofork(e, c) ==
  /\ \E place \in DOMAIN Loops : At(e, place) /\ Goto(e, Loops[place])
  /\ SysExofork(e, c)
  /\ child' = [child EXCEPT ![e] = c]
  /\ upcall' = [upcall EXCEPT ![c] = FALSE]
  /\ UNCHANGED <<fixVars, at, pte, fault, fpc, hand, starved>>

ExoforkFails(e) ==
  /\ \E place \in DOMAIN Loops : At(e, place)
  /\ mem.free = {} \/ \A c \in Env : state[c] # "FREE"
  /\ UserPanic(e) /\ UNCHANGED <<memVars, fixVars>>

-----------------------------------------------------------------------------
(* The loops: one page at a time.                                          *)

Done(e) == at[e] > Len(Order)
Here(e) == Order[at[e]]

\* fork() leaves out the exception stack, and both what is not mapped.
Skipped(e) == (pc[e] = "page" /\ Here(e) = "xstk") \/ mem.frame[<<e, Here(e)>>] = NoPage

NextPage(e, place) ==
  /\ Goto(e, place)
  /\ at' = [at EXCEPT ![e] = @ + 1]
  /\ pte' = [pte EXCEPT ![e] = {}]

SkipPage(e) ==
  /\ InLoop(e) /\ ~Done(e) /\ Skipped(e)
  /\ NextPage(e, pc[e])
  /\ UNCHANGED <<memVars, fixVars, child, fault, fpc, hand, upcall, starved>>

\* duppage() and dup_or_share() look at the entry once, before their calls.
ReadPte(e) ==
  /\ InLoop(e) /\ ~Done(e) /\ ~Skipped(e)
  /\ pte' = [pte EXCEPT ![e] = mem.perm[<<e, Here(e)>>]]
  /\ Goto(e, IF pc[e] = "page" THEN "dup" ELSE "dup0")
  /\ UNCHANGED <<memVars, fixVars, child, at, fault, fpc, hand, upcall, starved>>

\* A system call of the loop for the page at hand, then "place" or the next page.
MapStep(e, s, sva, d, dva, perm, place) ==
  /\ SysPageMap(e, s, sva, d, dva, perm)
  /\ IF MayMap(mem, s, sva, d, dva, perm)
     THEN /\ IF place \in {"page", "page0"} THEN NextPage(e, place)
             ELSE Goto(e, place) /\ UNCHANGED <<at, pte>>
          /\ UNCHANGED <<child, fault, fpc, hand, upcall, starved>>
     ELSE UserPanic(e)
  /\ UNCHANGED fixVars

\* Seeded fault: the parent's mapping is changed first.
IntoSwapped(e) == IF pc[e] = "dup" THEN e ELSE child[e]

\* duppage() maps a page into the child, then again into the parent.
Into(e) == IF pc[e] = "dup" THEN child[e] ELSE e

\* duppage(), the first call: the child's mapping.
DupChild(e) ==
  /\ At(e, "dup")
  /\ IF pte[e] \cap {"W", "COW"} # {}
     THEN MapStep(e, e, Here(e), Into(e), Here(e), {"COW"}, "own")
     ELSE MapStep(e, e, Here(e), child[e], Here(e), {}, "page")

\* Seeded fault: the parent keeps writing to the page it shares now.
DupOwnNot(e) ==
  /\ At(e, "own") /\ NextPage(e, "page")
  /\ UNCHANGED <<memVars, fixVars, child, fault, fpc, hand, upcall, starved>>

\* The second call: the parent's own mapping.
DupOwn(e) ==
  /\ At(e, "own")
  /\ MapStep(e, e, Here(e), Into(e), Here(e), {"COW"}, "page")

\* dup_or_share(): what is not writable is shared, copy-on-write pages included;
\* the rest is copied through UTEMP.
ShareV0(e) ==
  /\ At(e, "dup0") /\ "W" \notin pte[e]
  /\ MapStep(e, e, Here(e), child[e], Here(e), {}, "page0")

AllocV0(e) ==
  /\ At(e, "dup0") /\ "W" \in pte[e]
  /\ SysPageAlloc(e, child[e], Here(e), {"W"})
  /\ IF CanAlloc(mem, child[e], Here(e))
     THEN Goto(e, "utemp") /\ UNCHANGED <<child, at, pte, fault, fpc, hand, upcall, starved>>
     ELSE UserPanic(e)
  /\ UNCHANGED fixVars

MapV0(e) ==
  At(e, "utemp") /\ MapStep(e, child[e], Here(e), e, "tmp", {"W"}, "copy")

CopyV0(e) ==
  /\ At(e, "copy")
  /\ Write(e, "tmp", mem.data[mem.frame[<<e, Here(e)>>]])
  /\ Goto(e, "unmap")
  /\ UNCHANGED <<fixVars, child, at, pte, fault, fpc, hand, upcall, starved>>

UnmapV0(e) ==
  /\ At(e, "unmap")
  /\ SysPageUnmap(e, e, "tmp")
  /\ NextPage(e, "page0")
  /\ UNCHANGED <<fixVars, child, fault, fpc, hand, upcall, starved>>

-----------------------------------------------------------------------------
(* The end of fork() and of fork_v0().                                     *)

\* The child's exception stack is never shared.
ChildStack(e) ==
  /\ At(e, "page") /\ Done(e)
  /\ SysPageAlloc(e, child[e], "xstk", {"W"})
  /\ IF CanAlloc(mem, child[e], "xstk")
     THEN Goto(e, "childcall") /\ UNCHANGED <<child, at, pte, fault, fpc, hand, upcall, starved>>
     ELSE UserPanic(e)
  /\ UNCHANGED fixVars

\* Seeded fault: the child is left without an upcall.
ChildUpcallNot(e) ==
  /\ At(e, "childcall") /\ Goto(e, "start")
  /\ UNCHANGED <<memVars, fixVars, child, at, pte, fault, fpc, hand, upcall, starved>>

\* sys_env_set_pgfault_upcall(envid, thisenv->env_pgfault_upcall).  Without an
\* upcall of its own the parent passes 0, where nothing is mapped, and
\* user_mem_assert() destroys the child.
ChildUpcall(e) ==
  /\ At(e, "childcall")
  /\ IF upcall[e] /\ UserMemCheck(child[e], "text", {})
     THEN /\ upcall' = [upcall EXCEPT ![child[e]] = TRUE]
          /\ UNCHANGED <<memVars, child>>
     ELSE /\ Free(child[e])
          /\ child' = [child EXCEPT ![e] = NoEnv]
          /\ UNCHANGED upcall
  /\ Goto(e, "start")
  /\ UNCHANGED <<fixVars, at, pte, fault, fpc, hand, starved>>

\* sys_env_set_status(envid, ENV_RUNNABLE).  The child begins with its parent's
\* data, _pgfault_handler among it.
Start(e) ==
  /\ At(e, "start") \/ (At(e, "page0") /\ Done(e))
  /\ IF child[e] = NoEnv
     THEN UserPanic(e) /\ UNCHANGED memVars
     ELSE /\ SysEnvStart(e, child[e])
          /\ pc' = [pc EXCEPT ![e] = "user", ![child[e]] = "user"]
          /\ hand' = [hand EXCEPT ![child[e]] = hand[e]]
          /\ Leave(e)
          /\ UNCHANGED <<upcall, starved>>
  /\ UNCHANGED fixVars

-----------------------------------------------------------------------------
Runs(e) ==
  \/ Exit(e) \/ ForkCall(e) \/ HandlerAlloc(e) \/ HandlerUpcall(e)
  \/ \E va \in Va : PageFault(e, va) \/ \E v \in Value : UserWrite(e, va, v)
  \/ PgfaultAlloc(e) \/ PgfaultCopy(e) \/ PgfaultMap(e) \/ PgfaultUnmap(e)
  \/ \E c \in Env : Exofork(e, c)
  \/ ExoforkFails(e) \/ SkipPage(e) \/ ReadPte(e)
  \/ DupChild(e) \/ DupOwn(e)
  \/ ShareV0(e) \/ AllocV0(e) \/ MapV0(e) \/ CopyV0(e) \/ UnmapV0(e)
  \/ ChildStack(e) \/ ChildUpcall(e) \/ Start(e)

\* Every program has ended or panicked.
CowStopped ==
  /\ \A e \in Env : state[e] = "UP" => pc[e] = "panic"
  /\ state[Root] # "LOADING" /\ mem # NoMemory
  /\ UNCHANGED cowVars

CowNext == CowBoot \/ (\E e \in Env : Runs(e)) \/ CowStopped

CowSpec == CowInit /\ [][CowNext]_cowVars

-----------------------------------------------------------------------------
\* The environment that is in the middle of a fork() with child c.
Forking == {"page", "dup", "own", "page0", "dup0", "utemp", "copy", "unmap", "childcall", "start"}
Makers(c) ==
  {e \in Env : state[e] = "UP" /\ pc[e] \in Forking /\ child[e] = c}

\* The step of fork() that gives page va to child c is under way: the copy of
\* fork_v0() is not made, or the page is still the parent's too.
Filling(c, va) ==
  \E e \in Makers(c) :
    /\ \/ pc[e] \in {"utemp", "copy"}
       \/ pc[e] = "own" /\ mem.frame[<<e, va>>] = mem.frame[<<c, va>>]
    /\ Here(e) = va

Stage(e) ==
  CASE state[e] = "EMBRYO" -> IF Makers(e) = {} THEN "none" ELSE "made"
    [] state[e] = "FREE" -> "none"
    [] state[e] = "LOADING" -> "loading"
    [] OTHER -> "running"

Seen(e, va) ==
  IF Stage(e) = "none" \/ mem.frame[<<e, va>>] = NoPage \/ Filling(e, va) THEN NoVa
  ELSE mem.data[mem.frame[<<e, va>>]]

\* The environment whose fork() is making e.
Maker(e) == IF Stage(e) = "made" THEN CHOOSE m \in Makers(e) : TRUE ELSE NoEnv

\* The variables of Private.
Spaces == [e \in Env |-> [va \in Image |-> Seen(e, va)]]
Stages == [e \in Env |-> Stage(e)]
MakerOf == [e \in Env |-> Maker(e)]

P == INSTANCE Private WITH
  Pages <- Image, Nothing <- NoVa, Nobody <- NoEnv,
  space <- Spaces, stage <- Stages, maker <- MakerOf

\* fork() and fork_v0() give the child a copy of every page, and no write of one
\* program is seen by another, however their steps, faults and copies interleave.
ImplementsPrivate == P!Spec

\* A page somebody may write is mapped in no other program: the exceptions are
\* the child a fork() has not started and the page it is working on.
OwnPages ==
  \A s, t \in Env \X Va :
    /\ s[1] # t[1] /\ mem.frame[s] = mem.frame[t] /\ mem.frame[s] # NoPage
    /\ "W" \in mem.perm[s]
    => state[s[1]] = "EMBRYO" \/ state[t[1]] = "EMBRYO"

\* fork_v0() gives the child of a program that has forked _pgfault_handler, which
\* is data, and no upcall: set_pgfault_handler() then has nothing to do in that
\* child, and its own fork() makes copy-on-write pages that nobody handles.
ForksHalfArmed ==
  \E a, b, n \in DOMAIN plan :
    a < b /\ b < n /\ plan[a] = "fork" /\ plan[b] = "fork_v0" /\ plan[n] = "fork"

\* While no allocation has failed, a program that has a copy-on-write page has
\* what it takes to write it, an upcall and an exception stack of its own, unless
\* it may come from a fork() of a program that fork_v0() has half armed.
FaultsAreHandled ==
  ~starved /\ ~ForksHalfArmed =>
    \A e \in Env, va \in Va : state[e] = "UP" /\ "COW" \in mem.perm[<<e, va>>] =>
      upcall[e] /\ hand[e] /\ UserMemCheck(e, "xstk", {"W"})
=============================================================================
