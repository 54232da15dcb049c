---------------------------- MODULE ShellProofs ----------------------------
(* Proofs about the shell: its history array, its background processes and *)
(* the streams of its programs.                                            *)
EXTENDS Shell, TLAPS, FiniteSetTheorems, WellFoundedInduction

Redirs == [out : BOOLEAN, in : BOOLEAN, err : {"&1", "file", "none"}]
Types == {"PIPE", "NULL", "BACK", "EXEC", "none"}
Command == [type : Types, redir : Redirs, bad : BOOLEAN]
Stream == {"tty", "in", "out", "err"}
Streamed == [in : Stream, out : Stream, err : Stream]
Tty == [in |-> "tty", out |-> "tty", err |-> "tty"]
KidType == [st : {"none", "exec", "runs", "zombie"}, back : BOOLEAN, redir : Redirs,
            code : Raw \cup {0}, fd : Streamed]

JobsTyped ==
  /\ count \in Nat /\ k \in Nat /\ left \in Nat /\ failed \in BOOLEAN
  /\ parsed \in Command /\ kid \in [Kid -> KidType] /\ waited \in Kid \cup {NoKid}

LEMMA CommandField ==
  ASSUME NEW type \in Types, NEW redir \in Redirs, NEW bad \in BOOLEAN
  PROVE  [type |-> type, redir |-> redir, bad |-> bad] \in Command
BY Zenon DEF Command

LEMMA KidField ==
  ASSUME NEW st \in {"none", "exec", "runs", "zombie"}, NEW back \in BOOLEAN,
         NEW redir \in Redirs, NEW code \in Raw \cup {0}, NEW fd \in Streamed,
         NEW r, r = [st |-> st, back |-> back, redir |-> redir, code |-> code, fd |-> fd]
  PROVE  r \in KidType /\ r.st = st /\ r.back = back /\ r.fd = fd
<1>1. r \in KidType
  BY Zenon DEF KidType
<1>2. r.st = st /\ r.back = back /\ r.fd = fd
  BY Zenon
<1> QED BY <1>1, <1>2

LEMMA RedirTyped == ASSUME NEW words PROVE Redirections(words) \in Redirs
<1>1. \A word : Has(words, word) \in BOOLEAN
  BY DEF Has
<1> QED BY <1>1 DEF Redirections, Redirs

LEMMA NoneTyped == None \in Redirs /\ Nothing \in Command
<1>1. None \in Redirs
  BY RedirTyped DEF None
<1> QED BY <1>1 DEF Nothing, Command, Types

LEMMA ParseTyped == ASSUME NEW cells PROVE Parse(cells) \in Command
<1> DEFINE stages == Stages(cells)
           redir == Redirections(Foreground(stages[1]))
           bad == \E n \in DOMAIN stages : stages[n] = <<>>
<1>1. redir \in Redirs /\ None \in Redirs /\ bad \in BOOLEAN
  BY RedirTyped, NoneTyped
<1>2. \/ Parse(cells) = [type |-> "PIPE", redir |-> None, bad |-> bad]
      \/ Parse(cells) = [type |-> "NULL", redir |-> None, bad |-> TRUE]
      \/ Parse(cells) = [type |-> "BACK", redir |-> redir, bad |-> FALSE]
      \/ Parse(cells) = [type |-> "EXEC", redir |-> redir, bad |-> FALSE]
  <2>1. Parse(cells) =
          IF Len(stages) > 1 THEN [type |-> "PIPE", redir |-> None, bad |-> bad]
          ELSE IF stages[1] = <<>> THEN [type |-> "NULL", redir |-> None, bad |-> TRUE]
          ELSE [type |-> IF IsBack(stages[1]) THEN "BACK" ELSE "EXEC",
                redir |-> redir, bad |-> FALSE]
    BY Zenon DEF Parse
  <2> DEFINE back == IsBack(stages[1])
  <2> HIDE DEF stages, redir, bad, back
  <2>2. CASE Len(stages) > 1
    BY <2>1, <2>2
  <2>3. CASE ~(Len(stages) > 1) /\ stages[1] = <<>>
    BY <2>1, <2>3
  <2>4. CASE ~(Len(stages) > 1) /\ stages[1] # <<>> /\ back
    BY <2>1, <2>4 DEF back
  <2>5. CASE ~(Len(stages) > 1) /\ stages[1] # <<>> /\ ~back
    BY <2>1, <2>5 DEF back
  <2> QED BY <2>2, <2>3, <2>4, <2>5
<1> HIDE DEF stages, redir, bad
<1> QED BY <1>1, <1>2, CommandField DEF Types

LEMMA NewKidTyped ==
  ASSUME NEW cmd \in Command
  PROVE  /\ NewKid(cmd) \in KidType
         /\ NewKid(cmd).st = "exec" /\ NewKid(cmd).fd = Tty
         /\ NewKid(cmd).back = (cmd.type = "BACK")
<1> DEFINE b == cmd.type = "BACK"
<1>1. b \in BOOLEAN /\ cmd.redir \in Redirs
  BY DEF Command
<1>2. NewKid(cmd) = [st |-> "exec", back |-> b, redir |-> cmd.redir, code |-> 0, fd |-> Tty]
  BY Zenon DEF NewKid, Tty
<1> HIDE DEF b
<1>3. /\ NewKid(cmd) \in KidType /\ NewKid(cmd).st = "exec" /\ NewKid(cmd).fd = Tty
      /\ NewKid(cmd).back = b
  <2>1. Tty \in Streamed
    BY DEF Tty, Streamed, Stream
  <2>2. "exec" \in {"none", "exec", "runs", "zombie"} /\ 0 \in Raw \cup {0}
    OBVIOUS
  <2> QED BY <1>1, <1>2, <2>1, <2>2, KidField
<1> QED BY <1>3 DEF b

LEMMA ReapedTyped == Reaped \in KidType /\ Reaped.st = "none"
<1>1. NewKid(Nothing) \in KidType
  BY NewKidTyped, NoneTyped
<1> QED BY <1>1 DEF Reaped, KidType

LEMMA KidParts ==
  ASSUME NEW r \in KidType
  PROVE  /\ r.st \in {"none", "exec", "runs", "zombie"} /\ r.back \in BOOLEAN
         /\ r.redir \in Redirs /\ r.code \in Raw \cup {0} /\ r.fd \in Streamed
BY Zenon DEF KidType

LEMMA EndedLemma ==
  ASSUME NEW r \in KidType, NEW code \in Raw
  PROVE  /\ Ended(r, code) \in KidType /\ Ended(r, code).st = "zombie"
         /\ Ended(r, code).back = r.back
<1>1. PICK a, b, c, d, e :
        r = [st |-> a, back |-> b, redir |-> c, code |-> d, fd |-> e]
  <2>1. r = [st |-> r.st, back |-> r.back, redir |-> r.redir, code |-> r.code, fd |-> r.fd]
    BY Zenon DEF KidType
  <2> QED BY <2>1, Zenon
<1>2. r.back = b /\ r.redir = c /\ r.fd = e
  BY <1>1
<1> DEFINE u == [r EXCEPT !.st = "zombie"]
<1>3. u = [st |-> "zombie", back |-> b, redir |-> c, code |-> d, fd |-> e]
  BY <1>1
<1>4. Ended(r, code) = [u EXCEPT !.code = code]
  BY DEF Ended
<1> HIDE DEF u
<1>5. Ended(r, code) = [st |-> "zombie", back |-> b, redir |-> c, code |-> code, fd |-> e]
  BY <1>3, <1>4
<1>6. /\ b \in BOOLEAN /\ c \in Redirs /\ e \in Streamed /\ code \in Raw \cup {0}
      /\ "zombie" \in {"none", "exec", "runs", "zombie"}
  BY <1>2, KidParts
<1> QED BY <1>2, <1>5, <1>6, KidField

-----------------------------------------------------------------------------
(* The streams of a program.                                                *)

\* A child has its shell's streams until exec_cmd() has redirected them.
KidOK(r) ==
  /\ r.st = "exec" => r.fd = Tty
  /\ r.st = "runs" =>
       /\ r.fd.out = IF r.redir.out THEN "out" ELSE "tty"
       /\ r.redir.err = "&1" => r.fd.err = r.fd.out
       /\ r.redir.err = "file" => r.fd.err = "err"
       /\ r.redir.in /\ r.redir.err # "&1" => r.fd.in = "in"

LEMMA RedirectLemma ==
  ASSUME NEW r \in Redirs, NEW fd, fd = Redirect(r, Tty)
  PROVE  /\ fd \in Streamed
         /\ fd.out = IF r.out THEN "out" ELSE "tty"
         /\ r.err = "&1" => fd.err = fd.out
         /\ r.err = "file" => fd.err = "err"
         /\ r.in /\ r.err # "&1" => fd.in = "in"
<1> DEFINE out == IF r.out THEN [Tty EXCEPT !.out = "out"] ELSE Tty
           in == IF r.in THEN [out EXCEPT !.in = "in"] ELSE out
<1>1. /\ out \in Streamed /\ out.out = IF r.out THEN "out" ELSE "tty"
  BY DEF Tty, Streamed, Stream
<1> HIDE DEF out
<1>2. in \in Streamed /\ in.out = out.out /\ (r.in => in.in = "in")
  BY <1>1 DEF Streamed, Stream
<1> HIDE DEF in
<1>3. fd = IF r.err = "&1" THEN [in EXCEPT !.in = in.out, !.err = in.out]
           ELSE IF r.err = "file" THEN [in EXCEPT !.err = "err"] ELSE in
  BY DEF Redirect, in, out
<1>4. /\ in.out \in Stream /\ in.in \in Stream /\ in.err \in Stream
      /\ in = [in |-> in.in, out |-> in.out, err |-> in.err]
  BY <1>2 DEF Streamed
<1>5. CASE r.err = "&1"
  <2>1. fd = [in |-> in.out, out |-> in.out, err |-> in.out]
    BY <1>3, <1>4, <1>5
  <2> QED BY <1>1, <1>2, <1>4, <1>5, <2>1 DEF Streamed
<1>6. CASE r.err = "file"
  <2>1. fd = [in |-> in.in, out |-> in.out, err |-> "err"]
    BY <1>3, <1>4, <1>6
  <2> QED BY <1>1, <1>2, <1>4, <1>6, <2>1 DEF Streamed, Stream
<1>7. CASE r.err # "&1" /\ r.err # "file"
  <2>1. fd = in
    BY <1>3, <1>7
  <2> QED BY <1>1, <1>2, <1>7, <2>1
<1> QED BY <1>5, <1>6, <1>7

-----------------------------------------------------------------------------
(* The children that nobody has waited for.                                 *)

WaitedOK ==
  /\ pc \in {"read", "reap", "run", "fork"} => waited = NoKid
  /\ waited # NoKid => waited \in Alive
  /\ pc = "wait" /\ ~failed => waited # NoKid
  /\ pc = "reap" => k <= count

JobsInv == JobsTyped /\ (\A c \in Kid : KidOK(kid[c])) /\ WaitedOK /\ BackgroundCounted

LEMMA AliveKids == Alive \in SUBSET Kid /\ NoKid \notin Alive /\ NoKid \notin Kid
BY KidAssumption DEF Alive

LEMMA Counting ==
  /\ IsFiniteSet(Alive) /\ IsFiniteSet(Background)
  /\ Cardinality(Background) \in Nat /\ (Cardinality(Background) = 0 <=> Background = {})
  /\ Background = Alive \ {waited}
<1>1. Alive \in SUBSET Kid /\ Background \in SUBSET Kid /\ Background = Alive \ {waited}
  BY DEF Alive, Background
<1>2. IsFiniteSet(Alive) /\ IsFiniteSet(Background)
  <2>1. IsFiniteSet(Kid)
    BY KidAssumption
  <2> HIDE DEF Alive, Background
  <2> QED BY <1>1, <2>1, FS_Subset
<1> QED BY <1>1, <1>2, FS_CardinalityType, FS_EmptySet

LEMMA SetKid ==
  ASSUME JobsTyped, NEW c \in Kid, NEW r \in KidType, kid' = [kid EXCEPT ![c] = r]
  PROVE  /\ kid' \in [Kid -> KidType] /\ kid'[c] = r /\ \A d \in Kid \ {c} : kid'[d] = kid[d]
         /\ Alive' = IF r.st = "none" THEN Alive \ {c} ELSE Alive \cup {c}
<1>1. /\ kid' \in [Kid -> KidType] /\ kid'[c] = r /\ \A d \in Kid \ {c} : kid'[d] = kid[d]
  BY DEF JobsTyped
<1> QED BY <1>1 DEF Alive

\* A child that goes on, in another state.
LEMMA KidGoesOn ==
  ASSUME JobsInv, NEW c \in Kid, NEW r \in KidType, kid' = [kid EXCEPT ![c] = r],
         kid[c].st # "none", r.st # "none", r.back = kid[c].back, KidOK(r),
         UNCHANGED <<pc, count, k, left, status, parsed, waited, failed>>
  PROVE  JobsInv'
<1>1. /\ kid' \in [Kid -> KidType] /\ kid'[c] = r /\ \A d \in Kid \ {c} : kid'[d] = kid[d]
      /\ Alive' = Alive
  <2>1. JobsTyped /\ c \in Alive
    BY DEF JobsInv, Alive
  <2>2. /\ kid' \in [Kid -> KidType] /\ kid'[c] = r /\ \A d \in Kid \ {c} : kid'[d] = kid[d]
        /\ Alive' = IF r.st = "none" THEN Alive \ {c} ELSE Alive \cup {c}
    BY <2>1, SetKid
  <2> QED BY <2>1, <2>2
<1>2. JobsTyped' /\ WaitedOK'
  BY <1>1 DEF JobsInv, JobsTyped, WaitedOK
<1>3. \A d \in Kid : KidOK(kid[d])'
  BY <1>1 DEF JobsInv, KidOK
<1>4. Background' = Background /\ Owed' = Owed
  BY <1>1 DEF Background, Owed
<1>5. \A d \in Kid : kid'[d].back = kid[d].back
  BY <1>1
<1>6. BackgroundCounted'
  BY <1>4, <1>5, Counting DEF BackgroundCounted, JobsInv, Background, Alive
<1> QED BY <1>2, <1>3, <1>6 DEF JobsInv

LEMMA ExecutingLemma ==
  ASSUME NEW r \in KidType, r.fd = Tty
  PROVE  /\ Executing(r) \in KidType /\ Executing(r).st = "runs"
         /\ Executing(r).back = r.back /\ KidOK(Executing(r))
<1> DEFINE fd == Redirect(r.redir, Tty)
<1>1. PICK a, b, c, d, e :
        r = [st |-> a, back |-> b, redir |-> c, code |-> d, fd |-> e]
  <2>1. r = [st |-> r.st, back |-> r.back, redir |-> r.redir, code |-> r.code, fd |-> r.fd]
    BY Zenon DEF KidType
  <2> QED BY <2>1, Zenon
<1>2. r.back = b /\ r.redir = c /\ r.code = d
  BY <1>1
<1> DEFINE u == [r EXCEPT !.st = "runs"]
<1>3. u = [st |-> "runs", back |-> b, redir |-> c, code |-> d, fd |-> e] /\ e = Tty
  BY <1>1
<1>4. Executing(r) = [u EXCEPT !.fd = Redirect(r.redir, u.fd)]
  BY DEF Executing
<1> HIDE DEF u
<1>5. u.fd = Tty
  BY <1>3
<1>6. Executing(r) = [u EXCEPT !.fd = fd]
  BY <1>4, <1>5
<1>7. r.redir \in Redirs
  BY KidParts
<1>8. /\ fd \in Streamed
      /\ fd.out = IF r.redir.out THEN "out" ELSE "tty"
      /\ r.redir.err = "&1" => fd.err = fd.out
      /\ r.redir.err = "file" => fd.err = "err"
      /\ r.redir.in /\ r.redir.err # "&1" => fd.in = "in"
  BY <1>7, RedirectLemma
<1> HIDE DEF fd
<1>9. Executing(r) = [st |-> "runs", back |-> b, redir |-> c, code |-> d, fd |-> fd]
  BY <1>3, <1>6
<1>10. /\ b \in BOOLEAN /\ d \in Raw \cup {0} /\ c \in Redirs
       /\ "runs" \in {"none", "exec", "runs", "zombie"}
  BY <1>2, KidParts
<1>11. /\ Executing(r) \in KidType /\ Executing(r).st = "runs"
       /\ Executing(r).back = b /\ Executing(r).fd = fd
  BY <1>8, <1>9, <1>10, KidField
<1>12. Executing(r).redir = r.redir
  BY <1>2, <1>9
<1>13. KidOK(Executing(r))
  BY <1>8, <1>11, <1>12, Zenon DEF KidOK
<1> QED BY <1>2, <1>11, <1>13

LEMMA ExecInv == ASSUME JobsInv, NEW c \in Kid, Exec(c) PROVE JobsInv'
<1>1. kid[c] \in KidType /\ kid[c].st = "exec" /\ kid[c].fd = Tty
  BY DEF JobsInv, JobsTyped, KidOK, Exec
<1> DEFINE r == Executing(kid[c])
<1>2. r \in KidType /\ r.st = "runs" /\ r.back = kid[c].back /\ KidOK(r)
  BY <1>1, ExecutingLemma
<1>3. kid' = [kid EXCEPT ![c] = r]
  BY DEF Exec
<1> HIDE DEF r
<1> QED BY <1>1, <1>2, <1>3, KidGoesOn DEF Exec

LEMMA EndsInv == ASSUME JobsInv, NEW c \in Kid, Ends(c) PROVE JobsInv'
<1>0. \E code \in Raw : /\ kid[c].st = "exec" => code = 256
                        /\ kid' = [kid EXCEPT ![c] = Ended(@, code)]
  BY DEF Ends
<1>1. PICK code \in Raw : /\ kid[c].st = "exec" => code = 256
                         /\ kid' = [kid EXCEPT ![c] = Ended(@, code)]
  BY <1>0, Zenon
<1>2. kid[c] \in KidType /\ kid[c].st \in {"exec", "runs"}
  BY DEF JobsInv, JobsTyped, Ends
<1> DEFINE r == Ended(kid[c], code)
<1>3. r \in KidType /\ r.st = "zombie" /\ r.back = kid[c].back
  BY <1>2, EndedLemma
<1>4. kid' = [kid EXCEPT ![c] = r]
  BY <1>1
<1> HIDE DEF r
<1>5. KidOK(r)
  BY <1>3 DEF KidOK
<1> QED BY <1>2, <1>3, <1>4, <1>5, KidGoesOn DEF Ends


Working == {"read", "reap", "run", "fork", "wait"}

\* A step that leaves the children and what is owed for them alone.
LEMMA KidsKept ==
  ASSUME JobsInv, pc \in Working, kid' = kid, failed' = failed, waited' = waited,
         JobsTyped', WaitedOK', Owed' = Owed
  PROVE  JobsInv'
<1>1. \A c \in Kid : KidOK(kid[c])'
  BY DEF JobsInv, KidOK
<1>2. Background' = Background
  BY DEF Background, Alive
<1>3. BackgroundCounted'
  BY <1>2 DEF JobsInv, BackgroundCounted, Working
<1> QED BY <1>1, <1>3 DEF JobsInv

LEMMA KeepingInv ==
  ASSUME JobsInv,
         \/ EditLine \/ Enter \/ ReapEnds \/ Run \/ ForkNull \/ CtrlD \/ Die
  PROVE  JobsInv'
<1>1. pc \in Working /\ kid' = kid /\ failed' = failed /\ waited' = waited
  BY DEF Working, EditLine, Enter, ReapEnds, Run, ForkNull, CtrlD, Die, EmptyLine, RunBuiltin,
         ExitShell, ParseLine, jobVars
<1>2. ASSUME UNCHANGED jobVars, pc' \in Working \cup {"over", "dead"}, pc # "reap",
             pc' \notin {"reap", "wait"}, pc # "wait"
      PROVE  JobsInv'
  <2>1. JobsTyped'
    BY <1>2 DEF JobsInv, JobsTyped, jobVars
  <2>2. waited = NoKid
    BY <1>1, <1>2 DEF JobsInv, WaitedOK, Working
  <2>3. WaitedOK'
    BY <1>2, <2>2 DEF WaitedOK, jobVars
  <2>4. Owed' = Owed
    BY <1>2 DEF Owed, jobVars
  <2> QED BY <1>1, <2>1, <2>3, <2>4, KidsKept
<1>3. CASE EditLine \/ EmptyLine \/ RunBuiltin \/ ForkNull \/ CtrlD \/ Die
  BY <1>2, <1>3 DEF EditLine, EmptyLine, RunBuiltin, ForkNull, CtrlD, Die, Prompt, Working
<1>4. CASE Enter
  <2>1. JobsTyped'
    BY <1>4 DEF Enter, JobsInv, JobsTyped
  <2>2. WaitedOK' /\ Owed' = Owed
    BY <1>4 DEF Enter, WaitedOK, JobsInv, JobsTyped, Owed
  <2> QED BY <1>1, <2>1, <2>2, KidsKept
<1>5. CASE ReapEnds
  <2>1. JobsTyped'
    BY <1>5 DEF ReapEnds, JobsInv, JobsTyped
  <2>2. WaitedOK' /\ Owed' = Owed
    BY <1>5 DEF ReapEnds, WaitedOK, JobsInv, JobsTyped, Owed
  <2> QED BY <1>1, <2>1, <2>2, KidsKept
<1>6. CASE ExitShell
  <2>1. JobsTyped'
    BY <1>6 DEF ExitShell, JobsInv, JobsTyped
  <2>2. WaitedOK' /\ Owed' = Owed
    BY <1>6 DEF ExitShell, WaitedOK, JobsInv, JobsTyped, Owed
  <2> QED BY <1>1, <2>1, <2>2, KidsKept
<1>7. CASE ParseLine
  <2>1. parsed' = Parse(buffer) /\ pc = "run" /\ pc' = "fork"
        /\ UNCHANGED <<count, k, left, kid, waited, failed>>
    BY <1>7 DEF ParseLine
  <2>2. JobsTyped'
    BY <2>1, ParseTyped DEF JobsInv, JobsTyped
  <2>3. WaitedOK' /\ Owed' = Owed
    BY <2>1 DEF WaitedOK, JobsInv, JobsTyped, Owed
  <2> QED BY <1>1, <2>2, <2>3, KidsKept
<1> QED BY <1>3, <1>4, <1>5, <1>6, <1>7 DEF Run

LEMMA FirstOf ==
  ASSUME NEW T \in SUBSET Nat, T # {}
  PROVE  \E x \in T : \A y \in T : x <= y
<1>1. PICK x \in T : \A y \in T : <<y, x>> \notin OpToRel(<, Nat)
  BY NatLessThanWellFounded, WFMin
<1>2. \A y \in T : ~(y < x)
  BY <1>1 DEF OpToRel
<1> QED BY <1>2

\* NextKid is a pid that nobody has.
LEMMA FreshKid == Alive # Kid => NextKid \in Kid \ Alive
<1> SUFFICES ASSUME Alive # Kid PROVE NextKid \in Kid \ Alive
  OBVIOUS
<1>1. Kid \ Alive \in SUBSET Nat /\ Kid \ Alive # {}
  <2>1. Kid \subseteq Nat
    BY KidAssumption
  <2>2. Kid \ Alive # {}
    BY AliveKids
  <2> QED BY <2>1, <2>2
<1>2. \E c \in Kid \ Alive : \A d \in Kid \ Alive : c <= d
  BY <1>1, FirstOf
<1> QED BY <1>2 DEF NextKid

\* The counted child is one more; the one that is waited for is not counted.
LEMMA ForkInv == ASSUME JobsInv, NEW c \in Kid \ Alive, Fork(c) PROVE JobsInv'
<1> DEFINE r == NewKid(parsed)
<1>1. /\ pc = "fork" /\ kid' = [kid EXCEPT ![c] = r]
      /\ UNCHANGED <<k, left, status, failed>> /\ waited = NoKid /\ JobsTyped
  BY DEF Fork, JobsInv, WaitedOK
<1>2. r \in KidType /\ r.st = "exec" /\ r.fd = Tty /\ r.back = (parsed.type = "BACK")
  BY <1>1, NewKidTyped DEF JobsTyped
<1> HIDE DEF r
<1>3. /\ kid' \in [Kid -> KidType] /\ kid'[c] = r /\ \A d \in Kid \ {c} : kid'[d] = kid[d]
      /\ Alive' = Alive \cup {c}
  <2>1. r.st # "none"
    BY <1>2
  <2> QED BY <1>1, <1>2, <2>1, SetKid
<1>4. \A d \in Kid : KidOK(kid[d])'
  BY <1>2, <1>3 DEF JobsInv, KidOK
<1>5. /\ IsFiniteSet(Background) /\ Cardinality(Background) \in Nat
      /\ Background = Alive
  <2>1. Background = Alive \ {waited}
    BY Counting
  <2> QED BY <1>1, <2>1, Counting, AliveKids
<1>6. CASE parsed.type = "BACK"
  <2>1. /\ count' = count + 1 /\ waited' = NoKid /\ pc' = "read" /\ parsed' = Nothing
    BY <1>6 DEF Fork, Counted, Prompt
  <2>2. JobsTyped' /\ WaitedOK'
    BY <1>1, <1>3, <2>1, NoneTyped DEF JobsTyped, WaitedOK
  <2>3. Background' = Background \cup {c} /\ c \notin Background
    <3>1. Background' = Alive' \ {waited'}
      BY Zenon DEF Background
    <3> QED BY <1>3, <1>5, <2>1, <3>1, AliveKids
  <2>4. Cardinality(Background') = Cardinality(Background) + 1
    BY <1>5, <2>3, FS_AddElement
  <2>5. Owed' = Owed + 1 /\ Owed \in Nat
    BY <1>1, <2>1 DEF Owed, JobsTyped
  <2>6. \A d \in Background' : d # c => d \in Background /\ kid'[d] = kid[d]
    BY <1>3, <2>3 DEF Background, Alive
  <2>7. kid'[c].back
    BY <1>2, <1>3, <1>6
  <2>8. BackgroundCounted'
    BY <1>1, <1>5, <2>4, <2>5, <2>6, <2>7 DEF BackgroundCounted, JobsInv
  <2> QED BY <1>4, <2>2, <2>8 DEF JobsInv
<1>7. CASE parsed.type # "BACK"
  <2>1. count' = count /\ waited' = c /\ pc' = "wait" /\ parsed' = parsed
    BY <1>7 DEF Fork
  <2>2. JobsTyped' /\ WaitedOK'
    <3>1. JobsTyped'
      BY <1>1, <1>3, <2>1 DEF JobsTyped
    <3>2. c \in Alive' /\ c # NoKid
      BY <1>3, AliveKids
    <3> QED BY <2>1, <3>1, <3>2 DEF WaitedOK
  <2>3. Background' = Background /\ c \notin Background
    BY <1>3, <1>5, <2>1 DEF Background, Alive
  <2>4. Owed' = Owed
    BY <1>1, <2>1 DEF Owed
  <2>5. \A d \in Background : kid'[d] = kid[d]
    BY <1>3, <2>3 DEF Background, Alive
  <2>6. BackgroundCounted'
    BY <1>1, <2>3, <2>4, <2>5 DEF BackgroundCounted, JobsInv
  <2> QED BY <1>4, <2>2, <2>6 DEF JobsInv
<1> QED BY <1>6, <1>7

LEMMA ForkFailsInv == ASSUME JobsInv, ForkFails PROVE JobsInv'
<1>1. /\ pc = "fork" /\ kid' = kid /\ failed' = TRUE /\ waited' = NoKid /\ waited = NoKid
      /\ UNCHANGED <<k, left, status>> /\ JobsTyped /\ pc' \in {"read", "wait"}
      /\ count' \in {count, count + 1} /\ parsed' \in {parsed, Nothing}
  BY DEF ForkFails, JobsInv, WaitedOK, Counted, Prompt
<1>2. JobsTyped' /\ WaitedOK'
  BY <1>1, NoneTyped DEF JobsTyped, WaitedOK
<1>3. \A c \in Kid : KidOK(kid[c])'
  BY <1>1 DEF JobsInv, KidOK
<1>4. Background' = Background
  BY <1>1 DEF Background, Alive
<1>5. Owed' >= Owed /\ Owed \in Nat /\ Owed' \in Nat
  <2>1. count \in Nat /\ count' \in Nat /\ count' >= count
    BY <1>1 DEF JobsTyped
  <2>2. Owed = count /\ Owed' = count'
    BY <1>1 DEF Owed
  <2> QED BY <2>1, <2>2
<1>6. BackgroundCounted'
  BY <1>1, <1>4, <1>5, Counting DEF BackgroundCounted, JobsInv
<1> QED BY <1>2, <1>3, <1>6 DEF JobsInv

\* One child fewer, in wait_back_processes() or after the command.
LEMMA OneFewer ==
  ASSUME JobsInv, NEW c \in Alive, Reap(c)
  PROVE  /\ kid' \in [Kid -> KidType] /\ \A d \in Kid : KidOK(kid[d])'
         /\ Alive' = Alive \ {c} /\ \A d \in Kid \ {c} : kid'[d] = kid[d]
<1>1. c \in Kid /\ kid' = [kid EXCEPT ![c] = Reaped] /\ JobsTyped
  BY AliveKids DEF Reap, JobsInv
<1>2. /\ kid' \in [Kid -> KidType] /\ kid'[c] = Reaped /\ \A d \in Kid \ {c} : kid'[d] = kid[d]
      /\ Alive' = Alive \ {c}
  BY <1>1, ReapedTyped, SetKid
<1>3. \A d \in Kid : KidOK(kid[d])'
  BY <1>2, ReapedTyped DEF JobsInv, KidOK
<1> QED BY <1>2, <1>3

\* wait_back_processes(): each round takes one from what is owed, or moves one
\* that still runs to updated_count.
LEMMA ReapOneInv == ASSUME JobsInv, ReapOne PROVE JobsInv'
<1>1. /\ pc = "reap" /\ k < count /\ k' = k + 1 /\ JobsTyped
      /\ UNCHANGED <<pc, count, parsed, waited, failed>> /\ waited = NoKid
  BY DEF ReapOne, JobsInv, WaitedOK
<1>2. WaitedOK'
  BY <1>1 DEF WaitedOK, JobsTyped
<1>3. Background = Alive /\ Background' = Alive'
  <2>1. Background' = Alive' \ {waited'} /\ Background = Alive \ {waited}
    BY Zenon DEF Background
  <2>2. NoKid \notin Alive'
    BY KidAssumption DEF Alive
  <2> QED BY <1>1, <2>1, <2>2, AliveKids
<1>4. Owed = (count - k) + left /\ Owed' = (count - (k + 1)) + left' /\ Owed \in Nat
  BY <1>1 DEF Owed, JobsTyped
<1>5. ASSUME NEW c \in Zombies, Reap(c), left' = left PROVE JobsInv'
  <2>1. c \in Alive
    BY DEF Zombies, Alive
  <2>2. /\ kid' \in [Kid -> KidType] /\ \A d \in Kid : KidOK(kid[d])'
        /\ Alive' = Alive \ {c} /\ \A d \in Kid \ {c} : kid'[d] = kid[d]
    BY <1>5, <2>1, OneFewer
  <2>3. JobsTyped'
    BY <1>1, <1>5, <2>2 DEF JobsTyped
  <2>4. Cardinality(Background') = Cardinality(Background) - 1 /\ Cardinality(Background) \in Nat
    BY <1>3, <2>1, <2>2, Counting, FS_RemoveElement
  <2>5. Owed' = Owed - 1
    BY <1>1, <1>4, <1>5 DEF JobsTyped
  <2>6. \A d \in Background' : d \in Background /\ kid'[d] = kid[d]
    BY <1>3, <2>2, AliveKids
  <2>7. BackgroundCounted'
    BY <1>1, <1>4, <2>4, <2>5, <2>6 DEF BackgroundCounted, JobsInv
  <2> QED BY <1>2, <2>2, <2>3, <2>7 DEF JobsInv
<1>6. ASSUME kid' = kid,
             \/ left' = left + 1
             \/ Alive = {} /\ left' = left
      PROVE  JobsInv'
  <2>1. JobsTyped'
    BY <1>1, <1>6 DEF JobsTyped
  <2>2. \A d \in Kid : KidOK(kid[d])'
    BY <1>6 DEF JobsInv, KidOK
  <2>3. Alive' = Alive
    BY <1>6 DEF Alive
  <2>4. \/ Owed' = Owed
        \/ Background = {} /\ Owed' = Owed - 1 /\ Owed > 0
    BY <1>1, <1>3, <1>4, <1>6 DEF JobsTyped
  <2>5. BackgroundCounted'
    BY <1>1, <1>3, <1>4, <1>6, <2>3, <2>4, Counting DEF BackgroundCounted, JobsInv
  <2> QED BY <1>2, <2>1, <2>2, <2>5 DEF JobsInv
<1> QED BY <1>5, <1>6 DEF ReapOne

LEMMA FinishLemma ==
  ASSUME NEW raw, Finish(raw)
  PROVE  waited' = NoKid /\ parsed' = Nothing /\ pc' \in {"read", "dead"}
BY DEF Finish, Prompt

LEMMA WaitPidInv == ASSUME JobsInv, NEW c \in Kid, WaitPid(c) PROVE JobsInv'
<1>1. /\ pc = "wait" /\ c \in Zombies /\ waited \in {c, NoKid}
      /\ kid' = [kid EXCEPT ![c] = Reaped] /\ UNCHANGED <<count, k, left, failed>>
      /\ JobsTyped /\ (~failed => waited = c)
      /\ waited' = NoKid /\ parsed' = Nothing /\ pc' \in {"read", "dead"}
  BY FinishLemma DEF WaitPid, WaitFor, JobsInv, WaitedOK
<1>2. c \in Alive /\ JobsTyped
  BY <1>1 DEF Zombies, Alive
<1>3. /\ kid' \in [Kid -> KidType] /\ kid'[c] = Reaped /\ \A d \in Kid \ {c} : kid'[d] = kid[d]
      /\ Alive' = Alive \ {c}
  BY <1>1, ReapedTyped, SetKid
<1>4. \A d \in Kid : KidOK(kid[d])'
  BY <1>3, ReapedTyped DEF JobsInv, KidOK
<1>5. JobsTyped' /\ WaitedOK'
  BY <1>1, <1>3, NoneTyped DEF JobsTyped, WaitedOK
<1>6. Background' = Background \ {c} /\ (waited = c => c \notin Background)
  <2>1. Background' = Alive' \ {waited'} /\ Background = Alive \ {waited}
    BY Zenon DEF Background
  <2> QED BY <1>1, <1>3, <2>1, AliveKids
<1>7. Owed' = Owed /\ Owed \in Nat
  BY <1>1 DEF Owed, JobsTyped
<1>8. /\ Cardinality(Background') \in Nat /\ Cardinality(Background) \in Nat
      /\ Cardinality(Background') <= Cardinality(Background)
      /\ waited = c => Background' = Background
  <2>1. IsFiniteSet(Background) /\ Cardinality(Background) \in Nat
    BY Counting
  <2>2. /\ IsFiniteSet(Background \ {c})
        /\ Cardinality(Background \ {c}) = IF c \in Background THEN Cardinality(Background) - 1
                                          ELSE Cardinality(Background)
    BY <2>1, FS_RemoveElement
  <2>3. Cardinality(Background \ {c}) \in Nat
    BY <2>2, FS_CardinalityType
  <2>4. waited = c => Background' = Background
    BY <1>6
  <2> QED BY <1>6, <2>1, <2>2, <2>3, <2>4
<1>9. \A d \in Background' : d \in Background /\ kid'[d] = kid[d]
  BY <1>3, <1>6, AliveKids, Counting
<1>10. BackgroundCounted'
  BY <1>1, <1>7, <1>8, <1>9 DEF BackgroundCounted, JobsInv
<1> QED BY <1>4, <1>5, <1>10 DEF JobsInv

LEMMA NobodyInv == ASSUME JobsInv, NobodyToWait PROVE JobsInv'
<1>1. /\ pc = "wait" /\ waited = NoKid /\ UNCHANGED <<count, k, left, kid, failed>>
      /\ waited' = NoKid /\ parsed' = Nothing /\ pc' \in {"read", "dead"} /\ JobsTyped
  BY FinishLemma DEF NobodyToWait, JobsInv
<1>2. JobsTyped' /\ WaitedOK'
  BY <1>1, NoneTyped DEF JobsTyped, WaitedOK
<1>3. Owed' = Owed
  BY <1>1 DEF Owed
<1> QED BY <1>1, <1>2, <1>3, KidsKept DEF Working

LEMMA JobsStep == JobsInv /\ [Next]_vars => JobsInv'
<1> SUFFICES ASSUME JobsInv, [Next]_vars PROVE JobsInv'
  OBVIOUS
<1>1. CASE UNCHANGED vars
  <2>1. UNCHANGED <<pc, count, k, left, parsed, kid, waited, failed>>
    BY <1>1 DEF vars, jobVars
  <2>2. JobsTyped' /\ WaitedOK'
    BY <2>1 DEF JobsInv, JobsTyped, WaitedOK, Alive
  <2>3. (\A c \in Kid : KidOK(kid[c]))' /\ BackgroundCounted'
    BY <2>1 DEF JobsInv, KidOK, BackgroundCounted, Owed, Background, Alive
  <2> QED BY <2>2, <2>3 DEF JobsInv
<1>2. CASE EditLine \/ Enter \/ ReapEnds \/ Run \/ ForkNull \/ CtrlD \/ Die
  BY <1>2, KeepingInv
<1>3. CASE ReapOne
  BY <1>3, ReapOneInv
<1>4. CASE ForkFails
  BY <1>4, ForkFailsInv
<1>5. CASE Alive # Kid /\ Fork(NextKid)
  BY <1>5, FreshKid, ForkInv
<1>6. CASE NobodyToWait
  BY <1>6, NobodyInv
<1>7. ASSUME NEW c \in Kid, WaitPid(c) \/ Exec(c) \/ Ends(c) PROVE JobsInv'
  BY <1>7, WaitPidInv, ExecInv, EndsInv
<1> QED BY <1>1, <1>2, <1>3, <1>4, <1>5, <1>6, <1>7 DEF Next, Forking, Waiting

LEMMA JobsStart == Init => JobsInv
<1> SUFFICES ASSUME Init PROVE JobsInv
  OBVIOUS
<1>1. /\ pc = "read" /\ count = 0 /\ k = 0 /\ left = 0 /\ parsed = Nothing
      /\ kid = [c \in Kid |-> Reaped] /\ waited = NoKid /\ failed = FALSE
  BY DEF Init
<1>2. JobsTyped /\ WaitedOK
  BY <1>1, NoneTyped, ReapedTyped DEF JobsTyped, WaitedOK
<1>3. \A c \in Kid : KidOK(kid[c])
  BY <1>1, ReapedTyped DEF KidOK
<1>4. Alive = {}
  BY <1>1, ReapedTyped DEF Alive
<1>5. Background = {} /\ Owed = 0
  BY <1>1, <1>4 DEF Background, Owed
<1>6. BackgroundCounted
  BY <1>5, Counting DEF BackgroundCounted
<1> QED BY <1>2, <1>3, <1>6 DEF JobsInv

LEMMA JobsAlways == Spec => []JobsInv
BY JobsStart, JobsStep, PTL DEF Spec

\* back_process_count, less what wait_back_processes() has gone through, is never
\* under the number of children that nobody has waited for, and is that number
\* exactly when no fork() has failed: for any number of children, any lines and
\* any statuses (run_cmd() and wait_back_processes() of src/shell/runcmd.c).
THEOREM BackgroundCountedCorrect == Spec => []BackgroundCounted
<1>1. JobsInv => BackgroundCounted
  BY DEF JobsInv
<1> QED BY <1>1, JobsAlways, PTL

\* Every program runs with the streams of its redirections, in whichever order
\* they were written (exec_cmd() of src/shell/exec.c).
THEOREM StreamsCorrect == Spec => []Streams
<1>1. JobsInv => Streams
  BY Zenon DEF JobsInv, KidOK, Streams
<1> QED BY <1>1, JobsAlways, PTL

-----------------------------------------------------------------------------
(* The history array.                                                       *)

IsSeq(s) == \E S : s \in Seq(S)
ArrayInv == IsSeq(lines) /\ alloc \in Nat \ {0} /\ HistoryHeld

LEMMA SaveInv == ASSUME ArrayInv, NEW text, Save(text) PROVE ArrayInv'
<1>1. PICK S : lines \in Seq(S)
  BY DEF ArrayInv, IsSeq
<1>2. lines' = Append(lines, text) /\ lines \in Seq(S \cup {text}) /\ text \in S \cup {text}
  BY <1>1 DEF Save
<1>3. lines' \in Seq(S \cup {text}) /\ Len(lines') = Len(lines) + 1 /\ Len(lines) \in Nat
  BY <1>2
<1>4. IsSeq(lines')
  BY <1>3 DEF IsSeq
<1>5. alloc' \in Nat \ {0} /\ Len(lines) + 1 <= alloc'
  BY <1>3 DEF Save, Grown, Grow, ArrayInv, HistoryHeld
<1> QED BY <1>3, <1>4, <1>5 DEF ArrayInv, HistoryHeld

LEMMA ArrayKept == ASSUME ArrayInv, UNCHANGED <<lines, alloc>> PROVE ArrayInv'
BY DEF ArrayInv, IsSeq, HistoryHeld

LEMMA ArrayStep == ArrayInv /\ [Next]_vars => ArrayInv'
<1> SUFFICES ASSUME ArrayInv, [Next]_vars PROVE ArrayInv'
  OBVIOUS
<1>1. CASE UNCHANGED vars
  BY <1>1, ArrayKept DEF vars, histVars
<1>2. CASE EditLine
  BY <1>2, ArrayKept DEF EditLine, Edit, Type, Delete, Up, UpNothing, Down, DownNothing,
                         DownJunk, UpJunk, histVars
<1>3. CASE Enter \/ ReapOne \/ ReapEnds \/ EmptyLine \/ ForkNull \/ ForkFails \/ NobodyToWait
           \/ CtrlD \/ Die
  BY <1>3, ArrayKept DEF Enter, ReapOne, ReapEnds, EmptyLine, ForkNull, ForkFails, NobodyToWait,
                         CtrlD, Die, histVars
<1>4. CASE RunBuiltin \/ ExitShell \/ ParseLine
  BY <1>4, SaveInv DEF RunBuiltin, ExitShell, ParseLine
<1>5. ASSUME NEW c \in Kid \cup {NextKid}, Fork(c) \/ WaitPid(c) \/ Exec(c) \/ Ends(c)
      PROVE  ArrayInv'
  BY <1>5, ArrayKept DEF Fork, WaitPid, Exec, Ends, histVars
<1> QED BY <1>1, <1>2, <1>3, <1>4, <1>5 DEF Next, Run, Forking, Waiting

LEMMA ArrayStart == Init => ArrayInv
<1> SUFFICES ASSUME Init PROVE ArrayInv
  OBVIOUS
<1>1. lines \in Seq(Seq(STRING)) /\ Len(lines) \in Nat /\ alloc \in Loaded(Len(lines))
  BY HistoryAssumption DEF Init, HistoryInit
<1>2. alloc \in Nat /\ Len(lines) < alloc
  <2>1. alloc \in Len(lines) + 1 .. Max({Initial + 1, Len(lines) * Grow})
    BY <1>1 DEF Loaded
  <2>2. alloc \in Int /\ Len(lines) + 1 <= alloc
    BY <1>1, <2>1
  <2> QED BY <1>1, <2>2
<1> QED BY <1>1, <1>2 DEF ArrayInv, IsSeq, HistoryHeld

\* Commands are only stored inside history_arr, whatever its first size, however
\* many lines ~/.sisop_history has and however many are saved
\* (_save_command_in_memory() and load_history() of src/shell/history.c).
THEOREM HistoryHeldCorrect == Spec => []HistoryHeld
<1>1. ArrayInv => HistoryHeld
  BY DEF ArrayInv
<1> QED BY <1>1, ArrayStart, ArrayStep, PTL DEF Spec
=============================================================================
