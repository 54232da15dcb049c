------------------------------- MODULE Shell -------------------------------
(***************************************************************************)
(* The shell of src/shell: run_cmd() of runcmd.c with the parser, the      *)
(* builtins, the redirections of exec_cmd() and the background processes.  *)
(* What a pipeline does with its pipes is in PipeTree.                     *)
(***************************************************************************)
EXTENDS History, Integers

CONSTANTS
  Kid,      \* bound: the children that the shell has not waited for
  Raw,      \* the values of status that waitpid() may return
  NoKid

ASSUME KidAssumption == Kid \in SUBSET Nat /\ IsFiniteSet(Kid) /\ NoKid \notin Kid
ASSUME RawAssumption == Raw \in SUBSET (0..65535)

VARIABLES
  pc,        \* "read", "reap", "run", "fork", "wait", or the shell is "over" or "dead"
  count,     \* back_process_count
  k, left,   \* i and updated_count of wait_back_processes()
  status,    \* status
  parsed,    \* the command being run
  kid,       \* the children
  waited,    \* the pid in waitpid(p, ...): NoKid when fork() failed
  failed     \* history: some fork() has failed

jobVars == <<count, k, left, status, parsed, kid, waited, failed>>
vars == <<editVars, histVars, pc, jobVars>>

-----------------------------------------------------------------------------
(* parse_line()                                                            *)

Text == TextFrom(buffer, 1)

\* split_line(): the stages from cell s on.  The right half is whatever follows the
\* '|', or the end of the string when there is none, up to the next end.
Stages(cells) ==
  LET from[s \in 1..Len(cells)] ==
        LET cut == Min({n \in s..Len(cells) : cells[n] \in {"|", End}})
        IN  <<SubSeq(cells, s, cut - 1)>> \o
            (IF cut = Len(cells) \/ cells[cut + 1] = End THEN <<>> ELSE from[cut + 1])
  IN  from[1]

Has(words, word) == \E n \in DOMAIN words : words[n] = word

\* parse_cmd(): the first '&' makes the command a background one, unless '>' is before it.
Ampersands(words) == {n \in DOMAIN words : words[n] \in {"&", "2>&1"}}
IsBack(words) == Ampersands(words) # {} /\ words[Min(Ampersands(words))] = "&"
Foreground(words) ==
  IF IsBack(words) THEN SubSeq(words, 1, Min(Ampersands(words)) - 1) ELSE words

\* parse_exec() and parse_redir_flow().
Redirections(words) ==
  [out |-> Has(words, ">f"), in |-> Has(words, "<f"),
   err |-> IF Has(words, "2>&1") THEN "&1" ELSE IF Has(words, "2>f") THEN "file" ELSE "none"]
None == Redirections(<<>>)

\* parse_line() and pipe_cmd_create(): an empty left half is a null pointer.
Parse(cells) ==
  LET stages == Stages(cells)
      words == stages[1]
  IN  IF Len(stages) > 1
        THEN [type |-> "PIPE", redir |-> None, bad |-> \E n \in DOMAIN stages : stages[n] = <<>>]
      ELSE IF words = <<>> THEN [type |-> "NULL", redir |-> None, bad |-> TRUE]
      ELSE [type |-> IF IsBack(words) THEN "BACK" ELSE "EXEC",
            redir |-> Redirections(Foreground(words)), bad |-> FALSE]

Nothing == [type |-> "none", redir |-> None, bad |-> FALSE]

-----------------------------------------------------------------------------
(* Children                                                                *)

NewKid(cmd) == [st |-> "exec", back |-> cmd.type = "BACK", redir |-> cmd.redir, code |-> 0,
                fd |-> [in |-> "tty", out |-> "tty", err |-> "tty"]]
Reaped == [NewKid(Nothing) EXCEPT !.st = "none"]

Alive == {c \in Kid : kid[c].st # "none"}
NextKid == CHOOSE c \in Kid \ Alive : \A d \in Kid \ Alive : c <= d
Zombies == {c \in Kid : kid[c].st = "zombie"}

\* Seeded fault: stderr is redirected first.
RedirectErrFirst(r, fd) ==
  LET err == IF r.err = "&1" THEN [fd EXCEPT !.in = fd.out, !.err = fd.out]
             ELSE IF r.err = "file" THEN [fd EXCEPT !.err = "err"] ELSE fd
      out == IF r.out THEN [err EXCEPT !.out = "out"] ELSE err
  IN  IF r.in THEN [out EXCEPT !.in = "in"] ELSE out

\* exec_cmd() of a REDIR: stdout, stdin, stderr.  For 2>&1 fd_err is 0, so that
\* stdout is copied over stdin first and stderr is then a copy of that.
Redirect(r, fd) ==
  LET out == IF r.out THEN [fd EXCEPT !.out = "out"] ELSE fd
      in  == IF r.in THEN [out EXCEPT !.in = "in"] ELSE out
  IN  IF r.err = "&1" THEN [in EXCEPT !.in = in.out, !.err = in.out]
      ELSE IF r.err = "file" THEN [in EXCEPT !.err = "err"] ELSE in

Executing(child) == [child EXCEPT !.st = "runs", !.fd = Redirect(child.redir, @)]
Ended(child, code) == [child EXCEPT !.st = "zombie", !.code = code]

\* A child in exec_cmd().  A file that cannot be opened ends it with EXIT_FAILURE.
Exec(c) ==
  /\ kid[c].st = "exec"
  /\ kid' = [kid EXCEPT ![c] = Executing(@)]
  /\ UNCHANGED <<editVars, histVars, pc, count, k, left, status, parsed, waited, failed>>

Ends(c) ==
  /\ kid[c].st = "runs" \/ (kid[c].st = "exec" /\ kid[c].redir # None)
  /\ \E code \in Raw :
       /\ kid[c].st = "exec" => code = 256
       /\ kid' = [kid EXCEPT ![c] = Ended(@, code)]
  /\ UNCHANGED <<editVars, histVars, pc, count, k, left, status, parsed, waited, failed>>

-----------------------------------------------------------------------------
(* wait_back_processes()                                                   *)

Enter ==
  /\ pc = "read"
  /\ buffer' = [buffer EXCEPT ![i + 1] = End]
  /\ pc' = "reap" /\ k' = 0 /\ left' = 0
  /\ UNCHANGED <<i, histVars, count, status, parsed, kid, waited, failed>>

Reap(c) == kid' = [kid EXCEPT ![c] = Reaped] /\ status' = kid[c].code

ReapOne ==
  /\ pc = "reap" /\ k < count
  /\ \/ \E c \in Zombies : Reap(c) /\ UNCHANGED left
     \/ Zombies = {} /\ Alive # {} /\ left' = left + 1 /\ UNCHANGED <<kid, status>>
     \/ Alive = {} /\ UNCHANGED <<kid, status, left>>
  /\ k' = k + 1
  /\ UNCHANGED <<editVars, histVars, pc, count, parsed, waited, failed>>

ReapEnds ==
  /\ pc = "reap" /\ k = count
  /\ count' = left /\ pc' = "run" /\ k' = 0 /\ left' = 0
  /\ UNCHANGED <<editVars, histVars, status, parsed, kid, waited, failed>>

-----------------------------------------------------------------------------
(* The rest of run_cmd()                                                   *)

\* read_line() of the next prompt.
Prompt == pc' = "read" /\ buffer' = Blank /\ i' = 0

EmptyLine ==
  /\ pc = "run" /\ Text = <<>>
  /\ Prompt /\ UNCHANGED <<histVars, jobVars>>

Builtin == {"history", "cd", "pwd", "exit"}
IsBuiltin(text) == text[1] \in Builtin /\ (text[1] \in {"pwd", "exit"} => Len(text) = 1)

\* history, cd and pwd, when they succeed.
RunBuiltin ==
  /\ pc = "run" /\ Text # <<>> /\ IsBuiltin(Text) /\ Text # <<"exit">>
  /\ Save(Text) /\ Prompt
  /\ UNCHANGED jobVars

ExitShell ==
  /\ pc = "run" /\ Text = <<"exit">>
  /\ Save(Text) /\ pc' = "over" /\ status' = 1
  /\ UNCHANGED <<editVars, count, k, left, parsed, kid, waited, failed>>

\* A line that is no builtin is run as a program, and so are a cd or a pwd that fail.
ParseLine ==
  /\ pc = "run" /\ Text # <<>> /\ Text # <<"exit">>
  /\ IF Text[1] \in {"cd", "pwd"} /\ IsBuiltin(Text) THEN status' = 1 ELSE UNCHANGED status
  /\ Text # <<"history">>
  /\ Save(Text)
  /\ parsed' = Parse(buffer) /\ pc' = "fork"
  /\ UNCHANGED <<editVars, count, k, left, kid, waited, failed>>

\* Seeded fault: the counter is set, not incremented.
CountedOnce(n) == 1

Counted(n) == n + 1

\* parsed->pid of a null pointer.
ForkNull ==
  /\ pc = "fork" /\ parsed.type = "NULL"
  /\ pc' = "dead" /\ UNCHANGED <<editVars, histVars, jobVars>>

Fork(c) ==
  /\ pc = "fork" /\ parsed.type # "NULL"
  /\ kid' = [kid EXCEPT ![c] = NewKid(parsed)]
  /\ IF parsed.type = "BACK"
       THEN count' = Counted(count) /\ Prompt /\ waited' = NoKid /\ parsed' = Nothing
       ELSE pc' = "wait" /\ waited' = c /\ UNCHANGED <<editVars, count, parsed>>
  /\ UNCHANGED <<histVars, k, left, status, failed>>

\* fork() returns -1, which run_cmd() takes for the pid of the child.
ForkFails ==
  /\ pc = "fork" /\ parsed.type # "NULL"
  /\ failed' = TRUE /\ waited' = NoKid
  /\ IF parsed.type = "BACK" THEN count' = Counted(count) /\ Prompt /\ parsed' = Nothing
                             ELSE pc' = "wait" /\ UNCHANGED <<editVars, count, parsed>>
  /\ UNCHANGED <<histVars, k, left, status, kid>>

\* print_status_info(): WEXITSTATUS, -WTERMSIG or -WSTOPSIG.
Decode(raw) ==
  LET low == raw % 128
      high == (raw \div 256) % 256
  IN  IF low = 0 THEN high ELSE IF low # 127 THEN -low ELSE -high

Shown(raw) == IF parsed.type = "PIPE" THEN raw ELSE Decode(raw)

\* After waitpid(): free_command() follows the null pointer of an empty half.
Finish(raw) ==
  /\ status' = Shown(raw) /\ waited' = NoKid /\ parsed' = Nothing
  /\ IF parsed.bad THEN pc' = "dead" /\ UNCHANGED editVars ELSE Prompt

\* Seeded fault: the shell waits for whichever child ends first.
WaitForAny(c) == TRUE

\* waitpid(p, &status, 0), and waitpid(-1, &status, 0) when there is no p.
WaitFor(c) == waited \in {c, NoKid}

WaitPid(c) ==
  /\ pc = "wait" /\ c \in Zombies /\ WaitFor(c)
  /\ kid' = [kid EXCEPT ![c] = Reaped]
  /\ Finish(kid[c].code)
  /\ UNCHANGED <<histVars, count, k, left, failed>>

NobodyToWait ==
  /\ pc = "wait" /\ waited = NoKid /\ Alive = {}
  /\ Finish(status)
  /\ UNCHANGED <<histVars, count, k, left, kid, failed>>

-----------------------------------------------------------------------------
\* The end of the input.
CtrlD ==
  /\ pc = "read" /\ pc' = "over"
  /\ UNCHANGED <<editVars, histVars, jobVars>>

EditLine == pc = "read" /\ Edit /\ UNCHANGED <<pc, jobVars>>

\* The wild reads of the arrows, and whatever comes of a smashed heap.
Die ==
  /\ \/ pc = "read" /\ DeadArrow
     \/ pc \in {"run", "fork"} /\ smashed
  /\ pc' = "dead" /\ UNCHANGED <<editVars, histVars, jobVars>>

Init ==
  /\ HistoryInit
  /\ pc = "read" /\ count = 0 /\ k = 0 /\ left = 0 /\ status = 0
  /\ parsed = Nothing /\ kid = [c \in Kid |-> Reaped]
  /\ waited = NoKid /\ failed = FALSE

Run == EmptyLine \/ RunBuiltin \/ ExitShell \/ ParseLine
Forking == ForkNull \/ ForkFails \/ (Alive # Kid /\ Fork(NextKid))
Waiting == NobodyToWait \/ \E c \in Kid : WaitPid(c)

Next ==
  \/ EditLine \/ Enter \/ ReapOne \/ ReapEnds \/ Run \/ Forking \/ Waiting
  \/ CtrlD \/ Die
  \/ \E c \in Kid : Exec(c) \/ Ends(c)

Spec == Init /\ [][Next]_vars

\* Somebody goes on pressing Enter, and programs in the foreground end.
Fairness ==
  /\ SF_vars(Enter) /\ WF_vars(ReapOne \/ ReapEnds)
  /\ WF_vars(Run) /\ WF_vars(Forking) /\ WF_vars(Waiting)
  /\ \A c \in Kid : WF_vars(Exec(c)) /\ WF_vars(Ends(c) /\ ~kid[c].back)

FairSpec == Spec /\ Fairness

-----------------------------------------------------------------------------
\* The children that nobody has waited for are all in back_process_count, so that
\* the next loop asks for each; and, unless a fork() has failed, it counts nothing
\* else and the foreground leaves nobody behind.
Owed == IF pc = "reap" THEN count - k + left ELSE count
Background == {c \in Alive : c # waited}
BackgroundCounted ==
  pc \in {"read", "reap", "run", "fork", "wait"} =>
    /\ Owed >= Cardinality(Background)
    /\ ~failed => /\ Owed = Cardinality(Background)
                  /\ \A c \in Background : kid[c].back

\* A program's streams are the files of its redirections, and 2>&1 sends its
\* errors where its output goes, in whichever order they are written
\* (shell.md:44); stdin is lost to 2>&1.
Streams ==
  \A c \in Kid : kid[c].st = "runs" =>
    LET r == kid[c].redir
        fd == kid[c].fd
    IN  /\ fd.out = IF r.out THEN "out" ELSE "tty"
        /\ r.err = "&1" => fd.err = fd.out
        /\ r.err = "file" => fd.err = "err"
        /\ r.in /\ r.err # "&1" => fd.in = "in"

\* Zombies do not pile up: "cada vez que se ingresa un comando, se hace un wait()
\* con el flag WNOHANG por cada uno" (shell.md:35).
ZombiesReaped ==
  \A c \in Kid : kid[c].st = "zombie" ~> (kid[c].st # "zombie" \/ pc \in {"over", "dead"})

\* "Splits a string line in two according to the splitter character" (utils.c:4):
\* a line without '|' is not a pipeline.
SplitsAtPipes ==
  pc = "fork" /\ lines # <<>> =>
    (parsed.type = "PIPE" => Has(lines[Len(lines)], "|"))
=============================================================================
