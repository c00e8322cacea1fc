-------------------------------- MODULE Shell --------------------------------
(***************************************************************************)
(* The shell of lab8 (user/sh.c): it reads a line with its editing keys,   *)
(* cuts it into words where it stands, and runs its commands one after the *)
(* other.  The child that is forked for the line goes through it; for each *)
(* command that ends in ; it forks another and waits for it, and at the    *)
(* end it becomes the last command itself.  There are no pipes in this     *)
(* kernel: a | uses descriptors that nobody has set, and is left out.      *)
(* A character is a string of length 1; "q" is a quotation mark and "c" a  *)
(* word of its own, the command cd.                                        *)
(***************************************************************************)
EXTENDS Integers, Sequences, FiniteSets, FiniteSetsExt, SequencesExt

CONSTANTS
  Letter,            \* what words are made of
  Keys, Rare,        \* bound of the model: what is typed, some of it once
  BUFSIZE,           \* of readline
  EXEC_MAX_ARG_NUM,
  FileName,          \* the letters that are names of files, as words
  MaxKeys            \* bound of the model: keys in a session, before a
                     \* last newline; one of Rare counts for two

WHITESPACE == {" "}
SYMBOLS    == {"<", ">", ";", "&"}
Quote      == "q"

ShellAssumption ==
  /\ Letter \cap (WHITESPACE \cup SYMBOLS \cup {Quote}) = {}
  /\ Keys \cup Rare \subseteq Letter \cup WHITESPACE \cup SYMBOLS \cup
                           {Quote, "newline", "backspace", "interrupt", "eof"}
  /\ BUFSIZE \in Nat \ {0} /\ EXEC_MAX_ARG_NUM \in Nat \ {0} /\ MaxKeys \in Nat

VARIABLES
  at,     \* "readline", "runcmd", "stopped"
  typed,  \* history: keys
  buf,    \* the buffer of readline, and then of runcmd; "NUL" is its end
  cmd,    \* where gettoken goes on; 0 is NULL
  argv,   \* where the words of the command begin
  fds,    \* descriptors 0 and 1 of the child
  log,    \* history: the line, and what it has done; until the next key
  halted  \* the kernel has panicked

vars == <<at, typed, buf, cmd, argv, fds, log, halted>>

Console == <<"console">>
IsFile(w) == w \in {<<l>> : l \in FileName}
OwnFds  == [d \in {0, 1} |-> Console]
NoLog   == [line |-> <<>>, effects |-> <<>>, ended |-> "no"]

-----------------------------------------------------------------------------
(* readline.                                                               *)
Weight(keys) == Len(keys) + Cardinality({i \in DOMAIN keys : keys[i] \in Rare})

Types(key) ==
  /\ at = "readline" /\ ~halted
  /\ Weight(Append(typed, key)) <= MaxKeys + IF key = "newline" THEN 1 ELSE 0
  /\ key \in Rare \ {"eof"} => Range(typed) \cap Rare = {}
  /\ "eof" \notin Range(typed) \/ key = "eof"
  /\ typed' = Append(typed, key)

Edited(b, key) ==
  CASE key \in Letter \cup WHITESPACE \cup SYMBOLS \cup {Quote} ->
         IF Len(b) < BUFSIZE - 1 THEN Append(b, key) ELSE b
    [] key = "backspace" -> IF b # <<>> THEN Front(b) ELSE b
    [] OTHER -> b

Key(key) ==
  /\ Types(key)
  /\ key \notin {"newline", "interrupt", "eof"}
  /\ buf' = Edited(buf, key)
  /\ log' = NoLog
  /\ UNCHANGED <<at, cmd, argv, fds, halted>>

(* main forks a child for the line; without a process to be had its        *)
(* assertion ends the shell.  At its end the file gives one more line if   *)
(* there is something.                                                     *)
Line(key) ==
  /\ Types(key)
  /\ key = "newline" \/ (key = "eof" /\ buf # <<>>)
  /\ at' \in {"runcmd", "stopped"}
  /\ buf' = Append(buf, "NUL")
  /\ cmd' = 1
  /\ argv' = <<>>
  /\ fds' = OwnFds
  /\ log' = [NoLog EXCEPT !.line = buf]
  /\ UNCHANGED halted

Quits(key) ==
  /\ Types(key)
  /\ key = "interrupt" \/ (key = "eof" /\ buf = <<>>)
  /\ at' = "stopped"
  /\ UNCHANGED <<buf, cmd, argv, fds, log, halted>>

-----------------------------------------------------------------------------
(* gettoken: blanks before a token and the symbol itself become ends of    *)
(* strings, quotation marks blanks.  k is the kind, t where it begins.     *)
(* Mutant: the symbol is left where it is.                                 *)
CutKeeps(b, p, t, after) ==
  [i \in DOMAIN b |-> IF i \in p..(t - 1) THEN "NUL"
                      ELSE IF i \in t..(after - 1) /\ b[i] = Quote THEN " " ELSE b[i]]
Cut(b, p, t, after) ==
  [i \in DOMAIN b |->
    IF i \in p..(t - 1) \/ (i = t /\ i < after /\ b[i] \in SYMBOLS) THEN "NUL"
    ELSE IF i \in t..(after - 1) /\ b[i] = Quote THEN " " ELSE b[i]]

gettoken(b, p) ==
  LET t     == Min({i \in p..Len(b) : b[i] \notin WHITESPACE})
      ends  == {i \in t..Len(b) :
                 \/ b[i] = "NUL"
                 \/ /\ b[i] \in WHITESPACE \cup SYMBOLS
                    /\ Cardinality({j \in t..(i - 1) : b[j] = Quote}) % 2 = 0}
      after == IF b[t] \in SYMBOLS THEN t + 1 ELSE Min(ends)
  IN IF p = 0 THEN [k |-> "end", t |-> 0, p |-> 0, b |-> b]
     ELSE IF b[t] = "NUL" THEN [k |-> "end", t |-> 0, p |-> p, b |-> Cut(b, p, t, t)]
     ELSE [k |-> IF b[t] \in SYMBOLS THEN b[t] ELSE "w", t |-> t,
           p |-> IF b[after] = "NUL" THEN 0 ELSE after, b |-> Cut(b, p, t, after)]

Token == gettoken(buf, cmd)
StringAt(b, i) == SubSeq(b, i, Min({j \in i..Len(b) : b[j] = "NUL"}) - 1)

Runs(kind) == at = "runcmd" /\ ~halted /\ Token.k \in kind

(* The child exits, main has waited for it and reads the next line.        *)
Ends(how, effects) ==
  /\ at' = "readline"
  /\ buf' = <<>>
  /\ log' = [log EXCEPT !.ended = how, !.effects = effects]
  /\ cmd' = 0 /\ argv' = <<>> /\ fds' = OwnFds

Word ==
  /\ Runs({"w"}) /\ Len(argv) < EXEC_MAX_ARG_NUM
  /\ argv' = Append(argv, Token.t)
  /\ cmd' = Token.p
  /\ buf' = Token.b
  /\ UNCHANGED <<at, typed, fds, log, halted>>

(* Too many words, or an &.                                                *)
Refuses ==
  /\ \/ Runs({"w"}) /\ Len(argv) = EXEC_MAX_ARG_NUM
     \/ Runs({"&"})
  /\ Ends("error", log.effects)
  /\ UNCHANGED <<typed, halted>>

(* < and > with reopen: the file is opened in the place of the descriptor, *)
(* which is the first that is free then.  gettoken has not ended its word: *)
(* the name goes on to the end of the line.  > empties the file; a new     *)
(* file cannot be made: vop_create of a directory is not there, a panic.   *)
Redirect ==
  LET next == gettoken(Token.b, Token.p)
      name == StringAt(next.b, next.t)
      d    == IF Token.k = "<" THEN 0 ELSE 1
  IN /\ Runs({"<", ">"})
     /\ UNCHANGED typed
     /\ \/ next.k # "w" /\ Ends("error", log.effects) /\ UNCHANGED halted
        \/ /\ next.k = "w" /\ IsFile(name)
           /\ fds' = [fds EXCEPT ![d] = name]
           /\ log' = IF d = 0 THEN log
                     ELSE [log EXCEPT !.effects = Append(@, [empties |-> name])]
           /\ cmd' = next.p /\ buf' = next.b
           /\ UNCHANGED <<at, argv, halted>>
        \/ /\ next.k = "w" /\ ~IsFile(name) /\ d = 0
           /\ Ends("error", log.effects) /\ UNCHANGED halted
        \/ /\ next.k = "w" /\ ~IsFile(name) /\ d = 1
           /\ halted' = TRUE
           /\ UNCHANGED <<at, buf, cmd, argv, fds, log>>

(* runit: what the process that is left with argv does.  A name that is    *)
(* not in the working directory is looked for in the root; any other error *)
(* of testfile (no memory, no descriptor) leaves the command undone.  cd   *)
(* only moves this process.                                                *)
Undone == <<>>
Args(b) == [i \in DOMAIN argv |-> StringAt(b, argv[i])]
Run(b) ==
  LET args  == Args(b)
      found == IF IsFile(args[1]) THEN args[1] ELSE <<"/">> \o args[1]
  IN IF argv = <<>> \/ args[1] = <<"c">> THEN {log.effects}
     ELSE {Append(log.effects, [exec |-> e, args |-> Tail(args),
                                stdin |-> fds[0], stdout |-> fds[1]]) :
             e \in {found, Undone}}

(* A child runs the command, and the line goes on with the descriptors as  *)
(* they are; unless there is no process to be had.                         *)
Semicolon ==
  /\ Runs({";"})
  /\ \/ /\ \E effects \in Run(Token.b) : log' = [log EXCEPT !.effects = effects]
        /\ argv' = <<>>
        /\ cmd' = Token.p
        /\ buf' = Token.b
        /\ UNCHANGED <<at, fds>>
     \/ Ends("nofork", log.effects)
  /\ UNCHANGED <<typed, halted>>

LastCommand ==
  /\ Runs({"end"})
  /\ \E effects \in Run(Token.b) : Ends("all", effects)
  /\ UNCHANGED <<typed, halted>>

Init ==
  /\ at = "readline" /\ typed = <<>> /\ buf = <<>> /\ cmd = 0 /\ argv = <<>>
  /\ fds = OwnFds /\ log = NoLog /\ halted = FALSE

Next ==
  \/ \E key \in Keys \cup Rare : Key(key) \/ Line(key) \/ Quits(key)
  \/ Word \/ Refuses \/ Redirect \/ Semicolon \/ LastCommand

Spec == Init /\ [][Next]_vars

-----------------------------------------------------------------------------
(* What a line means.  A character is quoted if there is an odd number of  *)
(* quotation marks before it; words are as long as they can be.            *)
Quoted(l, i) == Cardinality({j \in 1..(i - 1) : l[j] = Quote}) % 2 = 1
InWord(l, i) == i \in DOMAIN l /\ (l[i] \notin WHITESPACE \cup SYMBOLS \/ Quoted(l, i))
IsSymbol(l, i) == l[i] \in SYMBOLS /\ ~Quoted(l, i)

Starts(l) == {i \in DOMAIN l : IsSymbol(l, i) \/ (InWord(l, i) /\ ~InWord(l, i - 1))}
(* A word's text, and rest, all of the line that follows it.               *)
TokenAt(l, i) ==
  LET e == Max({i} \cup {j \in i..Len(l) : \A x \in i..j : InWord(l, x)})
  IN [k    |-> IF IsSymbol(l, i) THEN l[i] ELSE "w",
      text |-> [j \in 1..(e - i + 1) |->
                 IF l[i + j - 1] = Quote THEN " " ELSE l[i + j - 1]],
      rest |-> SubSeq(l, e + 1, Len(l))]
Tokens(l) ==
  LET order == SetToSortSeq(Starts(l), <)
  IN [n \in DOMAIN order |-> TokenAt(l, order[n])]

Kind(t, i) == IF i \in DOMAIN t THEN t[i].k ELSE "end"
(* The words of the command that ends at the token e; what a redirection   *)
(* names is none of them.                                                  *)
Command(t, e) ==
  LET from == Max({0} \cup {i \in 1..(e - 1) : t[i].k = ";"})
  IN {i \in (from + 1)..(e - 1) : t[i].k = "w" /\ Kind(t, i - 1) \notin {"<", ">"}}
(* A redirection opens what stands behind it up to the end of the line, so *)
(* it is right only at that end.                                           *)
Opens(t, i) == Kind(t, i + 1) = "w" /\ t[i + 1].rest = <<>> /\ IsFile(t[i + 1].text)
Redirected(t, e, sym) ==
  IF Kind(t, e - 2) = sym THEN t[e - 1].text ELSE Console

(* The tokens that are mistakes, and those the line gets to: the ones      *)
(* before the first mistake, and its end if there is none.                 *)
Wrong(t) ==
  {i \in DOMAIN t :
     \/ t[i].k = "&"
     \/ t[i].k \in {"<", ">"} /\ ~Opens(t, i)
     \/ i \in Command(t, i + 1) /\ Cardinality(Command(t, i + 1)) > EXEC_MAX_ARG_NUM}
First(t) == Min(Wrong(t))
Good(t)  == IF Wrong(t) = {} THEN Len(t) + 1 ELSE First(t) - 1
(* A > with a word behind it that is no file.                              *)
Creates(t) == Wrong(t) # {} /\ Kind(t, First(t)) = ">" /\ Kind(t, First(t) + 1) = "w"

Effect(t, i) ==
  IF i \in DOMAIN t /\ t[i].k = ">" THEN <<[empties |-> t[i + 1].text]>>
  ELSE IF Kind(t, i) \notin {";", "end"} \/ Command(t, i) = {} THEN <<>>
  ELSE LET w == SetToSortSeq(Command(t, i), <)
           args == [n \in DOMAIN w |-> t[w[n]].text]
       IN IF args[1] = <<"c">> THEN <<>>
          ELSE <<[exec |-> IF IsFile(args[1]) THEN args[1] ELSE <<"/">> \o args[1],
                  args |-> Tail(args), stdin |-> Redirected(t, i, "<"),
                  stdout |-> Redirected(t, i, ">")]>>
Effects(t) == FlattenSeq([i \in 1..Good(t) |-> Effect(t, i)])

(* The commands that testfile left undone count as run.                    *)
AsMeant(effects, meant) ==
  /\ Len(effects) <= Len(meant)
  /\ \A i \in DOMAIN effects :
       \/ effects[i] = meant[i]
       \/ "exec" \in DOMAIN meant[i] /\ effects[i] = [meant[i] EXCEPT !.exec = Undone]

(* What was typed since the line before, as it is when it is edited.       *)
LineTyped ==
  LET from == Max({0} \cup {i \in DOMAIN typed : i < Len(typed) /\ typed[i] = "newline"})
  IN FoldLeft(Edited, <<>>, SubSeq(typed, from + 1, Len(typed) - 1))

(* A line is what was typed; its commands run in their order, each once,   *)
(* with their own words, though the buffer is cut up under way and shared  *)
(* by all the children.  If no fork fails, exactly the commands before the *)
(* first mistake run: a line without one to its end, any other up to       *)
(* there, where the line ends with an error; or the kernel stops, if it is *)
(* a > before a word that is not the name of a file.  A redirection is a   *)
(* mistake unless its name ends the line.  The next line begins on the     *)
(* console.                                                                *)
LinesRun ==
  LET tokens == Tokens(log.line)
      meant  == Effects(tokens)
      over   == log.ended \in {"all", "error"} \/ halted
  IN /\ at = "runcmd" => log.line = LineTyped
     /\ AsMeant(log.effects, meant)
     /\ over => /\ Len(log.effects) = Len(meant)
                /\ log.ended = "all" <=> Wrong(tokens) = {}
                /\ halted <=> Creates(tokens)
     /\ at = "readline" => fds = OwnFds
=============================================================================
