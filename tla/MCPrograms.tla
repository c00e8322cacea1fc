----------------------------- MODULE MCPrograms ------------------------------
(***************************************************************************)
(* What programs of lab8 rely on, three systems that TLC checks one after  *)
(* the other: their registers, stacks and address spaces across traps      *)
(* (Context), their library of strings and formats, which is the kernel's  *)
(* too (Libs), and the shell (Shell).  system is the one that runs; the    *)
(* others stay at their beginning.  The first is Context itself, with its  *)
(* property.                                                               *)
(***************************************************************************)
EXTENDS Context

CONSTANTS
  Size, MaxChar, MaxLen,
  IntBits, LongBits, Values, Sizes,
  Letter, Keys, Rare, BUFSIZE, EXEC_MAX_ARG_NUM, FileName, MaxKeys

VARIABLES
  system,
  mem, call, done, input, output,                                \* Libs
  at, typed, buf, cmd, argv, fds, log, halted                    \* Shell

libs  == <<mem, call, done, input, output>>
shell == <<at, typed, buf, cmd, argv, fds, log, halted>>

Libs  == INSTANCE Libs
Shell == INSTANCE Shell

ASSUME ProgramsAssumption ==
  Libs!LibsAssumption /\ Shell!ShellAssumption

AllInit ==
  /\ system \in {"threads", "libs", "shell"}
  /\ Init /\ Libs!Init /\ Shell!Init

AllNext ==
  /\ UNCHANGED system
  /\ \/ system = "threads" /\ Next /\ UNCHANGED <<libs, shell>>
     \/ system = "libs" /\ Libs!Next /\ UNCHANGED <<vars, shell>>
     \/ system = "shell" /\ Shell!Next /\ UNCHANGED <<vars, libs>>

AllSpec == AllInit /\ [][AllNext]_<<system, vars, libs, shell>>

-----------------------------------------------------------------------------
(* The functions of string.c and the formats of printfmt.c do what their   *)
(* comments say, on every string and value of a small size.                *)
TextRight == Libs!StringsRight /\ Libs!PrintsMeant /\ Libs!ReadsMeant

(* The shell runs the commands of a line in their order up to the first    *)
(* mistake and no further, a redirection being one unless its name ends    *)
(* the line; how the line ends says which (runcmd and gettoken in sh.c).   *)
LinesRun == Shell!LinesRun
=============================================================================
