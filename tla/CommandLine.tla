----------------------------- MODULE CommandLine -----------------------------
(***************************************************************************)
(* How the programs read their options.  main looks at every argument in   *)
(* turn, also at one it has just read as a number; one that is an option   *)
(* takes the argument after it, whatever that is.  A number is read by     *)
(* operator>>, which leaves 0 when the text does not start with one; main  *)
(* says "Invalid" and goes on with that 0.  Characters after the number    *)
(* only earn a message.                                                    *)
(***************************************************************************)
EXTENDS Integers, Sequences

Options == {"-p", "-f"}

\* An argument is what it reads as: an option, a number, or neither.
Argument == [option : Options, number : {0}] \cup [option : {"none"}, number : Int]

Option(o) == [option |-> o, number |-> 0]
Number(n) == [option |-> "none", number |-> n]
NotANumberText == Number(0)

At(args, o) == {k \in DOMAIN args : args[k].option = o}

\* An option at the very end has nothing to read: argv[argc] is null.
Complete(args) == \A o \in Options : Len(args) \notin At(args, o)

\* The variable main reads an option into, once it has looked at k arguments.
ValueOf(args, o, default) ==
  LET value[k \in 0 .. Len(args)] ==
        IF k = 0 THEN default
        ELSE IF args[k].option = o THEN args[k + 1].number ELSE value[k - 1]
  IN  value[Len(args)]

PortOf(args) == ValueOf(args, "-p", 5000)

\* 15 frames a second unless asked for some, at most 60.
FrameRateOf(args) ==
  LET asked == ValueOf(args, "-f", 0)
  IN  IF asked # 0 /\ asked <= 60 THEN asked ELSE 15

=============================================================================
