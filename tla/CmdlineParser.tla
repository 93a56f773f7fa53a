----------------------------- MODULE CmdlineParser -----------------------------
(****************************************************************************)
(* The parser of the command line (cli/cmdline/parser.go) with its tables   *)
(* of commands and options (cli/cmdline/config.go).                         *)
(*                                                                          *)
(* An argument is a token: the name of a command, one of the names of an    *)
(* option, or a word.  The regular expressions of the tables become sets of *)
(* tokens.  The state machine only enumerates command lines.                *)
(****************************************************************************)
EXTENDS Naturals, Sequences, SequencesExt

CONSTANTS
  Words,      \* tokens that name nothing
  Lists,      \* words that match ^[A-Za-z_]+(,\s*[A-Za-z_]+)?$
  Numbers,    \* words that match ^[0-9]+$
  Intervals,  \* words that match ^[1-9][0-9]*(ms|s|m)$
  NoHosts,    \* words that do not match ^(https?://)?[^:]+(:[0-9]+)?$
  Typed,      \* bound: the tokens command lines are made of
  MaxLength   \* bound: how many

ASSUME WordsAssumption == Lists \cup Numbers \cup Intervals \cup NoHosts \subseteq Words

--------------------------------------------------------------------------------
(* config.go                                                                *)

(* A command takes minArgs to maxArgs arguments.                            *)
Command(name, minArgs, maxArgs) ==
  [name |-> name, minArgs |-> minArgs, maxArgs |-> maxArgs]

Commands ==
  { Command("start", 0, 0), Command("connect", 1, 1), Command("disconnect", 0, 0),
    Command("get", 1, 1), Command("put", 1, 1), Command("post", 1, 1),
    Command("set", 2, 2), Command("unset", 1, 2), Command("ping", 0, 0),
    Command("pid", 0, 0), Command("push-list", 0, 0), Command("stream-info", 0, 0),
    Command("stop", 0, 0), Command("wiretap", 2, 2), Command("version", 0, 0) }

CommandNames == {c.name : c \in Commands}

AreArgsValid(cmd, args) == cmd.name = "connect" => args[1] \notin NoHosts

(* Every name matches the expression for lists, but those with a hyphen.    *)
FrameLists == Lists \cup (CommandNames \ {"push-list", "stream-info"})

(* An option without a parameter has param = {}; "any" stands for a         *)
(* parameter that is not restricted.                                        *)
AnyParam == {"any"}
Option(short, long, commands, param) ==
  [short |-> short, long |-> long, commands |-> commands, param |-> param]

WithBody    == {"put", "post"}
WithHeaders == {"get"} \cup WithBody

(* The table in its order, which is the order of parseOptions and of        *)
(* findCommand.                                                             *)
Options ==
  << Option("-i", "--include", {"start"}, FrameLists),
     Option("-e", "--exclude", {"start"}, FrameLists),
     Option("-i", "--include", WithHeaders, {}),
     Option("-c", "--closed", {"stream-info"}, {}),
     Option("-t", "--timeout", WithHeaders, Numbers),
     Option("-c", "--content-type", WithBody, AnyParam),
     Option("-h", "--help", CommandNames, {}),
     Option("-d", "--dump", {"start"}, {}),
     Option("-d", "--data", WithBody, AnyParam),
     Option("-f", "--file", WithBody, AnyParam),
     Option("-i", "--interval", {"ping"}, Intervals),
     Option("-s", "--stop", {"ping"}, {}) >>

Names(opt) == {opt.short, opt.long}
HasParam(opt) == opt.param # {}
IsParamValid(opt, token) == opt.param = AnyParam \/ token \in opt.param
SupportsCommand(opt, name) == name \in opt.commands

--------------------------------------------------------------------------------
(* parser.go                                                                *)

Failure(error) == [error |-> error, name |-> "", args |-> << >>, options |-> {}]

(* Fault: the parameter of an option is not skipped.                        *)
SkipOne(opt) == 1

(* How many arguments an option and its parameter take.                     *)
Width(opt) == IF HasParam(opt) THEN 2 ELSE 1

(* Fault: options before the command are not looked past.                   *)
FirstArgument(args) ==
  IF args # << >> /\ args[1] \in CommandNames THEN args[1] ELSE ""

(* findCommand: the first argument, unless it is an option; whose option it *)
(* is, is not known yet, and the first of the table with its name counts.   *)
FindCommand(args) ==
  LET find[n \in 0 .. Len(args)] ==
        LET token == args[Len(args) - n + 1]
            k == SelectInSeq(Options, LAMBDA opt : token \in Names(opt))
        IN  IF n = 0 THEN ""
            ELSE IF token = "--version" THEN "version"
            ELSE IF token \in CommandNames THEN token
            ELSE IF k = 0 \/ Width(Options[k]) > n THEN ""
            ELSE find[n - Width(Options[k])]
  IN  find[Len(args)]

(* append(args[:i], args[i+2:]...)                                          *)
Without(args, opt, i) ==
  SubSeq(args, 1, i - 1) \o SubSeq(args, i + Width(opt), Len(args))

(* One round of parseOptions: the first occurrence of the option, its       *)
(* parameter whatever it looks like, and both are taken out.                *)
ParseOption(found, opt) ==
  LET i == SelectInSeq(found.args, LAMBDA token : token \in Names(opt))
  IN  IF found.failed \/ i = 0 THEN found
      ELSE IF ~HasParam(opt)
      THEN [found EXCEPT !.args = Without(@, opt, i),
                         !.options = @ \cup {<<opt.long, "">>}]
      ELSE IF Len(found.args) <= i \/ ~IsParamValid(opt, found.args[i + 1])
      THEN [found EXCEPT !.failed = TRUE]
      ELSE [found EXCEPT !.args = Without(@, opt, i),
                         !.options = @ \cup {<<opt.long, found.args[i + 1]>>}]

ParseOptions(args, name) ==
  FoldLeft(ParseOption, [args |-> args, options |-> {}, failed |-> FALSE],
           SelectSeq(Options, LAMBDA opt : SupportsCommand(opt, name)))

(* The checks of Parse after the options: --help, the number of arguments,  *)
(* and the arguments.  remaining is what is left of the command line, the   *)
(* command first; nothing is left of -d post.                               *)
Checked(name, remaining, options) ==
  LET cmd  == CHOOSE c \in Commands : c.name = name
      args == SubSeq(remaining, 2, Len(remaining))
  IN  IF <<"--help", "">> \in options THEN Failure("help")
      ELSE IF \/ Len(remaining) < cmd.minArgs + 1
              \/ Len(remaining) > cmd.maxArgs + 1
              \/ args # << >> /\ ~AreArgsValid(cmd, args)
      THEN Failure("usage")
      ELSE [error |-> "", name |-> name, args |-> args, options |-> options]

Parse(args) ==
  LET name   == FindCommand(args)
      parsed == ParseOptions(args, name)
  IN  IF name = "" \/ (Len(args) = 1 /\ args[1] \in {"-h", "--help"})
      THEN Failure("no command")
      ELSE IF parsed.failed THEN Failure("syntax")
      ELSE Checked(name, parsed.args, parsed.options)

--------------------------------------------------------------------------------
VARIABLE line

Init == line = << >>

Type(token) ==
  /\ Len(line) < MaxLength
  /\ line' = Append(line, token)

Next == \E token \in Typed : Type(token)

Spec == Init /\ [][Next]_line

--------------------------------------------------------------------------------
(* Properties                                                               *)

OptionsOf(name) == {opt \in ToSet(Options) : SupportsCommand(opt, name)}
NamesOf(name)   == UNION {Names(opt) : opt \in OptionsOf(name)}
OptionOf(name, token) == CHOOSE opt \in OptionsOf(name) : token \in Names(opt)

(* The reference: read the arguments of the command once, from left to      *)
(* right.  An option takes the token after it, other tokens are arguments.  *)
LeftToRight(args, name) ==
  LET read[n \in 0 .. Len(args)] ==    \* the last n tokens
        LET i == Len(args) - n + 1
            opt == OptionOf(name, args[i])
        IN  IF n = 0 THEN [args |-> << >>, options |-> {}, failed |-> FALSE]
            ELSE IF args[i] \notin NamesOf(name)
            THEN LET rest == read[n - 1]
                 IN  [rest EXCEPT !.args = <<args[i]>> \o @]
            ELSE IF ~HasParam(opt)
            THEN LET rest == read[n - 1]
                 IN  [rest EXCEPT !.options = @ \cup {<<opt.long, "">>}]
            ELSE IF n = 1 \/ ~IsParamValid(opt, args[i + 1])
            THEN [args |-> << >>, options |-> {}, failed |-> TRUE]
            ELSE LET rest == read[n - 2]
                 IN  [rest EXCEPT !.options = @ \cup {<<opt.long, args[i + 1]>>}]
      all == read[Len(args)]
  IN  IF all.failed THEN Failure("syntax")
      ELSE Checked(name, <<name>> \o all.args, all.options)

(* No option is given twice, and no parameter looks like an option.         *)
IsPlain(args, name) ==
  /\ \A i, j \in DOMAIN args :
       i # j /\ args[i] \in NamesOf(name) /\ args[j] \in NamesOf(name) =>
         OptionOf(name, args[i]) # OptionOf(name, args[j])
  /\ \A i \in 1 .. Len(args) - 1 :
       args[i] \in NamesOf(name) /\ HasParam(OptionOf(name, args[i])) =>
         args[i + 1] \notin NamesOf(name)

(* Taking the options out in the order of the table gives what reading from *)
(* left to right gives, the errors included: the order in which options are *)
(* typed does not matter (Parse, parseOptions).                             *)
ReadsLeftToRight ==
  line # << >> /\ line[1] \in CommandNames /\ IsPlain(Tail(line), line[1]) =>
    Parse(line) = LeftToRight(Tail(line), line[1])

(* No other option has the name of this one.                                *)
IsUnambiguous(token) ==
  \E opt \in ToSet(Options) :
    token \in Names(opt) /\ \A o \in ToSet(Options) \ {opt} : token \notin Names(o)

(* An option may stand before the command as well as after it, if it is not *)
(* one of those whose names several commands use (findCommand).             *)
OptionMayComeFirst ==
  \A n \in {2, 3} \cap DOMAIN line :
    LET moved == <<line[n]>> \o SubSeq(line, 1, n - 1) \o SubSeq(line, n + 1, Len(line))
    IN  /\ line[n] \in CommandNames
        /\ IsUnambiguous(line[1]) /\ line[1] \in NamesOf(line[n])
        /\ n = 1 + Width(OptionOf(line[n], line[1]))
        /\ IsPlain(Tail(moved), line[n])
        => Parse(line) = Parse(moved)
================================================================================
