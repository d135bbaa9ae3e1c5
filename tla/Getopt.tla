------------------------------- MODULE Getopt --------------------------------
(***************************************************************************)
(* src/kernel/getopt.c: the option parser of the built-in commands.  A     *)
(* call returns one option; optind and _next, which survive from one call  *)
(* to the next and from one argument vector to the next, say where the     *)
(* parse is.  An argument is a word, "--", a cluster of letters after "-", *)
(* or a long option.                                                       *)
(***************************************************************************)
EXTENDS Integers, SequencesExt

CONSTANTS
  OptString,     \* optstring: a sequence of letters and ":"
  Silent,        \* does it begin with ":"
  LongOpts,      \* longopts: from a name to no, required or optional
  Argvs,         \* the argument vectors callers pass, without argv[0]
  Letters, Names, Values,  \* what options are written with, and what follows a "="
  None           \* a null optarg

VARIABLES
  fn,        \* the function this parse calls
  argv,
  optind,    \* optind: 1 is the first argument after the program's name
  next,      \* the letters _next points to, empty also when it is null
  left,      \* what next was when this parse began
  returned,  \* what the calls of this parse returned
  over       \* has a call returned -1

vars == <<fn, argv, optind, next, left, returned, over>>

Word         == [kind |-> "word"]
Separator    == [kind |-> "separator"]
Cluster(s)   == [kind |-> "cluster", letters |-> s]
Text(s)      == [kind |-> "text", letters |-> s]
Long(n, val) == [kind |-> "long", name |-> n, value |-> val]

\* "-" alone is a word: a cluster has a letter.
IsToken(t) ==
  \/ t \in {Word, Separator}
  \/ t.kind = "cluster" /\ t.letters \in Seq(Letters) \ {<<>>} /\ t = Cluster(t.letters)
  \/ t.kind = "long" /\ t.name \in Names /\ t.value \in Values \cup {None} /\ t = Long(t.name, t.value)

ASSUME ArgumentAssumption ==
  /\ LongOpts \in [DOMAIN LongOpts -> {"no", "required", "optional"}]
  /\ \A args \in Argvs : Len(args) \in Nat /\ args = [k \in 1 .. Len(args) |-> args[k]]
                         /\ \A k \in 1 .. Len(args) : IsToken(args[k])

\* What a call returns: the option and its optarg, or the error and optopt.
Opt(o, arg)  == [opt |-> o, arg |-> arg]
Invalid(o)   == [bad |-> o]
Missing(o)   == [missing |-> o, as |-> IF Silent THEN ":" ELSE "?"]

Init ==
  /\ fn \in {"getopt", "getopt_long"} /\ argv \in Argvs
  /\ optind = 1 /\ next = <<>> /\ left = <<>> /\ returned = <<>> /\ over = FALSE

\* _find_short: where optstring names the letter; 0 when it does not.
FindShort(o) == IF o \in ToSet(OptString) THEN SelectInSeq(OptString, LAMBDA c : c = o) ELSE 0
TakesArg(at) == at < Len(OptString) /\ OptString[at + 1] = ":"

Exhausted == optind > Len(argv)

Return(r) == returned' = Append(returned, r) /\ UNCHANGED over
ReturnEnd == over' = TRUE /\ UNCHANGED returned

\* An argument in the token that is read again as options.
ArgumentReread(after) == after

\* What _next is once the rest of the token was taken as an argument.
ArgumentTaken(after) == <<>>

\* The next letter is taken off; its argument is the rest of the cluster, or
\* the argument vector's next element.
ShortOption(letters, i) ==
  LET o == Head(letters)
      after == Tail(letters)
      at == FindShort(o)
  IN  CASE at = 0 ->
             next' = after /\ optind' = i /\ Return(Invalid(o))
        [] at # 0 /\ ~TakesArg(at) ->
             next' = after /\ optind' = i /\ Return(Opt(o, None))
        [] at # 0 /\ TakesArg(at) /\ after # <<>> ->
             next' = ArgumentTaken(after) /\ optind' = i /\ Return(Opt(o, Text(after)))
        [] at # 0 /\ TakesArg(at) /\ after = <<>> /\ i <= Len(argv) ->
             next' = <<>> /\ optind' = i + 1 /\ Return(Opt(o, argv[i]))
        [] OTHER ->
             next' = <<>> /\ optind' = i /\ Return(Missing(o))

\* A getopt that does not step over "--".
AtSeparatorStays == UNCHANGED <<next, optind>> /\ ReturnEnd

\* "--" ends the options and is not an operand.
AtSeparator == optind' = optind + 1 /\ UNCHANGED next /\ ReturnEnd

\* getopt, once the vector is known not to be exhausted.
ShortCall ==
  IF next # <<>>
  THEN ShortOption(next, optind)
  ELSE CASE argv[optind].kind \in {"word", "long"} -> UNCHANGED <<next, optind>> /\ ReturnEnd
         [] argv[optind].kind = "separator"        -> AtSeparator
         [] argv[optind].kind = "cluster"          -> ShortOption(argv[optind].letters, optind + 1)

\* A long option; a value after "=" is dropped when the option takes none.
LongOption(tok) ==
  LET has == LongOpts[tok.name] IN
  /\ UNCHANGED next
  /\ IF tok.name \notin DOMAIN LongOpts
     THEN optind' = optind + 1 /\ Return(Invalid(None))
     ELSE CASE has = "no" ->
                 optind' = optind + 1 /\ Return(Opt(tok.name, None))
            [] has # "no" /\ tok.value # None ->
                 optind' = optind + 1 /\ Return(Opt(tok.name, tok.value))
            [] has = "optional" /\ tok.value = None ->
                 optind' = optind + 1 /\ Return(Opt(tok.name, None))
            [] has = "required" /\ tok.value = None /\ optind + 1 <= Len(argv) ->
                 optind' = optind + 2 /\ Return(Opt(tok.name, argv[optind + 1]))
            [] OTHER ->
                 optind' = optind + 1 /\ Return(Missing(None))

CallGetopt ==
  /\ ~over /\ fn = "getopt"
  /\ IF Exhausted THEN UNCHANGED <<next, optind>> /\ ReturnEnd ELSE ShortCall
  /\ UNCHANGED <<fn, argv, left>>

CallGetoptLong ==
  /\ ~over /\ fn = "getopt_long"
  /\ IF Exhausted
     THEN UNCHANGED <<next, optind>> /\ ReturnEnd
     ELSE IF next = <<>> /\ argv[optind].kind = "long"
     THEN LongOption(argv[optind])
     ELSE ShortCall
  /\ UNCHANGED <<fn, argv, left>>

\* The next command parses its own vector; it has optind = 1, as getopt.h asks.
\* The one before went on to -1, or gave up at an error.
GaveUp == returned # <<>> /\ "opt" \notin DOMAIN returned[Len(returned)]
NewParse ==
  /\ over \/ GaveUp
  /\ fn' \in {"getopt", "getopt_long"} /\ argv' \in Argvs
  /\ optind' = 1 /\ left' = next /\ returned' = <<>> /\ over' = FALSE
  /\ UNCHANGED next

Next == CallGetopt \/ CallGetoptLong \/ NewParse

Spec == Init /\ [][Next]_vars

------------------------------------------------------------------------------
(* What the arguments mean, read from left to right. *)

LetterMeaning(o) == IF FindShort(o) = 0 THEN Invalid(o) ELSE Opt(o, None)

\* A cluster is options, the last of which may take what follows it.
AddCluster(acc, letters) ==
  LET taking == {k \in DOMAIN letters : FindShort(letters[k]) # 0 /\ TakesArg(FindShort(letters[k]))}
      plain(n) == [k \in 1 .. n |-> LetterMeaning(letters[k])]
  IN  IF taking = {}
      THEN [acc EXCEPT !.opts = @ \o plain(Len(letters))]
      ELSE LET k == CHOOSE j \in taking : \A i \in taking : j <= i IN
           IF k = Len(letters)
           THEN [acc EXCEPT !.opts = @ \o plain(k - 1), !.wants = <<letters[k]>>]
           ELSE [acc EXCEPT !.opts = @ \o Append(plain(k - 1),
                                 Opt(letters[k], Text(SubSeq(letters, k + 1, Len(letters)))))]

AddLong(acc, tok) ==
  IF tok.name \notin DOMAIN LongOpts
  THEN [acc EXCEPT !.opts = Append(@, Invalid(None))]
  ELSE IF LongOpts[tok.name] = "required" /\ tok.value = None
  THEN [acc EXCEPT !.wants = <<None, tok.name>>]
  ELSE [acc EXCEPT !.opts = Append(@, Opt(tok.name,
                              IF LongOpts[tok.name] = "no" THEN None ELSE tok.value))]

\* acc is what was read: the options, an option that wants the next argument,
\* whether an operand was reached, and the number of arguments before it.
AddToken(f, acc, tok) ==
  LET on == [acc EXCEPT !.used = @ + 1] IN
  CASE acc.over -> acc
    [] ~acc.over /\ acc.wants # <<>> ->
         [on EXCEPT !.opts = Append(@, Opt(Last(acc.wants), tok)), !.wants = <<>>]
    [] ~acc.over /\ acc.wants = <<>> /\ tok.kind = "cluster"   -> AddCluster(on, tok.letters)
    [] ~acc.over /\ acc.wants = <<>> /\ tok.kind = "separator" -> [on EXCEPT !.over = TRUE]
    [] ~acc.over /\ acc.wants = <<>> /\ tok.kind = "word"      -> [acc EXCEPT !.over = TRUE]
    [] ~acc.over /\ acc.wants = <<>> /\ tok.kind = "long" ->
         IF f = "getopt_long" THEN AddLong(on, tok) ELSE [acc EXCEPT !.over = TRUE]

\* Nothing read of the arguments before the i-th but the rest of a cluster.
Begun(letters, i) ==
  LET start == [opts |-> <<>>, wants |-> <<>>, over |-> FALSE, used |-> i - 1]
  IN  IF letters = <<>> THEN start ELSE AddCluster(start, letters)

\* The given letters of a cluster and then the arguments from i to n.
Reading(f, args, letters, i, n) ==
  LET read[k \in Nat] == IF k < i THEN Begun(letters, i) ELSE AddToken(f, read[k - 1], args[k])
  IN  read[n]

Parsed(f, args, letters, i) == Reading(f, args, letters, i, Len(args))

Meaning(f, args, letters, i) ==
  LET acc == Parsed(f, args, letters, i) IN
  acc.opts \o IF acc.wants = <<>> THEN <<>> ELSE <<Missing(acc.wants[1])>>

------------------------------------------------------------------------------
(* Properties. *)

\* Across any sequence of calls and vectors, what was returned and what is
\* still to be returned is what the arguments mean, each option once and with
\* its own argument, after what the parse before left in _next (getopt.c:14,
\* 61-85, 143-179).
Accounted ==
  returned \o Meaning(fn, argv, next, IF over THEN Len(argv) + 1 ELSE optind) = Meaning(fn, argv, left, 1)

\* When -1 is returned with no cluster under way, optind is the index of the
\* first operand, past "--" and past every argument an option took
\* (getopt.c:45-55, 74, 112, 162).
OperandsFollow == over /\ next = <<>> => optind = Parsed(fn, argv, left, 1).used + 1

\* The options of a cluster are all returned, in order (getopt.c:13, "ex: -abc
\* -> processa a, b, c em ordem"), and no others are.
ClusterOptionsInOrder == over => returned = Meaning(fn, argv, <<>>, 1)
==============================================================================
