---------------------------- MODULE GetoptProofs -----------------------------
(***************************************************************************)
(* Proofs about getopt.c, for every optstring, every table of long options *)
(* and every argument vector, whatever was parsed before: the calls return *)
(* what the arguments mean, and leave optind at the first operand.         *)
(*                                                                         *)
(* The argument vector is read from left to right (Reading), and a parse   *)
(* is compared with the reading of what remains of it.  The invariant says *)
(* that reading the whole vector comes to the same as reading what remains *)
(* with the options returned so far in front; a call takes its option off  *)
(* the front of one and puts it at the end of the other.                   *)
(***************************************************************************)
EXTENDS Getopt, SequenceTheorems, WellFoundedInduction, TLAPS

\* A set of naturals has a least element.
LEMMA Least ==
  ASSUME NEW T, T \subseteq Nat, T # {}
  PROVE  \E x \in T : \A y \in T : x <= y
<1> DEFINE R == OpToRel(<, Nat)
<1>1. IsWellFoundedOn(R, Nat)
  BY NatLessThanWellFounded
<1>2. \A x, y \in Nat : <<y, x>> \in R <=> y < x
  BY DEF OpToRel
<1> HIDE DEF R
<1>3. PICK x \in T : \A y \in T : ~ (<<y, x>> \in R)
  BY <1>1, WFMin
<1>4. \A y \in T : ~(y < x)
  BY <1>2, <1>3
<1> QED
  BY <1>3, <1>4

------------------------------------------------------------------------------
(* The reading as a recursion over the arguments. *)

\* One more argument, of a reading so far that is the function h.
Onward(f, args, letters, i, h, k) ==
  IF k < i THEN Begun(letters, i) ELSE AddToken(f, h[k - 1], args[k])

\* A reading of the first n arguments.
Partial(f, args, letters, i, h, n) ==
  h = [k \in 0 .. n |-> Onward(f, args, letters, i, h, k)]

\* Two readings agree where both are defined.
LEMMA PartialUnique ==
  ASSUME NEW f, NEW args, NEW letters, NEW i \in Nat \ {0}, NEW m \in Nat, NEW n \in Nat,
         NEW g, NEW h, Partial(f, args, letters, i, g, m), Partial(f, args, letters, i, h, n)
  PROVE  \A k \in 0 .. m : k <= n => g[k] = h[k]
<1> DEFINE T == {k \in Nat : k <= m /\ k <= n /\ g[k] # h[k]}
<1>1. \A k \in 0 .. m : g[k] = Onward(f, args, letters, i, g, k)
  BY DEF Partial
<1>2. \A k \in 0 .. n : h[k] = Onward(f, args, letters, i, h, k)
  BY DEF Partial
<1>3. SUFFICES ASSUME T # {} PROVE FALSE
  OBVIOUS
<1>4. PICK x \in T : \A y \in T : x <= y
  <2>1. T \subseteq Nat
    OBVIOUS
  <2> QED
    BY <1>3, <2>1, Least
<1>5. g[x] = Onward(f, args, letters, i, g, x) /\ h[x] = Onward(f, args, letters, i, h, x)
  BY <1>1, <1>2, <1>4
<1>6. x < i => g[x] = h[x]
  BY <1>4, <1>5 DEF Onward
<1>7. ~(x < i) => g[x - 1] = h[x - 1]
  <2>1. ~(x < i) => x - 1 \in Nat /\ x - 1 <= m /\ x - 1 <= n /\ ~(x <= x - 1)
    BY <1>4
  <2> QED
    BY <1>4, <2>1
<1> QED
  BY <1>4, <1>5, <1>6, <1>7 DEF Onward

\* There is one of every number of arguments.
LEMMA PartialExists ==
  ASSUME NEW f, NEW args, NEW letters, NEW i \in Nat \ {0}
  PROVE  \A n \in Nat : \E h : Partial(f, args, letters, i, h, n)
<1> DEFINE T == {n \in Nat : ~ \E h : Partial(f, args, letters, i, h, n)}
<1>1. SUFFICES ASSUME T # {} PROVE FALSE
  OBVIOUS
<1>2. PICK x \in T : \A y \in T : x <= y
  <2>1. T \subseteq Nat
    OBVIOUS
  <2> QED
    BY <1>1, <2>1, Least
<1>3. x # 0
  <2> DEFINE h == [k \in 0 .. 0 |-> Begun(letters, i)]
  <2>1. \A k \in 0 .. 0 : Onward(f, args, letters, i, h, k) = Begun(letters, i)
    BY DEF Onward
  <2>2. h = [k \in 0 .. 0 |-> Onward(f, args, letters, i, h, k)]
    BY <2>1
  <2> QED
    BY <1>2, <2>2 DEF Partial
<1>4. PICK g : Partial(f, args, letters, i, g, x - 1)
  <2>1. x - 1 \in Nat /\ ~(x <= x - 1)
    BY <1>2, <1>3
  <2> QED
    BY <1>2, <2>1
<1> DEFINE h == [k \in 0 .. x |-> Onward(f, args, letters, i, g, k)]
<1>5. \A k \in 0 .. x - 1 : h[k] = g[k]
  BY <1>2, <1>4 DEF Partial
<1>6. \A k \in 0 .. x : Onward(f, args, letters, i, h, k) = Onward(f, args, letters, i, g, k)
  <2>1. TAKE k \in 0 .. x
  <2>2. ~(k < i) => k - 1 \in 0 .. x - 1
    BY <1>2
  <2>3. ~(k < i) => h[k - 1] = g[k - 1]
    BY <1>5, <2>2
  <2> HIDE DEF h
  <2> QED
    BY <2>3 DEF Onward
<1>7. h = [k \in 0 .. x |-> Onward(f, args, letters, i, h, k)]
  BY <1>6
<1> HIDE DEF h
<1>8. Partial(f, args, letters, i, h, x)
  BY <1>7 DEF Partial
<1> QED
  BY <1>2, <1>8

\* The recursion has a solution, and a reading is one.
LEMMA ReadingStep ==
  ASSUME NEW f, NEW args, NEW letters, NEW i \in Nat \ {0}
  PROVE  \E r : \A k \in Nat : /\ Reading(f, args, letters, i, k) = r[k]
                              /\ r[k] = Onward(f, args, letters, i, r, k)
<1> DEFINE Part(m) == CHOOSE h : Partial(f, args, letters, i, h, m)
           all == [m \in Nat |-> Part(m)[m]]
           Recursive(r) == r = [k \in Nat |-> IF k < i THEN Begun(letters, i)
                                              ELSE AddToken(f, r[k - 1], args[k])]
           read == CHOOSE r : Recursive(r)
<1>1. \A m \in Nat : Partial(f, args, letters, i, Part(m), m)
  BY PartialExists
<1> HIDE DEF Part
<1>2. \A k \in Nat : all[k] = Onward(f, args, letters, i, all, k)
  <2>1. TAKE k \in Nat
  <2>2. Part(k)[k] = Onward(f, args, letters, i, Part(k), k)
    <3>1. Partial(f, args, letters, i, Part(k), k) /\ k \in 0 .. k
      BY <1>1
    <3> QED
      BY <3>1 DEF Partial
  <2>3. ~(k < i) => Part(k)[k - 1] = Part(k - 1)[k - 1]
    <3>1. ~(k < i) => k - 1 \in Nat /\ k - 1 \in 0 .. k - 1 /\ k - 1 <= k
      OBVIOUS
    <3>2. ASSUME ~(k < i)
          PROVE  \A j \in 0 .. k - 1 : j <= k => Part(k - 1)[j] = Part(k)[j]
      <4>1. Partial(f, args, letters, i, Part(k - 1), k - 1) /\ Partial(f, args, letters, i, Part(k), k)
        BY <1>1, <3>1, <3>2
      <4> QED
        BY <3>1, <3>2, <4>1, PartialUnique
    <3> QED
      BY <3>1, <3>2
  <2>4. ~(k < i) => k - 1 \in Nat
    OBVIOUS
  <2> QED
    BY <2>2, <2>3, <2>4 DEF Onward
<1>3. all = [k \in Nat |-> IF k < i THEN Begun(letters, i) ELSE AddToken(f, all[k - 1], args[k])]
  <2>1. \A k \in Nat : all[k] = IF k < i THEN Begun(letters, i) ELSE AddToken(f, all[k - 1], args[k])
    BY <1>2 DEF Onward
  <2>2. all = [k \in Nat |-> all[k]]
    OBVIOUS
  <2> HIDE DEF all
  <2> QED
    BY <2>1, <2>2
<1> HIDE DEF all
<1>4. Recursive(read)
  <2>1. Recursive(all)
    BY <1>3
  <2> HIDE DEF Recursive
  <2> QED
    BY <2>1
<1>5. \A k \in Nat : Reading(f, args, letters, i, k) = read[k]
  BY DEF Reading
<1> HIDE DEF read
<1>6. \A k \in Nat : read[k] = Onward(f, args, letters, i, read, k)
  BY <1>4 DEF Onward
<1> QED
  BY <1>5, <1>6

------------------------------------------------------------------------------
(* What is read. *)

Arguments == {Word, Separator} \cup {Cluster(s) : s \in Seq(Letters) \ {<<>>}}
               \cup {Long(n, v) : n \in Names, v \in Values \cup {None}}
Options   == Letters \cup Names \cup {None}
Given     == {None} \cup Values \cup Arguments \cup {Text(s) : s \in Seq(Letters)}
Results   == {Opt(o, a) : o \in Options, a \in Given}
               \cup {Invalid(o) : o \in Options} \cup {Missing(o) : o \in Options}
Wants     == {<<>>} \cup {<<o>> : o \in Letters} \cup {<<None, n>> : n \in Names}
Readings  == [opts : Seq(Results), wants : Wants, over : BOOLEAN, used : Nat]

\* Before the first argument.
LEMMA ReadingStarts ==
  ASSUME NEW f, NEW args, NEW letters, NEW i \in Nat \ {0}, NEW n \in Nat, n < i
  PROVE  Reading(f, args, letters, i, n) = Begun(letters, i)
<1>1. PICK r : \A k \in Nat : Reading(f, args, letters, i, k) = r[k] /\ r[k] = Onward(f, args, letters, i, r, k)
  BY ReadingStep
<1> QED
  BY <1>1 DEF Onward

\* One argument more.
LEMMA ReadingOnward ==
  ASSUME NEW f, NEW args, NEW letters, NEW i \in Nat \ {0}, NEW m, NEW n \in Nat, ~(n < i), m = n - 1
  PROVE  Reading(f, args, letters, i, n) = AddToken(f, Reading(f, args, letters, i, m), args[n])
<1>1. PICK r : \A k \in Nat : Reading(f, args, letters, i, k) = r[k] /\ r[k] = Onward(f, args, letters, i, r, k)
  BY ReadingStep
<1>2. m \in Nat /\ r[n] = AddToken(f, r[m], args[n])
  BY <1>1 DEF Onward
<1> QED
  BY <1>1, <1>2

\* A reading with the given results in front of its own.
Prefixed(r, acc) == [opts |-> r \o acc.opts, wants |-> acc.wants, over |-> acc.over, used |-> acc.used]

LEMMA ResultTypes ==
  /\ \A o \in Options, a \in Given : Opt(o, a) \in Results
  /\ \A o \in Options : Invalid(o) \in Results /\ Missing(o) \in Results
<1> HIDE DEF Opt, Invalid, Missing
<1> QED
  BY DEF Results

LEMMA WantsOne ==
  ASSUME NEW w \in Wants, w # <<>>
  PROVE  Last(w) \in Letters \cup Names /\ w[1] \in Letters \cup {None}
BY DEF Wants, Last

\* The arguments are of the kinds callers pass.
LEMMA ArgumentTypes ==
  ASSUME NEW args \in Argvs
  PROVE  args \in Seq(Arguments) /\ Len(args) \in Nat
<1>1. \A t : IsToken(t) => t \in Arguments
  <2>1. TAKE t
  <2> HIDE DEF Word, Separator
  <2>2. CASE t \in {Word, Separator}
    BY <2>2 DEF Arguments
  <2>3. CASE t.letters \in Seq(Letters) \ {<<>>} /\ t = Cluster(t.letters)
    <3>1. t \in {Cluster(s) : s \in Seq(Letters) \ {<<>>}}
      BY <2>3
    <3> QED
      BY <3>1 DEF Arguments
  <2>4. CASE t.name \in Names /\ t.value \in Values \cup {None} /\ t = Long(t.name, t.value)
    <3>1. t \in {Long(n, v) : n \in Names, v \in Values \cup {None}}
      BY <2>4
    <3> QED
      BY <3>1 DEF Arguments
  <2> QED
    BY <2>2, <2>3, <2>4 DEF IsToken
<1>2. /\ Len(args) \in Nat /\ args = [k \in 1 .. Len(args) |-> args[k]]
      /\ \A k \in 1 .. Len(args) : IsToken(args[k])
  BY ArgumentAssumption
<1>3. args \in [1 .. Len(args) -> Arguments]
  BY <1>1, <1>2
<1> QED
  BY <1>2, <1>3

\* What tells one kind of argument from another.
LEMMA Kinds ==
  ASSUME NEW t \in Arguments
  PROVE  \/ t = Word /\ t.kind = "word"
         \/ t = Separator /\ t.kind = "separator"
         \/ t.kind = "cluster" /\ t.letters \in Seq(Letters) \ {<<>>}
         \/ t.kind = "long" /\ t.name \in Names /\ t.value \in Values \cup {None}
<1>1. Word.kind = "word" /\ Separator.kind = "separator"
  BY DEF Word, Separator
<1>2. \A s : Cluster(s).kind = "cluster" /\ Cluster(s).letters = s
  BY DEF Cluster
<1>3. \A n, v : Long(n, v).kind = "long" /\ Long(n, v).name = n /\ Long(n, v).value = v
  BY DEF Long
<1> HIDE DEF Word, Separator, Cluster, Long
<1> QED
  BY <1>1, <1>2, <1>3 DEF Arguments

------------------------------------------------------------------------------
(* A cluster. *)

Takes(o)     == FindShort(o) # 0 /\ TakesArg(FindShort(o))
Plain(l, n)  == [k \in 1 .. n |-> LetterMeaning(l[k])]
Taking(l)    == {k \in DOMAIN l : Takes(l[k])}

LEMMA PlainTypes ==
  ASSUME NEW l \in Seq(Letters), NEW n \in 0 .. Len(l)
  PROVE  Plain(l, n) \in Seq(Results) /\ Len(Plain(l, n)) = n
<1>1. None \in Given /\ \A o \in Letters : o \in Options
  BY DEF Given, Options
<1>2. \A o \in Letters : LetterMeaning(o) \in Results
  BY <1>1, ResultTypes DEF LetterMeaning
<1>3. \A k \in 1 .. n : l[k] \in Letters
  OBVIOUS
<1>4. Plain(l, n) \in [1 .. n -> Results]
  BY <1>2, <1>3 DEF Plain
<1> QED
  BY <1>4

\* No letter takes an argument.
LEMMA AllPlain ==
  ASSUME NEW acc \in Readings, NEW l \in Seq(Letters), Taking(l) = {}
  PROVE  AddCluster(acc, l) = [opts |-> acc.opts \o Plain(l, Len(l)), wants |-> acc.wants,
                               over |-> acc.over, used |-> acc.used]
BY DEF AddCluster, Taking, Takes, Plain, Readings

\* The first letter that takes one is the last option of the cluster.
LEMMA OneTakes ==
  ASSUME NEW acc \in Readings, NEW l \in Seq(Letters), NEW j \in Taking(l), \A i \in Taking(l) : j <= i
  PROVE  AddCluster(acc, l) =
           IF j = Len(l)
           THEN [opts |-> acc.opts \o Plain(l, j - 1), wants |-> <<l[j]>>,
                 over |-> acc.over, used |-> acc.used]
           ELSE [opts |-> acc.opts \o Append(Plain(l, j - 1), Opt(l[j], Text(SubSeq(l, j + 1, Len(l))))),
                 wants |-> acc.wants, over |-> acc.over, used |-> acc.used]
<1>1. Taking(l) = {k \in DOMAIN l : FindShort(l[k]) # 0 /\ TakesArg(FindShort(l[k]))}
  BY DEF Taking, Takes
<1>2. Taking(l) \subseteq Nat
  BY DEF Taking
<1>3. (CHOOSE k \in Taking(l) : \A i \in Taking(l) : k <= i) = j
  <2> DEFINE c == CHOOSE k \in Taking(l) : \A i \in Taking(l) : k <= i
  <2>1. c \in Taking(l) /\ \A i \in Taking(l) : c <= i
    OBVIOUS
  <2> HIDE DEF c
  <2> QED
    BY <1>2, <2>1
<1>4. AddCluster(acc, l) =
        LET k == CHOOSE m \in Taking(l) : \A i \in Taking(l) : m <= i IN
        IF k = Len(l)
        THEN [acc EXCEPT !.opts = @ \o Plain(l, k - 1), !.wants = <<l[k]>>]
        ELSE [acc EXCEPT !.opts = @ \o Append(Plain(l, k - 1), Opt(l[k], Text(SubSeq(l, k + 1, Len(l)))))]
  <2>1. Taking(l) # {}
    OBVIOUS
  <2> QED
    BY <1>1, <2>1 DEF AddCluster, Plain
<1> HIDE DEF Opt, Text
<1> QED
  BY <1>3, <1>4 DEF Readings

\* The sequences of results.
LEMMA ConcatTypes ==
  ASSUME NEW S, NEW r \in Seq(S), NEW s \in Seq(S)
  PROVE  r \o s \in Seq(S)
OBVIOUS

\* A cluster adds results after those there are.
LEMMA ClusterAdds ==
  ASSUME NEW acc \in Readings, acc.wants = <<>>, NEW l \in Seq(Letters)
  PROVE  \E s \in Seq(Results), w \in Wants :
           \A a \in Readings : a.wants = <<>> =>
             AddCluster(a, l) = [opts |-> a.opts \o s, wants |-> w, over |-> a.over, used |-> a.used]
<1>1. CASE Taking(l) = {}
  <2> DEFINE s == Plain(l, Len(l))
  <2>1. s \in Seq(Results) /\ <<>> \in Wants
    BY PlainTypes DEF Wants
  <2>2. \A a \in Readings : a.wants = <<>> =>
          AddCluster(a, l) = [opts |-> a.opts \o s, wants |-> <<>>, over |-> a.over, used |-> a.used]
    BY <1>1, AllPlain
  <2> QED
    BY <2>1, <2>2
<1>2. CASE Taking(l) # {}
  <2>1. Taking(l) \subseteq 1 .. Len(l)
    BY DEF Taking
  <2>2. PICK j \in Taking(l) : \A i \in Taking(l) : j <= i
    <3>1. Taking(l) \subseteq Nat
      BY <2>1
    <3> QED
      BY <1>2, <3>1, Least
  <2>3. j \in 1 .. Len(l) /\ l[j] \in Letters /\ j - 1 \in 0 .. Len(l)
    BY <2>1, <2>2
  <2>4. Plain(l, j - 1) \in Seq(Results)
    BY <2>3, PlainTypes
  <2>5. CASE j = Len(l)
    <3>1. <<l[j]>> \in Wants
      BY <2>3 DEF Wants
    <3>2. \A a \in Readings : a.wants = <<>> =>
            AddCluster(a, l) = [opts |-> a.opts \o Plain(l, j - 1), wants |-> <<l[j]>>,
                                over |-> a.over, used |-> a.used]
      BY <2>2, <2>5, OneTakes
    <3> QED
      BY <2>4, <3>1, <3>2
  <2>6. CASE j # Len(l)
    <3> DEFINE o == Opt(l[j], Text(SubSeq(l, j + 1, Len(l))))
               s == Append(Plain(l, j - 1), o)
    <3>1. SubSeq(l, j + 1, Len(l)) \in Seq(Letters)
      BY <2>3
    <3>2. o \in Results
      <4>1. Text(SubSeq(l, j + 1, Len(l))) \in Given
        BY <3>1 DEF Given
      <4>2. l[j] \in Options
        BY <2>3 DEF Options
      <4> QED
        BY <4>1, <4>2, ResultTypes
    <3> HIDE DEF o
    <3>3. s \in Seq(Results) /\ <<>> \in Wants
      BY <2>4, <3>2 DEF Wants
    <3>4. \A a \in Readings : a.wants = <<>> =>
            AddCluster(a, l) = [opts |-> a.opts \o s, wants |-> <<>>, over |-> a.over, used |-> a.used]
      BY <2>2, <2>6, OneTakes DEF o
    <3> HIDE DEF s
    <3> QED
      BY <3>3, <3>4
  <2> QED
    BY <2>5, <2>6
<1> QED
  BY <1>1, <1>2

\* The first letter of a cluster is an option of its own when it takes no
\* argument; otherwise it takes what follows it.
LEMMA ClusterHead ==
  ASSUME NEW acc \in Readings, acc.wants = <<>>, NEW l \in Seq(Letters), l # <<>>
  PROVE  AddCluster(acc, l) =
           IF Takes(Head(l))
           THEN IF Tail(l) = <<>>
                THEN [opts |-> acc.opts, wants |-> <<Head(l)>>, over |-> acc.over, used |-> acc.used]
                ELSE [opts |-> Append(acc.opts, Opt(Head(l), Text(Tail(l)))), wants |-> <<>>,
                      over |-> acc.over, used |-> acc.used]
           ELSE AddCluster([opts |-> Append(acc.opts, LetterMeaning(Head(l))), wants |-> <<>>,
                            over |-> acc.over, used |-> acc.used], Tail(l))
<1> DEFINE o == Head(l)  t == Tail(l)
<1>1. o = l[1] /\ o \in Letters /\ t \in Seq(Letters) /\ Len(t) = Len(l) - 1 /\ Len(l) \in Nat \ {0}
      /\ \A k \in 1 .. Len(t) : t[k] = l[k + 1]
  OBVIOUS
<1>2. acc.opts \in Seq(Results) /\ acc.over \in BOOLEAN /\ acc.used \in Nat
  BY DEF Readings
<1>3. Taking(l) \subseteq 1 .. Len(l) /\ Taking(t) \subseteq 1 .. Len(t)
  BY <1>1 DEF Taking
<1> HIDE DEF o, t
<1>4. CASE Takes(o)
  <2>1. 1 \in Taking(l) /\ \A i \in Taking(l) : 1 <= i
    BY <1>1, <1>3, <1>4 DEF Taking
  <2>2. Plain(l, 0) = <<>>
    BY DEF Plain
  <2>3. acc.opts \o <<>> = acc.opts
    BY <1>2
  <2>9. AddCluster(acc, l) =
          IF 1 = Len(l)
          THEN [opts |-> acc.opts \o Plain(l, 1 - 1), wants |-> <<l[1]>>,
                over |-> acc.over, used |-> acc.used]
          ELSE [opts |-> acc.opts \o Append(Plain(l, 1 - 1), Opt(l[1], Text(SubSeq(l, 1 + 1, Len(l))))),
                wants |-> acc.wants, over |-> acc.over, used |-> acc.used]
    <3> HIDE DEF Opt, Text
    <3> QED
      BY <2>1, OneTakes
  <2>10. 1 - 1 = 0 /\ 1 + 1 = 2
    OBVIOUS
  <2>4. CASE t = <<>>
    <3>1. 1 = Len(l)
      BY <1>1, <2>4
    <3> HIDE DEF Opt, Text
    <3> QED
      BY <1>1, <1>4, <2>2, <2>3, <2>4, <2>9, <2>10, <3>1 DEF o, t
  <2>5. CASE t # <<>>
    <3>1. 1 # Len(l)
      BY <1>1, <2>5
    <3>2. SubSeq(l, 2, Len(l)) = t
      BY <1>1 DEF t
    <3>3. \A r : acc.opts \o Append(<<>>, r) = Append(acc.opts, r)
      BY <1>2
    <3>4. AddCluster(acc, l) =
            [opts |-> acc.opts \o Append(Plain(l, 0), Opt(l[1], Text(SubSeq(l, 2, Len(l))))),
             wants |-> acc.wants, over |-> acc.over, used |-> acc.used]
      <4> HIDE DEF Opt, Text
      <4> QED
        BY <2>9, <2>10, <3>1
    <3> QED
      BY <1>1, <1>4, <2>2, <2>5, <3>2, <3>3, <3>4 DEF o, t
  <2> QED
    BY <2>4, <2>5
<1>5. CASE ~Takes(o)
  <2> DEFINE r   == LetterMeaning(o)
             on  == [opts |-> Append(acc.opts, r), wants |-> <<>>, over |-> acc.over, used |-> acc.used]
  <2>1. r \in Results
    <3>1. Plain(l, 1) \in Seq(Results) /\ Len(Plain(l, 1)) = 1
      <4>1. 1 \in 0 .. Len(l)
        BY <1>1
      <4> QED
        BY <4>1, PlainTypes
    <3>2. Plain(l, 1)[1] = r
      BY <1>1 DEF Plain
    <3> QED
      BY <3>1, <3>2
  <2>2. on \in Readings
    BY <1>2, <2>1 DEF Readings, Wants
  <2>3. \A k \in 0 .. Len(t) : /\ Plain(l, k + 1) \in Seq(Results) /\ Plain(t, k) \in Seq(Results)
                               /\ Plain(l, k + 1) = <<r>> \o Plain(t, k)
    <3> TAKE k \in 0 .. Len(t)
    <3>1. /\ Plain(l, k + 1) \in Seq(Results) /\ Len(Plain(l, k + 1)) = k + 1
          /\ Plain(t, k) \in Seq(Results) /\ Len(Plain(t, k)) = k
      <4>1. k + 1 \in 0 .. Len(l)
        BY <1>1
      <4> QED
        BY <1>1, <4>1, PlainTypes
    <3>2. \A i \in 1 .. k + 1 : Plain(l, k + 1)[i] = (<<r>> \o Plain(t, k))[i]
      <4> TAKE i \in 1 .. k + 1
      <4>1. Plain(l, k + 1)[i] = LetterMeaning(l[i])
        BY DEF Plain
      <4>2. CASE i = 1
        BY <1>1, <2>1, <3>1, <4>1, <4>2
      <4>3. CASE i # 1
        <5>1. i - 1 \in 1 .. k /\ i - 1 \in 1 .. Len(t)
          BY <1>1, <4>3
        <5>2. Plain(t, k)[i - 1] = LetterMeaning(t[i - 1]) /\ t[i - 1] = l[i]
          BY <1>1, <5>1 DEF Plain
        <5>3. (<<r>> \o Plain(t, k))[i] = Plain(t, k)[i - 1]
          BY <3>1, <5>1, <2>1
        <5> QED
          BY <4>1, <5>2, <5>3
      <4> QED
        BY <4>2, <4>3
    <3> HIDE DEF r
    <3>3. Len(<<r>> \o Plain(t, k)) = k + 1 /\ <<r>> \o Plain(t, k) \in Seq(Results)
      BY <2>1, <3>1
    <3> QED
      BY <3>1, <3>2, <3>3
  <2> HIDE DEF r
  <2>4. \A s \in Seq(Results) : Append(acc.opts, r) \o s = acc.opts \o (<<r>> \o s)
    <3> TAKE s \in Seq(Results)
    <3> DEFINE e == <<r>>  a == acc.opts
    <3>1. Append(a, r) = a \o e /\ e \in Seq(Results) /\ a \in Seq(Results)
      <4>1. e \in Seq(Results) /\ a \in Seq(Results)
        BY <1>2, <2>1
      <4> QED
        BY <2>1, <4>1, AppendIsConcat
    <3> HIDE DEF e, a
    <3>2. (a \o e) \o s = a \o (e \o s)
      BY <3>1, ConcatAssociative
    <3>3. Append(a, r) \o s = a \o (e \o s)
      BY <3>1, <3>2
    <3> QED
      BY <3>3 DEF e, a
  <2>5. \A k \in 1 .. Len(t) : Takes(t[k]) <=> Takes(l[k + 1])
    BY <1>1
  <2>6. Taking(l) = {k + 1 : k \in Taking(t)}
    <3>1. \A k \in Taking(l) : k # 1
      BY <1>1, <1>5 DEF Taking
    <3>2. \A k \in Taking(l) : k - 1 \in Taking(t) /\ k = (k - 1) + 1
      BY <1>1, <1>3, <2>5, <3>1 DEF Taking
    <3>3. \A k \in Taking(t) : k + 1 \in Taking(l)
      BY <1>1, <1>3, <2>5 DEF Taking
    <3> QED
      BY <3>2, <3>3
  <2>7. CASE Taking(t) = {}
    <3>1. AddCluster(acc, l) = [opts |-> acc.opts \o Plain(l, Len(l)), wants |-> <<>>,
                                over |-> acc.over, used |-> acc.used]
      BY <2>6, <2>7, AllPlain
    <3>2. AddCluster(on, t) = [opts |-> on.opts \o Plain(t, Len(t)), wants |-> on.wants,
                               over |-> on.over, used |-> on.used]
      BY <1>1, <2>2, <2>7, AllPlain
    <3>3. Plain(l, Len(l)) = <<r>> \o Plain(t, Len(t)) /\ Plain(t, Len(t)) \in Seq(Results)
      BY <1>1, <2>3
    <3>4. acc.opts \o Plain(l, Len(l)) = on.opts \o Plain(t, Len(t))
      BY <2>4, <3>3
    <3>5. AddCluster(acc, l) = AddCluster(on, t)
      BY <3>1, <3>2, <3>4
    <3> QED
      BY <1>5, <3>5 DEF o, t, r
  <2>8. CASE Taking(t) # {}
    <3>1. PICK j \in Taking(t) : \A i \in Taking(t) : j <= i
      <4>1. Taking(t) \subseteq Nat
        BY <1>3
      <4> QED
        BY <2>8, <4>1, Least
    <3>2. j \in 1 .. Len(t) /\ j + 1 \in Taking(l) /\ \A i \in Taking(l) : j + 1 <= i
      BY <1>3, <2>6, <3>1
    <3>3. t[j] = l[j + 1] /\ (j = Len(t) <=> j + 1 = Len(l)) /\ (j + 1) - 1 = j /\ j - 1 \in 0 .. Len(t)
          /\ j = (j - 1) + 1
      BY <1>1, <3>2
    <3>4. Plain(l, j) = <<r>> \o Plain(t, j - 1) /\ Plain(t, j - 1) \in Seq(Results)
      BY <2>3, <3>3
    <3>5. SubSeq(l, (j + 1) + 1, Len(l)) = SubSeq(t, j + 1, Len(t))
      BY <1>1, <3>2 DEF t
    <3> DEFINE q == Opt(t[j], Text(SubSeq(t, j + 1, Len(t))))
    <3>6. q \in Results
      <4>1. SubSeq(t, j + 1, Len(t)) \in Seq(Letters) /\ t[j] \in Letters
        BY <1>1, <3>2
      <4>2. Text(SubSeq(t, j + 1, Len(t))) \in Given
        BY <4>1 DEF Given
      <4>3. t[j] \in Options
        BY <4>1 DEF Options
      <4> QED
        BY <4>2, <4>3, ResultTypes
    <3>7. AddCluster(acc, l) =
            IF j = Len(t)
            THEN [opts |-> acc.opts \o Plain(l, j), wants |-> <<t[j]>>, over |-> acc.over, used |-> acc.used]
            ELSE [opts |-> acc.opts \o Append(Plain(l, j), q), wants |-> <<>>,
                  over |-> acc.over, used |-> acc.used]
      <4> HIDE DEF Opt, Text, q
      <4>1. AddCluster(acc, l) =
              IF j + 1 = Len(l)
              THEN [opts |-> acc.opts \o Plain(l, (j + 1) - 1), wants |-> <<l[j + 1]>>,
                    over |-> acc.over, used |-> acc.used]
              ELSE [opts |-> acc.opts \o Append(Plain(l, (j + 1) - 1),
                                        Opt(l[j + 1], Text(SubSeq(l, (j + 1) + 1, Len(l))))),
                    wants |-> acc.wants, over |-> acc.over, used |-> acc.used]
        BY <3>2, OneTakes
      <4>2. Opt(l[j + 1], Text(SubSeq(l, (j + 1) + 1, Len(l)))) = q
        BY <3>3, <3>5 DEF q
      <4> QED
        BY <3>3, <4>1, <4>2
    <3>8. AddCluster(on, t) =
            IF j = Len(t)
            THEN [opts |-> on.opts \o Plain(t, j - 1), wants |-> <<t[j]>>, over |-> on.over, used |-> on.used]
            ELSE [opts |-> on.opts \o Append(Plain(t, j - 1), q), wants |-> on.wants,
                  over |-> on.over, used |-> on.used]
      BY <1>1, <2>2, <3>1, OneTakes
    <3> HIDE DEF q
    <3>9. acc.opts \o Plain(l, j) = on.opts \o Plain(t, j - 1)
      BY <2>4, <3>4
    <3>10. acc.opts \o Append(Plain(l, j), q) = on.opts \o Append(Plain(t, j - 1), q)
      <4> DEFINE s == Plain(t, j - 1)
      <4>1. s \in Seq(Results)
        BY <3>4
      <4>2. Append(<<r>> \o s, q) = <<r>> \o Append(s, q) /\ Append(s, q) \in Seq(Results)
        <5> HIDE DEF s
        <5> QED
          BY <2>1, <3>6, <4>1
      <4> QED
        BY <2>4, <3>4, <4>2
    <3>11. AddCluster(acc, l) = AddCluster(on, t)
      BY <3>7, <3>8, <3>9, <3>10
    <3> QED
      BY <1>5, <3>11 DEF o, t, r
  <2> QED
    BY <2>7, <2>8
<1> QED
  BY <1>4, <1>5 DEF o, t

------------------------------------------------------------------------------
(* One argument. *)

LEMMA StartTypes ==
  ASSUME NEW i \in Nat \ {0}, NEW l \in Seq(Letters)
  PROVE  /\ Begun(<<>>, i) = [opts |-> <<>>, wants |-> <<>>, over |-> FALSE, used |-> i - 1]
         /\ Begun(<<>>, i) \in Readings
         /\ Begun(l, i) \in Readings /\ ~Begun(l, i).over /\ Begun(l, i).used = i - 1
         /\ l # <<>> => Begun(l, i) = AddCluster(Begun(<<>>, i), l)
<1> DEFINE b == Begun(<<>>, i)
<1>1. b = [opts |-> <<>>, wants |-> <<>>, over |-> FALSE, used |-> i - 1]
  BY DEF Begun
<1>2. b \in Readings /\ b.wants = <<>> /\ ~b.over /\ b.used = i - 1 /\ b.opts \in Seq(Results)
  <2>1. i - 1 \in Nat /\ <<>> \in Seq(Results) /\ <<>> \in Wants
    BY DEF Wants
  <2> HIDE DEF b
  <2> QED
    BY <1>1, <2>1 DEF Readings
<1>3. l # <<>> => Begun(l, i) = AddCluster(b, l)
  BY DEF Begun
<1> HIDE DEF b
<1>4. PICK s \in Seq(Results), w \in Wants :
        AddCluster(b, l) = [opts |-> b.opts \o s, wants |-> w, over |-> b.over, used |-> b.used]
  BY <1>2, ClusterAdds
<1>5. b.opts \o s \in Seq(Results)
  BY <1>2, <1>4, ConcatTypes
<1>6. AddCluster(b, l) \in Readings /\ ~AddCluster(b, l).over /\ AddCluster(b, l).used = i - 1
  BY <1>2, <1>4, <1>5 DEF Readings
<1> QED
  BY <1>1, <1>2, <1>3, <1>6 DEF b

\* A reading is its four fields.
LEMMA FourFields ==
  ASSUME NEW a \in Readings, NEW s, NEW w, NEW o, NEW u,
         a.opts = s, a.wants = w, a.over = o, a.used = u
  PROVE  a = [opts |-> s, wants |-> w, over |-> o, used |-> u]
<1>1. a = [opts |-> a.opts, wants |-> a.wants, over |-> a.over, used |-> a.used]
  BY DEF Readings
<1> QED
  BY <1>1

\* It grows by some results.
Grown(a, s, w, o, u) == [opts |-> a.opts \o s, wants |-> w, over |-> o, used |-> a.used + u]

LEMMA Fields ==
  ASSUME NEW a \in Readings
  PROVE  /\ a.opts \in Seq(Results) /\ a.wants \in Wants /\ a.over \in BOOLEAN /\ a.used \in Nat
         /\ a = Grown(a, <<>>, a.wants, a.over, 0)
         /\ [a EXCEPT !.used = @ + 1] = Grown(a, <<>>, a.wants, a.over, 1)
         /\ [a EXCEPT !.over = TRUE] = Grown(a, <<>>, a.wants, TRUE, 0)
         /\ [a EXCEPT !.used = @ + 1] \in Readings
         /\ [a EXCEPT !.used = @ + 1].opts = a.opts /\ [a EXCEPT !.used = @ + 1].wants = a.wants
         /\ [a EXCEPT !.used = @ + 1].over = a.over /\ [a EXCEPT !.used = @ + 1].used = a.used + 1
<1>1. a.opts \in Seq(Results) /\ a.wants \in Wants /\ a.over \in BOOLEAN /\ a.used \in Nat
  BY DEF Readings
<1>2. a.opts \o <<>> = a.opts /\ a.used + 0 = a.used
  BY <1>1
<1>3. a = [opts |-> a.opts, wants |-> a.wants, over |-> a.over, used |-> a.used]
  BY DEF Readings
<1>4. [a EXCEPT !.used = @ + 1] = [opts |-> a.opts, wants |-> a.wants, over |-> a.over, used |-> a.used + 1]
  BY DEF Readings
<1>5. [a EXCEPT !.over = TRUE] = [opts |-> a.opts, wants |-> a.wants, over |-> TRUE, used |-> a.used]
  <2> DEFINE e == [a EXCEPT !.over = TRUE]
  <2>1. e \in Readings /\ e.opts = a.opts /\ e.wants = a.wants /\ e.over = TRUE /\ e.used = a.used
    BY DEF Readings
  <2> HIDE DEF e
  <2>2. e = [opts |-> a.opts, wants |-> a.wants, over |-> TRUE, used |-> a.used]
    BY <2>1, FourFields
  <2> QED
    BY <2>2 DEF e
<1>6. [opts |-> a.opts, wants |-> a.wants, over |-> a.over, used |-> a.used + 1] \in Readings
  BY <1>1 DEF Readings
<1>7. a = Grown(a, <<>>, a.wants, a.over, 0)
  BY <1>2, <1>3 DEF Grown
<1>8. [a EXCEPT !.used = @ + 1] = Grown(a, <<>>, a.wants, a.over, 1)
  BY <1>2, <1>4 DEF Grown
<1>9. [a EXCEPT !.over = TRUE] = Grown(a, <<>>, a.wants, TRUE, 0)
  BY <1>2, <1>5 DEF Grown
<1> QED
  BY <1>1, <1>4, <1>6, <1>7, <1>8, <1>9

\* With an argument, a result is appended or another one wanted.
LEMMA GrownByOne ==
  ASSUME NEW a \in Readings, NEW r \in Results, NEW w \in Wants
  PROVE  /\ [a EXCEPT !.used = @ + 1, !.opts = Append(@, r), !.wants = w] = Grown(a, <<r>>, w, a.over, 1)
         /\ [a EXCEPT !.used = @ + 1, !.opts = Append(@, r)] = Grown(a, <<r>>, a.wants, a.over, 1)
         /\ [a EXCEPT !.used = @ + 1, !.wants = w] = Grown(a, <<>>, w, a.over, 1)
<1>1. Append(a.opts, r) = a.opts \o <<r>> /\ a.opts \o <<>> = a.opts
  <2>1. a.opts \in Seq(Results)
    BY Fields
  <2>2. Append(a.opts, r) = a.opts \o <<r>>
    BY <2>1, AppendIsConcat
  <2> QED
    BY <2>1, <2>2
<1>2. [a EXCEPT !.used = @ + 1, !.opts = Append(@, r), !.wants = w] =
        [opts |-> Append(a.opts, r), wants |-> w, over |-> a.over, used |-> a.used + 1]
  <2> DEFINE e == [a EXCEPT !.used = @ + 1, !.opts = Append(@, r), !.wants = w]
  <2>1. a.opts \in Seq(Results) /\ Append(a.opts, r) \in Seq(Results) /\ a.used + 1 \in Nat
    BY DEF Readings
  <2>2. e \in Readings /\ e.opts = Append(a.opts, r) /\ e.wants = w /\ e.over = a.over /\ e.used = a.used + 1
    BY <2>1 DEF Readings
  <2> HIDE DEF e
  <2>3. e = [opts |-> Append(a.opts, r), wants |-> w, over |-> a.over, used |-> a.used + 1]
    BY <2>2, FourFields
  <2> QED
    BY <2>3 DEF e
<1>3. [a EXCEPT !.used = @ + 1, !.opts = Append(@, r)] =
        [opts |-> Append(a.opts, r), wants |-> a.wants, over |-> a.over, used |-> a.used + 1]
  <2> DEFINE e == [a EXCEPT !.used = @ + 1, !.opts = Append(@, r)]
  <2>1. a.opts \in Seq(Results) /\ Append(a.opts, r) \in Seq(Results) /\ a.used + 1 \in Nat
    BY DEF Readings
  <2>2. e \in Readings /\ e.opts = Append(a.opts, r) /\ e.wants = a.wants /\ e.over = a.over /\ e.used = a.used + 1
    BY <2>1 DEF Readings
  <2> HIDE DEF e
  <2>3. e = [opts |-> Append(a.opts, r), wants |-> a.wants, over |-> a.over, used |-> a.used + 1]
    BY <2>2, FourFields
  <2> QED
    BY <2>3 DEF e
<1>4. [a EXCEPT !.used = @ + 1, !.wants = w] =
        [opts |-> a.opts, wants |-> w, over |-> a.over, used |-> a.used + 1]
  <2> DEFINE e == [a EXCEPT !.used = @ + 1, !.wants = w]
  <2>1. a.opts \in Seq(Results) /\ Append(a.opts, r) \in Seq(Results) /\ a.used + 1 \in Nat
    BY DEF Readings
  <2>2. e \in Readings /\ e.opts = a.opts /\ e.wants = w /\ e.over = a.over /\ e.used = a.used + 1
    BY <2>1 DEF Readings
  <2> HIDE DEF e
  <2>3. e = [opts |-> a.opts, wants |-> w, over |-> a.over, used |-> a.used + 1]
    BY <2>2, FourFields
  <2> QED
    BY <2>3 DEF e
<1>5. [a EXCEPT !.used = @ + 1, !.opts = Append(@, r), !.wants = w] = Grown(a, <<r>>, w, a.over, 1)
  BY <1>1, <1>2 DEF Grown
<1>6. [a EXCEPT !.used = @ + 1, !.opts = Append(@, r)] = Grown(a, <<r>>, a.wants, a.over, 1)
  BY <1>1, <1>3 DEF Grown
<1>7. [a EXCEPT !.used = @ + 1, !.wants = w] = Grown(a, <<>>, w, a.over, 1)
  BY <1>1, <1>4 DEF Grown
<1> QED
  BY <1>5, <1>6, <1>7

\* What an argument adds does not depend on what was read before it.
Adds(f, acc, t, s, w, o, u) ==
  \A a \in Readings : a.wants = acc.wants /\ a.over = acc.over =>
    AddToken(f, a, t) = Grown(a, s, w, o, u)

LEMMA TokenAdds ==
  ASSUME NEW f, NEW acc \in Readings, NEW t \in Arguments
  PROVE  \E s \in Seq(Results), w \in Wants, o \in BOOLEAN, u \in {0, 1} : Adds(f, acc, t, s, w, o, u)
<1> DEFINE Same(a) == a \in Readings /\ a.wants = acc.wants /\ a.over = acc.over
<1>1. SUFFICES \E s \in Seq(Results), w \in Wants, o \in BOOLEAN, u \in {0, 1} :
                 \A a : Same(a) => AddToken(f, a, t) = Grown(a, s, w, o, u)
  BY DEF Adds
<1>2. /\ <<>> \in Seq(Results) /\ <<>> \in Wants /\ \A r \in Results : <<r>> \in Seq(Results)
      /\ acc.wants \in Wants /\ acc.over \in BOOLEAN
  BY DEF Wants, Readings
<1>3. CASE acc.over
  <2>1. \A a : Same(a) => AddToken(f, a, t) = Grown(a, <<>>, acc.wants, acc.over, 0)
    <3> TAKE a
    <3> HAVE Same(a)
    <3>1. AddToken(f, a, t) = a
      BY <1>3 DEF AddToken
    <3> QED
      BY <3>1, Fields
  <2> QED
    BY <1>2, <2>1
<1>4. CASE ~acc.over /\ acc.wants # <<>>
  <2> DEFINE r == Opt(Last(acc.wants), t)
  <2>1. r \in Results
    <3>1. Last(acc.wants) \in Options
      BY <1>2, <1>4, WantsOne DEF Options
    <3>2. t \in Given
      BY DEF Given
    <3> QED
      BY <3>1, <3>2, ResultTypes
  <2>2. \A a : Same(a) => AddToken(f, a, t) = Grown(a, <<r>>, <<>>, acc.over, 1)
    <3> TAKE a
    <3> HAVE Same(a)
    <3>1. AddToken(f, a, t) = [a EXCEPT !.used = @ + 1, !.opts = Append(@, r), !.wants = <<>>]
      BY <1>4 DEF AddToken, Readings
    <3> HIDE DEF r
    <3>2. \A w \in Wants :
            [a EXCEPT !.used = @ + 1, !.opts = Append(@, r), !.wants = w] = Grown(a, <<r>>, w, a.over, 1)
      BY <2>1, GrownByOne
    <3>3. [a EXCEPT !.used = @ + 1, !.opts = Append(@, r), !.wants = <<>>] = Grown(a, <<r>>, <<>>, a.over, 1)
      BY <1>2, <3>2
    <3> QED
      BY <3>1, <3>3
  <2> HIDE DEF r
  <2> QED
    BY <1>2, <2>1, <2>2
<1>5. CASE ~acc.over /\ acc.wants = <<>>
  <2>1. \A a : Same(a) => ~a.over /\ a.wants = <<>>
    BY <1>5
  <2>2. CASE t.kind = "cluster"
    <3>1. t.letters \in Seq(Letters)
      BY <2>2, Kinds
    <3>2. PICK s \in Seq(Results), w \in Wants :
            \A a \in Readings : a.wants = <<>> =>
              AddCluster(a, t.letters) = [opts |-> a.opts \o s, wants |-> w, over |-> a.over, used |-> a.used]
      BY <1>5, <3>1, ClusterAdds
    <3>3. \A a : Same(a) => AddToken(f, a, t) = Grown(a, s, w, acc.over, 1)
      <4> TAKE a
      <4> HAVE Same(a)
      <4> DEFINE on == [a EXCEPT !.used = @ + 1]
      <4>1. AddToken(f, a, t) = AddCluster(on, t.letters)
        BY <2>1, <2>2 DEF AddToken
      <4>2. on \in Readings /\ on.opts = a.opts /\ on.wants = <<>> /\ on.over = acc.over /\ on.used = a.used + 1
        BY <2>1, Fields
      <4> HIDE DEF on
      <4>3. AddCluster(on, t.letters) = [opts |-> on.opts \o s, wants |-> w, over |-> on.over, used |-> on.used]
        BY <3>2, <4>2
      <4> QED
        BY <4>1, <4>2, <4>3 DEF Grown
    <3> QED
      BY <1>2, <3>3
  <2>3. CASE t.kind = "separator"
    <3>1. \A a : Same(a) => AddToken(f, a, t) = Grown(a, <<>>, <<>>, TRUE, 1)
      <4> TAKE a
      <4> HAVE Same(a)
      <4> DEFINE on == [a EXCEPT !.used = @ + 1]
      <4>1. AddToken(f, a, t) = [on EXCEPT !.over = TRUE]
        BY <2>1, <2>3 DEF AddToken
      <4>2. on \in Readings /\ on.opts = a.opts /\ on.wants = <<>> /\ on.used = a.used + 1
        BY <2>1, Fields
      <4> HIDE DEF on
      <4>3. [on EXCEPT !.over = TRUE] = Grown(on, <<>>, on.wants, TRUE, 0)
        BY <4>2, Fields
      <4>4. Grown(on, <<>>, on.wants, TRUE, 0) = Grown(a, <<>>, <<>>, TRUE, 1)
        <5>1. a.used \in Nat
          BY Fields
        <5>2. (a.used + 1) + 0 = a.used + 1
          BY <5>1
        <5> QED
          BY <4>2, <5>2 DEF Grown
      <4> QED
        BY <4>1, <4>3, <4>4
    <3> QED
      BY <1>2, <3>1
  <2>4. CASE t.kind = "word" \/ (t.kind = "long" /\ f # "getopt_long")
    <3>1. \A a : Same(a) => AddToken(f, a, t) = Grown(a, <<>>, <<>>, TRUE, 0)
      <4> TAKE a
      <4> HAVE Same(a)
      <4>1. AddToken(f, a, t) = [a EXCEPT !.over = TRUE]
        BY <2>1, <2>4 DEF AddToken
      <4> QED
        BY <2>1, <4>1, Fields
    <3> QED
      BY <1>2, <3>1
  <2>5. CASE t.kind = "long" /\ f = "getopt_long"
    <3>1. t.name \in Names /\ t.value \in Values \cup {None}
      BY <2>5, Kinds
    <3>2. \A a : Same(a) => AddToken(f, a, t) = AddLong([a EXCEPT !.used = @ + 1], t)
      BY <2>1, <2>5 DEF AddToken
    <3>3. CASE t.name \in DOMAIN LongOpts /\ LongOpts[t.name] = "required" /\ t.value = None
      <4>1. <<None, t.name>> \in Wants
        BY <3>1 DEF Wants
      <4>2. \A a : Same(a) => AddToken(f, a, t) = Grown(a, <<>>, <<None, t.name>>, acc.over, 1)
        <5> TAKE a
        <5> HAVE Same(a)
        <5>1. AddToken(f, a, t) = [a EXCEPT !.used = @ + 1, !.wants = <<None, t.name>>]
          BY <3>2, <3>3 DEF AddLong, Readings
        <5>2. Invalid(None) \in Results
          BY ResultTypes DEF Options
        <5> QED
          BY <4>1, <5>1, <5>2, GrownByOne
      <4> QED
        BY <1>2, <4>1, <4>2
    <3>4. CASE ~(t.name \in DOMAIN LongOpts /\ LongOpts[t.name] = "required" /\ t.value = None)
      <4> DEFINE r == IF t.name \notin DOMAIN LongOpts THEN Invalid(None)
                      ELSE Opt(t.name, IF LongOpts[t.name] = "no" THEN None ELSE t.value)
      <4>1. r \in Results
        <5>1. None \in Options /\ t.name \in Options /\ None \in Given /\ t.value \in Given
          BY <3>1 DEF Options, Given
        <5> HIDE DEF Opt, Invalid
        <5> QED
          BY <5>1, ResultTypes
      <4>2. \A a : Same(a) => AddToken(f, a, t) = Grown(a, <<r>>, <<>>, acc.over, 1)
        <5> TAKE a
        <5> HAVE Same(a)
        <5>1. AddToken(f, a, t) = [a EXCEPT !.used = @ + 1, !.opts = Append(@, r)]
          BY <3>2, <3>4 DEF AddLong, Readings
        <5> HIDE DEF r
        <5>2. [a EXCEPT !.used = @ + 1, !.opts = Append(@, r)] = Grown(a, <<r>>, a.wants, a.over, 1)
          BY <1>2, <4>1, GrownByOne
        <5> QED
          BY <2>1, <5>1, <5>2
      <4> HIDE DEF r
      <4> QED
        BY <1>2, <4>1, <4>2
    <3> QED
      BY <3>3, <3>4
  <2> QED
    BY <2>2, <2>3, <2>4, <2>5, Kinds
<1> QED
  BY <1>3, <1>4, <1>5

------------------------------------------------------------------------------
(* Readings that differ in what they began with. *)

LEMMA ReadingTypes ==
  ASSUME NEW f, NEW args \in Argvs, NEW l \in Seq(Letters), NEW i \in Nat \ {0}
  PROVE  \A n \in 0 .. Len(args) : Reading(f, args, l, i, n) \in Readings
<1> DEFINE T == {n \in 0 .. Len(args) : Reading(f, args, l, i, n) \notin Readings}
<1>1. SUFFICES ASSUME T # {} PROVE FALSE
  OBVIOUS
<1>2. args \in Seq(Arguments) /\ Len(args) \in Nat
  BY ArgumentTypes
<1>3. PICK x \in T : \A y \in T : x <= y
  <2>1. T \subseteq Nat
    BY <1>2
  <2> QED
    BY <1>1, <2>1, Least
<1>4. x \in Nat /\ x \in 0 .. Len(args) /\ Reading(f, args, l, i, x) \notin Readings
  BY <1>2, <1>3
<1>5. ~(x < i)
  <2>1. x < i => Reading(f, args, l, i, x) = Begun(l, i)
    BY <1>4, ReadingStarts
  <2>2. Begun(l, i) \in Readings
    BY StartTypes
  <2> QED
    BY <1>4, <2>1, <2>2
<1>6. Reading(f, args, l, i, x) = AddToken(f, Reading(f, args, l, i, x - 1), args[x])
  BY <1>4, <1>5, ReadingOnward
<1>7. x - 1 \in 0 .. Len(args) /\ ~(x <= x - 1) /\ x \in 1 .. Len(args)
  BY <1>2, <1>4, <1>5
<1>8. Reading(f, args, l, i, x - 1) \in Readings /\ args[x] \in Arguments
  BY <1>2, <1>3, <1>7
<1>9. \A a \in Readings, t \in Arguments : AddToken(f, a, t) \in Readings
  <2> TAKE a \in Readings, t \in Arguments
  <2>1. PICK s \in Seq(Results), w \in Wants, o \in BOOLEAN, u \in {0, 1} : Adds(f, a, t, s, w, o, u)
    BY TokenAdds
  <2>3. AddToken(f, a, t) = Grown(a, s, w, o, u)
    BY <2>1 DEF Adds
  <2>2. a.opts \o s \in Seq(Results) /\ a.used + u \in Nat
    <3>1. a.opts \in Seq(Results) /\ a.used \in Nat
      BY Fields
    <3> QED
      BY <3>1, ConcatTypes
  <2> QED
    BY <2>1, <2>2, <2>3 DEF Grown, Readings
<1> QED
  BY <1>4, <1>6, <1>8, <1>9

LEMMA PrefixedTypes ==
  ASSUME NEW r \in Seq(Results), NEW a \in Readings
  PROVE  Prefixed(r, a) \in Readings
<1>1. a.opts \in Seq(Results) /\ a.wants \in Wants /\ a.over \in BOOLEAN /\ a.used \in Nat
  BY Fields
<1>2. r \o a.opts \in Seq(Results)
  BY <1>1, ConcatTypes
<1> QED
  BY <1>1, <1>2 DEF Prefixed, Readings

LEMMA PrefixedTwice ==
  ASSUME NEW r \in Seq(Results), NEW s \in Seq(Results), NEW a \in Readings
  PROVE  Prefixed(r, Prefixed(s, a)) = Prefixed(r \o s, a)
<1>1. a.opts \in Seq(Results)
  BY Fields
<1>2. r \o (s \o a.opts) = (r \o s) \o a.opts
  <2> DEFINE z == a.opts
  <2>1. z \in Seq(Results)
    BY <1>1
  <2> HIDE DEF z
  <2>2. (r \o s) \o z = r \o (s \o z)
    BY <2>1, ConcatAssociative
  <2> QED
    BY <2>2 DEF z
<1> QED
  BY <1>2 DEF Prefixed

\* What was in front of a reading stays there.
LEMMA TokenPrefixed ==
  ASSUME NEW f, NEW a \in Readings, NEW r \in Seq(Results), NEW t \in Arguments
  PROVE  AddToken(f, Prefixed(r, a), t) = Prefixed(r, AddToken(f, a, t))
<1>1. PICK s \in Seq(Results), w \in Wants, o \in BOOLEAN, u \in {0, 1} : Adds(f, a, t, s, w, o, u)
  BY TokenAdds
<1>2. AddToken(f, a, t) = Grown(a, s, w, o, u)
  BY <1>1 DEF Adds
<1>3. AddToken(f, Prefixed(r, a), t) = Grown(Prefixed(r, a), s, w, o, u)
  <2>1. Prefixed(r, a) \in Readings
    BY PrefixedTypes
  <2>2. Prefixed(r, a).wants = a.wants /\ Prefixed(r, a).over = a.over
    BY DEF Prefixed
  <2> QED
    BY <1>1, <2>1, <2>2 DEF Adds
<1>4. (r \o a.opts) \o s = r \o (a.opts \o s)
  <2> DEFINE z == a.opts
  <2>1. z \in Seq(Results)
    BY Fields
  <2> HIDE DEF z
  <2>2. (r \o z) \o s = r \o (z \o s)
    BY <2>1, ConcatAssociative
  <2> QED
    BY <2>2 DEF z
<1>5. Grown(Prefixed(r, a), s, w, o, u) = [opts |-> (r \o a.opts) \o s, wants |-> w, over |-> o, used |-> a.used + u]
  BY DEF Grown, Prefixed
<1>6. Prefixed(r, Grown(a, s, w, o, u)) = [opts |-> r \o (a.opts \o s), wants |-> w, over |-> o, used |-> a.used + u]
  BY DEF Grown, Prefixed
<1> QED
  BY <1>2, <1>3, <1>4, <1>5, <1>6

\* Two readings that agree somewhere, but for results in front, do so to the end.
LEMMA ReadingPrefixed ==
  ASSUME NEW f, NEW args \in Argvs, NEW l \in Seq(Letters), NEW m \in Seq(Letters),
         NEW i \in Nat \ {0}, NEW j \in Nat \ {0}, NEW r \in Seq(Results),
         NEW n \in 0 .. Len(args), i <= n + 1, j <= n + 1,
         Reading(f, args, l, i, n) = Prefixed(r, Reading(f, args, m, j, n))
  PROVE  Parsed(f, args, l, i) = Prefixed(r, Parsed(f, args, m, j))
<1> DEFINE T == {k \in n .. Len(args) : Reading(f, args, l, i, k) # Prefixed(r, Reading(f, args, m, j, k))}
<1>1. args \in Seq(Arguments) /\ Len(args) \in Nat
  BY ArgumentTypes
<1>2. T = {}
  <2>1. SUFFICES ASSUME T # {} PROVE FALSE
    OBVIOUS
  <2>2. PICK x \in T : \A y \in T : x <= y
    <3>1. T \subseteq Nat
      BY <1>1
    <3> QED
      BY <2>1, <3>1, Least
  <2>3. /\ x \in n .. Len(args) /\ x # n /\ x - 1 \in n .. Len(args) /\ ~(x <= x - 1)
        /\ x \in Nat /\ x - 1 \in 0 .. Len(args) /\ x \in 1 .. Len(args) /\ ~(x < i) /\ ~(x < j)
    BY <1>1, <2>2
  <2>4. Reading(f, args, l, i, x - 1) = Prefixed(r, Reading(f, args, m, j, x - 1))
    BY <2>2, <2>3
  <2>5. Reading(f, args, l, i, x) = AddToken(f, Reading(f, args, l, i, x - 1), args[x])
    BY <2>3, ReadingOnward
  <2>6. Reading(f, args, m, j, x) = AddToken(f, Reading(f, args, m, j, x - 1), args[x])
    BY <2>3, ReadingOnward
  <2>7. Reading(f, args, m, j, x - 1) \in Readings /\ args[x] \in Arguments
    BY <1>1, <2>3, ReadingTypes
  <2>8. Reading(f, args, l, i, x) = Prefixed(r, Reading(f, args, m, j, x))
    BY <2>4, <2>5, <2>6, <2>7, TokenPrefixed
  <2> QED
    BY <2>2, <2>8
<1>3. Len(args) \in n .. Len(args)
  BY <1>1
<1> QED
  BY <1>2, <1>3 DEF Parsed

\* Nothing is read behind the first operand.
LEMMA ReadingOver ==
  ASSUME NEW f, NEW args \in Argvs, NEW l \in Seq(Letters), NEW i \in Nat \ {0},
         NEW n \in 0 .. Len(args), i <= n + 1, Reading(f, args, l, i, n).over
  PROVE  Parsed(f, args, l, i) = Reading(f, args, l, i, n)
<1> DEFINE T == {k \in n .. Len(args) : Reading(f, args, l, i, k) # Reading(f, args, l, i, n)}
<1>1. Len(args) \in Nat
  BY ArgumentTypes
<1>2. T = {}
  <2>1. SUFFICES ASSUME T # {} PROVE FALSE
    OBVIOUS
  <2>2. PICK x \in T : \A y \in T : x <= y
    <3>1. T \subseteq Nat
      BY <1>1
    <3> QED
      BY <2>1, <3>1, Least
  <2>3. /\ x \in n .. Len(args) /\ x # n /\ x - 1 \in n .. Len(args) /\ ~(x <= x - 1)
        /\ x \in Nat /\ ~(x < i)
    BY <1>1, <2>2
  <2>4. Reading(f, args, l, i, x - 1) = Reading(f, args, l, i, n)
    BY <2>2, <2>3
  <2>5. Reading(f, args, l, i, x) = AddToken(f, Reading(f, args, l, i, x - 1), args[x])
    BY <2>3, ReadingOnward
  <2>6. Reading(f, args, l, i, x) = Reading(f, args, l, i, x - 1)
    BY <2>4, <2>5 DEF AddToken
  <2> QED
    BY <2>2, <2>4, <2>6
<1>3. Len(args) \in n .. Len(args)
  BY <1>1
<1> QED
  BY <1>2, <1>3 DEF Parsed

------------------------------------------------------------------------------
(* What the next call has in front of it. *)

\* Behind the last argument there is only what remains of a cluster.
LEMMA EndReads ==
  ASSUME NEW f, NEW args \in Argvs, NEW l \in Seq(Letters)
  PROVE  Parsed(f, args, l, Len(args) + 1) = Begun(l, Len(args) + 1)
<1>1. Len(args) \in Nat /\ Len(args) + 1 \in Nat \ {0} /\ Len(args) < Len(args) + 1
  BY ArgumentTypes
<1> QED
  BY <1>1, ReadingStarts DEF Parsed

\* An argument, when nothing remains of a cluster.
LEMMA ArgumentReads ==
  ASSUME NEW f, NEW args \in Argvs, NEW i \in 1 .. Len(args)
  PROVE  Reading(f, args, <<>>, i, i) = AddToken(f, Begun(<<>>, i), args[i])
<1>1. Len(args) \in Nat /\ i \in Nat \ {0} /\ i - 1 \in Nat /\ i - 1 < i /\ ~(i < i)
  BY ArgumentTypes
<1>2. Reading(f, args, <<>>, i, i) = AddToken(f, Reading(f, args, <<>>, i, i - 1), args[i])
  BY <1>1, ReadingOnward
<1>3. Reading(f, args, <<>>, i, i - 1) = Begun(<<>>, i)
  BY <1>1, ReadingStarts
<1> QED
  BY <1>2, <1>3

\* A reading before its first argument.
LEMMA BeforeReads ==
  ASSUME NEW f, NEW args, NEW l, NEW i \in Nat \ {0}
  PROVE  Reading(f, args, l, i, i - 1) = Begun(l, i)
<1>1. i - 1 \in Nat /\ i - 1 < i
  OBVIOUS
<1> QED
  BY <1>1, ReadingStarts

\* A reading of no options, with one more argument or at its end.
LEMMA EmptyReading ==
  ASSUME NEW n \in Nat, NEW b, b = [opts |-> <<>>, wants |-> <<>>, over |-> FALSE, used |-> n]
  PROVE  /\ [b EXCEPT !.used = @ + 1] = [opts |-> <<>>, wants |-> <<>>, over |-> FALSE, used |-> n + 1]
         /\ [b EXCEPT !.over = TRUE] = [opts |-> <<>>, wants |-> <<>>, over |-> TRUE, used |-> n]
         /\ [[b EXCEPT !.used = @ + 1] EXCEPT !.over = TRUE] =
              [opts |-> <<>>, wants |-> <<>>, over |-> TRUE, used |-> n + 1]
<1>1. <<>> \in Seq(Results) /\ <<>> \in Wants /\ n + 1 \in Nat /\ <<>> \o <<>> = <<>> /\ n + 0 = n
      /\ (n + 1) + 0 = n + 1
  BY DEF Wants
<1>2. \A m \in Nat : [opts |-> <<>>, wants |-> <<>>, over |-> FALSE, used |-> m] \in Readings
  BY <1>1 DEF Readings
<1>3. b \in Readings /\ b.opts = <<>> /\ b.wants = <<>> /\ b.over = FALSE /\ b.used = n
  BY <1>2
<1> DEFINE on == [b EXCEPT !.used = @ + 1]
<1>4. on = Grown(b, <<>>, b.wants, b.over, 1) /\ on \in Readings
  BY <1>3, Fields
<1>5. on = [opts |-> <<>>, wants |-> <<>>, over |-> FALSE, used |-> n + 1]
  BY <1>1, <1>3, <1>4 DEF Grown
<1>6. [b EXCEPT !.over = TRUE] = [opts |-> <<>>, wants |-> <<>>, over |-> TRUE, used |-> n]
  <2>1. [b EXCEPT !.over = TRUE] = Grown(b, <<>>, b.wants, TRUE, 0)
    BY <1>3, Fields
  <2> QED
    BY <1>1, <1>3, <2>1 DEF Grown
<1> HIDE DEF on
<1>7. [on EXCEPT !.over = TRUE] = [opts |-> <<>>, wants |-> <<>>, over |-> TRUE, used |-> n + 1]
  <2>1. [on EXCEPT !.over = TRUE] = Grown(on, <<>>, on.wants, TRUE, 0)
    BY <1>4, Fields
  <2>2. on.opts = <<>> /\ on.wants = <<>> /\ on.used = n + 1
    BY <1>5
  <2> QED
    BY <1>1, <2>1, <2>2 DEF Grown
<1> QED
  BY <1>5, <1>6, <1>7 DEF on

\* A cluster of which nothing was read yet.
LEMMA ClusterReads ==
  ASSUME NEW f, NEW args \in Argvs, NEW i \in 1 .. Len(args), args[i].kind = "cluster"
  PROVE  /\ args[i].letters \in Seq(Letters) \ {<<>>}
         /\ Parsed(f, args, <<>>, i) = Parsed(f, args, args[i].letters, i + 1)
<1> DEFINE l == args[i].letters
<1>1. args[i] \in Arguments /\ Len(args) \in Nat /\ i \in Nat \ {0} /\ i + 1 \in Nat \ {0} /\ (i + 1) - 1 = i
      /\ i - 1 \in Nat /\ i \in 0 .. Len(args) /\ i <= i + 1 /\ i + 1 <= i + 1
  BY ArgumentTypes
<1>2. l \in Seq(Letters) /\ l # <<>>
  BY <1>1, Kinds
<1> DEFINE b == Begun(<<>>, i)
<1>3. b = [opts |-> <<>>, wants |-> <<>>, over |-> FALSE, used |-> i - 1]
  BY <1>1, StartTypes, <1>2
<1>4. Begun(<<>>, i + 1) = [opts |-> <<>>, wants |-> <<>>, over |-> FALSE, used |-> i]
  BY <1>1, StartTypes, <1>2
<1>5. [b EXCEPT !.used = @ + 1] = Begun(<<>>, i + 1)
  <2>1. (i - 1) + 1 = i
    BY <1>1
  <2> HIDE DEF b
  <2>2. [b EXCEPT !.used = @ + 1] = [opts |-> <<>>, wants |-> <<>>, over |-> FALSE, used |-> (i - 1) + 1]
    BY <1>1, <1>3, EmptyReading
  <2> QED
    BY <1>4, <2>1, <2>2
<1>6. AddToken(f, b, args[i]) = AddCluster([b EXCEPT !.used = @ + 1], l)
  <2>1. b.over = FALSE /\ b.wants = <<>>
    BY <1>3
  <2> QED
    BY <2>1 DEF AddToken
<1>7. Begun(l, i + 1) = AddCluster(Begun(<<>>, i + 1), l)
  BY <1>1, <1>2, StartTypes
<1>8. Reading(f, args, <<>>, i, i) = Reading(f, args, l, i + 1, i)
  <2>1. Reading(f, args, l, i + 1, i) = Begun(l, i + 1)
    <3>1. i \in Nat /\ i + 1 \in Nat \ {0} /\ i < i + 1
      BY <1>1
    <3> QED
      BY <3>1, ReadingStarts
  <2> QED
    BY <1>5, <1>6, <1>7, <2>1, ArgumentReads
<1>9. \A a \in Readings : Prefixed(<<>>, a) = a
  <2> TAKE a \in Readings
  <2>1. a.opts \in Seq(Results)
    BY Fields
  <2>2. <<>> \o a.opts = a.opts
    BY <2>1
  <2>3. a = [opts |-> a.opts, wants |-> a.wants, over |-> a.over, used |-> a.used]
    BY FourFields
  <2> QED
    BY <2>2, <2>3 DEF Prefixed
<1> HIDE DEF l
<1>10. <<>> \in Seq(Results) /\ <<>> \in Seq(Letters)
  OBVIOUS
<1>11. Reading(f, args, <<>>, i, i) = Prefixed(<<>>, Reading(f, args, l, i + 1, i))
  <2>1. Reading(f, args, l, i + 1, i) \in Readings
    BY <1>1, <1>2, ReadingTypes
  <2> QED
    BY <1>8, <1>9, <2>1
<1>12. Parsed(f, args, <<>>, i) = Prefixed(<<>>, Parsed(f, args, l, i + 1))
  <2> DEFINE e == <<>>  j == i + 1
  <2>1. e \in Seq(Letters) /\ e \in Seq(Results) /\ i \in Nat \ {0} /\ j \in Nat \ {0}
        /\ i \in 0 .. Len(args) /\ i <= i + 1 /\ j <= i + 1
    BY <1>1, <1>10
  <2>2. Reading(f, args, e, i, i) = Prefixed(e, Reading(f, args, l, j, i))
    BY <1>11
  <2> HIDE DEF e, j
  <2>3. Parsed(f, args, e, i) = Prefixed(e, Parsed(f, args, l, j))
    BY <1>2, <2>1, <2>2, ReadingPrefixed
  <2> QED
    BY <2>3 DEF e, j
<1>13. Parsed(f, args, l, i + 1) \in Readings
  BY <1>1, <1>2, ReadingTypes DEF Parsed
<1> QED
  BY <1>2, <1>9, <1>12, <1>13 DEF l

\* The argument a parse ends at.
LEMMA OperandReads ==
  ASSUME NEW f, NEW args \in Argvs, NEW i \in 1 .. Len(args)
  PROVE  /\ (args[i].kind = "word" \/ (args[i].kind = "long" /\ f # "getopt_long")) =>
              Parsed(f, args, <<>>, i) = [opts |-> <<>>, wants |-> <<>>, over |-> TRUE, used |-> i - 1]
         /\ args[i].kind = "separator" =>
              Parsed(f, args, <<>>, i) = [opts |-> <<>>, wants |-> <<>>, over |-> TRUE, used |-> i]
<1> DEFINE b == Begun(<<>>, i)
<1>1. args[i] \in Arguments /\ Len(args) \in Nat /\ i \in Nat \ {0} /\ i \in 0 .. Len(args) /\ i <= i + 1
      /\ i - 1 \in Nat /\ (i - 1) + 1 = i /\ <<>> \in Seq(Letters)
  BY ArgumentTypes
<1>2. b = [opts |-> <<>>, wants |-> <<>>, over |-> FALSE, used |-> i - 1]
  BY <1>1, StartTypes
<1> HIDE DEF b
<1>3. b.over = FALSE /\ b.wants = <<>>
  BY <1>2
<1>4. Reading(f, args, <<>>, i, i) = AddToken(f, b, args[i])
  BY ArgumentReads DEF b
<1>5. ASSUME args[i].kind = "word" \/ (args[i].kind = "long" /\ f # "getopt_long")
      PROVE  Parsed(f, args, <<>>, i) = [opts |-> <<>>, wants |-> <<>>, over |-> TRUE, used |-> i - 1]
  <2>1. AddToken(f, b, args[i]) = [b EXCEPT !.over = TRUE]
    BY <1>3, <1>5 DEF AddToken
  <2>2. [b EXCEPT !.over = TRUE] = [opts |-> <<>>, wants |-> <<>>, over |-> TRUE, used |-> i - 1]
    BY <1>1, <1>2, EmptyReading
  <2>3. Reading(f, args, <<>>, i, i) = [opts |-> <<>>, wants |-> <<>>, over |-> TRUE, used |-> i - 1]
    BY <1>4, <2>1, <2>2
  <2>4. Reading(f, args, <<>>, i, i).over
    BY <2>3
  <2>5. Parsed(f, args, <<>>, i) = Reading(f, args, <<>>, i, i)
    BY <1>1, <2>4, ReadingOver
  <2> QED
    BY <2>3, <2>5
<1>6. ASSUME args[i].kind = "separator"
      PROVE  Parsed(f, args, <<>>, i) = [opts |-> <<>>, wants |-> <<>>, over |-> TRUE, used |-> i]
  <2>1. AddToken(f, b, args[i]) = [[b EXCEPT !.used = @ + 1] EXCEPT !.over = TRUE]
    BY <1>3, <1>6 DEF AddToken
  <2>2. [[b EXCEPT !.used = @ + 1] EXCEPT !.over = TRUE] =
          [opts |-> <<>>, wants |-> <<>>, over |-> TRUE, used |-> (i - 1) + 1]
    BY <1>1, <1>2, EmptyReading
  <2>3. Reading(f, args, <<>>, i, i) = [opts |-> <<>>, wants |-> <<>>, over |-> TRUE, used |-> i]
    BY <1>1, <1>4, <2>1, <2>2
  <2>4. Reading(f, args, <<>>, i, i).over
    BY <2>3
  <2>5. Parsed(f, args, <<>>, i) = Reading(f, args, <<>>, i, i)
    BY <1>1, <2>4, ReadingOver
  <2> QED
    BY <2>3, <2>5
<1> QED
  BY <1>5, <1>6

\* An option in front of a reading of nothing else.
Single(r, n) == [opts |-> <<r>>, wants |-> <<>>, over |-> FALSE, used |-> n]

LEMMA SinglePrefixed ==
  ASSUME NEW r \in Results, NEW i \in Nat \ {0}
  PROVE  Single(r, i - 1) = Prefixed(<<r>>, Begun(<<>>, i))
<1>1. <<>> \in Seq(Letters) /\ <<r>> \in Seq(Results)
  OBVIOUS
<1>2. Begun(<<>>, i) = [opts |-> <<>>, wants |-> <<>>, over |-> FALSE, used |-> i - 1]
  BY <1>1, StartTypes
<1>3. <<r>> \o <<>> = <<r>>
  BY <1>1, ConcatEmptySeq
<1> DEFINE b == Begun(<<>>, i)
<1>4. b.opts = <<>> /\ b.wants = <<>> /\ b.over = FALSE /\ b.used = i - 1
  BY <1>2
<1> HIDE DEF b
<1>5. Prefixed(<<r>>, b) = [opts |-> <<r>>, wants |-> <<>>, over |-> FALSE, used |-> i - 1]
  BY <1>3, <1>4 DEF Prefixed
<1> QED
  BY <1>5 DEF Single, b

\* The option that wants an argument takes the next one.
LEMMA WantedGiven ==
  ASSUME NEW f, NEW w \in Wants, w # <<>>, NEW n \in Nat, NEW t \in Arguments
  PROVE  /\ Opt(Last(w), t) \in Results
         /\ AddToken(f, [opts |-> <<>>, wants |-> w, over |-> FALSE, used |-> n], t)
              = Single(Opt(Last(w), t), n + 1)
<1> DEFINE r == Opt(Last(w), t)
           a == [opts |-> <<>>, wants |-> w, over |-> FALSE, used |-> n]
<1>1. r \in Results
  <2>1. Last(w) \in Options
    BY WantsOne DEF Options
  <2>2. t \in Given
    BY DEF Given
  <2> QED
    BY <2>1, <2>2, ResultTypes
<1>2. a \in Readings /\ a.over = FALSE /\ a.wants = w /\ a.opts = <<>> /\ a.used = n
  <2>1. <<>> \in Seq(Results)
    OBVIOUS
  <2> QED
    BY <2>1 DEF Readings
<1> HIDE DEF a
<1>3. AddToken(f, a, t) = [a EXCEPT !.used = @ + 1, !.opts = Append(@, r), !.wants = <<>>]
  BY <1>2 DEF AddToken, Readings
<1> HIDE DEF r
<1>4. \A v \in Wants :
        [a EXCEPT !.used = @ + 1, !.opts = Append(@, r), !.wants = v] = Grown(a, <<r>>, v, a.over, 1)
  BY <1>1, <1>2, GrownByOne
<1>5. [a EXCEPT !.used = @ + 1, !.opts = Append(@, r), !.wants = <<>>] = Grown(a, <<r>>, <<>>, a.over, 1)
  BY <1>4 DEF Wants
<1>6. <<>> \o <<r>> = <<r>>
  <2>1. <<r>> \in Seq(Results)
    BY <1>1
  <2> QED
    BY <2>1, ConcatEmptySeq
<1>7. AddToken(f, a, t) = Single(r, n + 1)
  BY <1>2, <1>3, <1>5, <1>6 DEF Grown, Single
<1> QED
  BY <1>1, <1>7 DEF r, a

\* A cluster of no letters adds nothing, and what is in front of a cluster stays.
LEMMA ClusterPrefixed ==
  ASSUME NEW r \in Results, NEW t \in Seq(Letters), NEW i \in Nat \ {0}
  PROVE  AddCluster(Single(r, i - 1), t) = Prefixed(<<r>>, Begun(t, i))
<1> DEFINE b == Begun(<<>>, i)  a == Single(r, i - 1)
<1>1. a = Prefixed(<<r>>, b)
  BY SinglePrefixed
<1>2. b \in Readings /\ b = [opts |-> <<>>, wants |-> <<>>, over |-> FALSE, used |-> i - 1]
  BY StartTypes
<1>3. <<r>> \in Seq(Results)
  OBVIOUS
<1>4. a \in Readings /\ a.wants = <<>> /\ a.opts = <<r>> /\ a.over = FALSE /\ a.used = i - 1
  <2>1. a \in Readings
    BY <1>1, <1>2, <1>3, PrefixedTypes
  <2> QED
    BY <2>1 DEF Single
<1>5. CASE t = <<>>
  <2>1. Taking(t) = {} /\ Plain(t, Len(t)) = <<>>
    BY <1>5 DEF Taking, Plain
  <2>2. AddCluster(a, t) = [opts |-> a.opts \o <<>>, wants |-> a.wants, over |-> a.over, used |-> a.used]
    BY <1>4, <2>1, AllPlain
  <2>3. a.opts \o <<>> = <<r>>
    BY <1>3, <1>4, ConcatEmptySeq
  <2>4. AddCluster(a, t) = a
    BY <1>4, <2>2, <2>3 DEF Single
  <2> QED
    BY <1>1, <1>5, <2>4
<1>6. CASE t # <<>>
  <2>1. PICK s \in Seq(Results), w \in Wants :
          \A c \in Readings : c.wants = <<>> =>
            AddCluster(c, t) = [opts |-> c.opts \o s, wants |-> w, over |-> c.over, used |-> c.used]
    BY <1>4, ClusterAdds
  <2>2. Begun(t, i) = AddCluster(b, t)
    BY <1>6, StartTypes
  <2>3. b.wants = <<>> /\ b.opts = <<>> /\ b.over = FALSE /\ b.used = i - 1
    BY <1>2
  <2> HIDE DEF a, b
  <2>4. AddCluster(a, t) = [opts |-> a.opts \o s, wants |-> w, over |-> a.over, used |-> a.used]
    BY <1>4, <2>1
  <2>5. AddCluster(b, t) = [opts |-> b.opts \o s, wants |-> w, over |-> b.over, used |-> b.used]
    BY <1>2, <2>1, <2>3
  <2>6. <<>> \o s = s
    BY <2>1, ConcatEmptySeq
  <2>7. AddCluster(a, t) = [opts |-> <<r>> \o s, wants |-> w, over |-> FALSE, used |-> i - 1]
    BY <1>4, <2>4
  <2>8. AddCluster(b, t) = [opts |-> s, wants |-> w, over |-> FALSE, used |-> i - 1]
    BY <2>3, <2>5, <2>6
  <2>9. AddCluster(a, t) = Prefixed(<<r>>, AddCluster(b, t))
    BY <2>7, <2>8 DEF Prefixed
  <2> QED
    BY <2>2, <2>9 DEF a
<1> QED
  BY <1>5, <1>6

\* A reading of nothing but an option that lacks its argument.
Wanting(w, n) == [opts |-> <<>>, wants |-> w, over |-> FALSE, used |-> n]

\* A letter is read off the front of a cluster, with the argument it takes.
LEMMA LetterReads ==
  ASSUME NEW f, NEW args \in Argvs, NEW l \in Seq(Letters), l # <<>>, NEW i \in 1 .. Len(args) + 1
  PROVE  /\ Head(l) \in Letters /\ Tail(l) \in Seq(Letters)
         /\ ~Takes(Head(l)) =>
              Parsed(f, args, l, i) = Prefixed(<<LetterMeaning(Head(l))>>, Parsed(f, args, Tail(l), i))
         /\ Takes(Head(l)) /\ Tail(l) # <<>> =>
              Parsed(f, args, l, i) = Prefixed(<<Opt(Head(l), Text(Tail(l)))>>, Parsed(f, args, <<>>, i))
         /\ Takes(Head(l)) /\ Tail(l) = <<>> /\ i <= Len(args) =>
              Parsed(f, args, l, i) = Prefixed(<<Opt(Head(l), args[i])>>, Parsed(f, args, <<>>, i + 1))
<1> DEFINE o == Head(l)  t == Tail(l)  b == Begun(<<>>, i)  e == <<>>
<1>1. /\ o \in Letters /\ t \in Seq(Letters) /\ e \in Seq(Letters) /\ e \in Seq(Results)
      /\ args \in Seq(Arguments) /\ Len(args) \in Nat /\ i \in Nat \ {0} /\ i + 1 \in Nat \ {0}
      /\ i - 1 \in 0 .. Len(args) /\ i <= (i - 1) + 1 /\ (i - 1) + 1 = i /\ (i + 1) - 1 = i /\ i - 1 \in Nat
  BY ArgumentTypes
<1>2. b \in Readings /\ b = [opts |-> e, wants |-> e, over |-> FALSE, used |-> i - 1]
  BY <1>1, StartTypes
<1>3. b.opts = e /\ b.wants = e /\ b.over = FALSE /\ b.used = i - 1
  BY <1>2
<1>4. Reading(f, args, l, i, i - 1) = AddCluster(b, l)
  <2>1. Begun(l, i) = AddCluster(b, l)
    BY <1>1, StartTypes
  <2> QED
    BY <1>1, <2>1, BeforeReads
<1>5. \A m \in Seq(Letters) : Reading(f, args, m, i, i - 1) = Begun(m, i)
  BY <1>1, BeforeReads
<1> HIDE DEF b
<1>6. AddCluster(b, l) =
        IF Takes(o)
        THEN IF t = <<>>
             THEN [opts |-> e, wants |-> <<o>>, over |-> FALSE, used |-> i - 1]
             ELSE [opts |-> Append(e, Opt(o, Text(t))), wants |-> e, over |-> FALSE, used |-> i - 1]
        ELSE AddCluster([opts |-> Append(e, LetterMeaning(o)), wants |-> e, over |-> FALSE, used |-> i - 1], t)
  <2> HIDE DEF Opt, Text, LetterMeaning
  <2> QED
    BY <1>2, <1>3, ClusterHead
<1>7. \A r : Append(<<>>, r) = <<r>>
  OBVIOUS
<1> HIDE DEF o, t, e
<1>8. ASSUME ~Takes(o)
      PROVE  Parsed(f, args, l, i) = Prefixed(<<LetterMeaning(o)>>, Parsed(f, args, t, i))
  <2> DEFINE r == LetterMeaning(o)
  <2>1. r \in Results
    <3>1. o \in Options /\ None \in Given
      BY <1>1 DEF Options, Given
    <3> QED
      BY <3>1, ResultTypes DEF LetterMeaning
  <2> HIDE DEF r
  <2>2. AddCluster(b, l) = AddCluster(Single(r, i - 1), t)
    BY <1>6, <1>7, <1>8 DEF Single, e, r
  <2>3. AddCluster(Single(r, i - 1), t) = Prefixed(<<r>>, Begun(t, i))
    BY <1>1, <2>1, ClusterPrefixed
  <2>4. Reading(f, args, l, i, i - 1) = Prefixed(<<r>>, Reading(f, args, t, i, i - 1))
    BY <1>1, <1>4, <1>5, <2>2, <2>3
  <2> DEFINE q == <<r>>  n == i - 1
  <2>5. q \in Seq(Results) /\ n \in 0 .. Len(args) /\ i <= n + 1
    BY <1>1, <2>1
  <2>6. Reading(f, args, l, i, n) = Prefixed(q, Reading(f, args, t, i, n))
    BY <2>4
  <2> HIDE DEF q, n
  <2>7. Parsed(f, args, l, i) = Prefixed(q, Parsed(f, args, t, i))
    BY <1>1, <2>5, <2>6, ReadingPrefixed
  <2> QED
    BY <2>7 DEF q, r
<1>9. ASSUME Takes(o), t # <<>>
      PROVE  Parsed(f, args, l, i) = Prefixed(<<Opt(o, Text(t))>>, Parsed(f, args, e, i))
  <2> DEFINE r == Opt(o, Text(t))
  <2>1. r \in Results
    <3>1. o \in Options
      BY <1>1 DEF Options
    <3>2. Text(t) \in Given
      BY <1>1 DEF Given
    <3> QED
      BY <3>1, <3>2, ResultTypes
  <2> HIDE DEF r
  <2>2. AddCluster(b, l) = Single(r, i - 1)
    BY <1>6, <1>7, <1>9 DEF Single, e, r
  <2>3. Single(r, i - 1) = Prefixed(<<r>>, Begun(e, i))
    BY <1>1, <2>1, SinglePrefixed DEF e
  <2>4. Reading(f, args, l, i, i - 1) = Prefixed(<<r>>, Reading(f, args, e, i, i - 1))
    BY <1>1, <1>4, <1>5, <2>2, <2>3
  <2> DEFINE q == <<r>>  n == i - 1
  <2>5. q \in Seq(Results) /\ n \in 0 .. Len(args) /\ i <= n + 1
    BY <1>1, <2>1
  <2>6. Reading(f, args, l, i, n) = Prefixed(q, Reading(f, args, e, i, n))
    BY <2>4
  <2> HIDE DEF q, n
  <2>7. Parsed(f, args, l, i) = Prefixed(q, Parsed(f, args, e, i))
    BY <1>1, <2>5, <2>6, ReadingPrefixed
  <2> QED
    BY <2>7 DEF q, r
<1> DEFINE w == <<o>>
<1>10. w \in Wants /\ w # <<>> /\ Last(w) = o
  BY <1>1 DEF Wants, Last
<1>11. ASSUME Takes(o), t = <<>>
       PROVE  Reading(f, args, l, i, i - 1) = [opts |-> <<>>, wants |-> w, over |-> FALSE, used |-> i - 1]
  BY <1>4, <1>6, <1>11 DEF e
<1> HIDE DEF w
<1>12. ASSUME Takes(o), t = <<>>, i <= Len(args)
       PROVE  Parsed(f, args, l, i) = Prefixed(<<Opt(o, args[i])>>, Parsed(f, args, e, i + 1))
  <2> DEFINE r == Opt(o, args[i])
  <2>1. args[i] \in Arguments /\ i \in 0 .. Len(args) /\ i \in Nat /\ ~(i < i) /\ i <= i + 1
    BY <1>1, <1>12
  <2>2. Reading(f, args, l, i, i) = AddToken(f, Reading(f, args, l, i, i - 1), args[i])
    BY <1>1, <2>1, ReadingOnward
  <2>3. r \in Results /\ AddToken(f, [opts |-> <<>>, wants |-> w, over |-> FALSE, used |-> i - 1], args[i]) = Single(r, i)
    <3>1. Opt(Last(w), args[i]) \in Results
          /\ AddToken(f, [opts |-> <<>>, wants |-> w, over |-> FALSE, used |-> i - 1], args[i])
               = Single(Opt(Last(w), args[i]), (i - 1) + 1)
      <4> HIDE DEF Opt, Single
      <4> QED
        BY <1>1, <1>10, <2>1, WantedGiven
    <3> QED
      BY <1>1, <1>10, <3>1
  <2> HIDE DEF r
  <2>4. Single(r, i) = Prefixed(<<r>>, Begun(e, i + 1))
    <3>1. Single(r, (i + 1) - 1) = Prefixed(<<r>>, Begun(<<>>, i + 1))
      BY <1>1, <2>3, SinglePrefixed
    <3> QED
      BY <1>1, <3>1 DEF e
  <2>5. Reading(f, args, e, i + 1, i) = Begun(e, i + 1)
    <3>1. Reading(f, args, e, i + 1, (i + 1) - 1) = Begun(e, i + 1)
      BY <1>1, BeforeReads
    <3> QED
      BY <1>1, <3>1
  <2>6. Reading(f, args, l, i, i) = Prefixed(<<r>>, Reading(f, args, e, i + 1, i))
    BY <1>11, <1>12, <2>2, <2>3, <2>4, <2>5
  <2> DEFINE j == i + 1  q == <<r>>
  <2>7. q \in Seq(Results)
    BY <2>3
  <2>8. j \in Nat \ {0} /\ j <= i + 1
    BY <1>1
  <2>9. Reading(f, args, l, i, i) = Prefixed(q, Reading(f, args, e, j, i))
    BY <2>6
  <2> HIDE DEF j, q
  <2>10. Parsed(f, args, l, i) = Prefixed(q, Parsed(f, args, e, j))
    BY <1>1, <2>1, <2>7, <2>8, <2>9, ReadingPrefixed
  <2> QED
    BY <2>10 DEF r, j, q
<1> QED
  BY <1>1, <1>8, <1>9, <1>12 DEF o, t, e

\* The last letter of the last cluster, when it lacks its argument.
LEMMA LetterLacks ==
  ASSUME NEW f, NEW args \in Argvs, NEW l \in Seq(Letters), l # <<>>, NEW i \in 1 .. Len(args) + 1,
         Takes(Head(l)), Tail(l) = <<>>, ~(i <= Len(args))
  PROVE  Parsed(f, args, l, i) = Wanting(<<Head(l)>>, Len(args))
<1> DEFINE o == Head(l)  t == Tail(l)  j == Len(args) + 1  b == Begun(<<>>, j)  e == <<>>
<1>1. /\ o \in Letters /\ t = <<>> /\ args \in Seq(Arguments) /\ Len(args) \in Nat /\ i = j
      /\ j \in Nat \ {0} /\ j - 1 = Len(args)
  BY ArgumentTypes
<1>2. b \in Readings /\ b = [opts |-> e, wants |-> e, over |-> FALSE, used |-> j - 1]
      /\ Begun(l, j) = AddCluster(b, l)
  BY <1>1, StartTypes
<1> HIDE DEF b
<1>3. b.opts = e /\ b.wants = e /\ b.over = FALSE /\ b.used = j - 1
  BY <1>2
<1>4. AddCluster(b, l) = [opts |-> e, wants |-> <<o>>, over |-> FALSE, used |-> j - 1]
  <2> HIDE DEF Opt, Text, LetterMeaning
  <2> QED
    BY <1>1, <1>2, <1>3, ClusterHead
<1>5. Parsed(f, args, l, j) = Begun(l, j)
  BY EndReads
<1> HIDE DEF j
<1> QED
  BY <1>1, <1>2, <1>4, <1>5 DEF Wanting

\* A long option wants the next argument when it has none of its own.
WantsNext(tok) == tok.name \in DOMAIN LongOpts /\ LongOpts[tok.name] = "required" /\ tok.value = None

\* What a long option returns when it does not.
LongMeaning(tok) ==
  IF tok.name \notin DOMAIN LongOpts THEN Invalid(None)
  ELSE Opt(tok.name, IF LongOpts[tok.name] = "no" THEN None ELSE tok.value)

\* A long option is read with the argument it takes.
LEMMA LongReads ==
  ASSUME NEW args \in Argvs, NEW i \in 1 .. Len(args), args[i].kind = "long"
  PROVE  LET f == "getopt_long"  tok == args[i] IN
         /\ ~WantsNext(tok) =>
              /\ LongMeaning(tok) \in Results
              /\ Parsed(f, args, <<>>, i) = Prefixed(<<LongMeaning(tok)>>, Parsed(f, args, <<>>, i + 1))
         /\ WantsNext(tok) /\ i + 1 <= Len(args) =>
              /\ Opt(tok.name, args[i + 1]) \in Results
              /\ Parsed(f, args, <<>>, i) = Prefixed(<<Opt(tok.name, args[i + 1])>>, Parsed(f, args, <<>>, i + 2))
         /\ WantsNext(tok) /\ i = Len(args) =>
              Parsed(f, args, <<>>, i) = [opts |-> <<>>, wants |-> <<None, tok.name>>, over |-> FALSE, used |-> i]
<1> DEFINE f == "getopt_long"  tok == args[i]  b == Begun(<<>>, i)  e == <<>>  j == i + 1  k == i + 2
           on == [opts |-> <<>>, wants |-> <<>>, over |-> FALSE, used |-> i]
<1>1. /\ e \in Seq(Letters) /\ e \in Seq(Results) /\ args \in Seq(Arguments) /\ Len(args) \in Nat
      /\ tok \in Arguments /\ i \in Nat \ {0} /\ j \in Nat \ {0} /\ k \in Nat \ {0} /\ i \in 0 .. Len(args)
      /\ i <= i + 1 /\ j <= i + 1 /\ i - 1 \in Nat /\ (i - 1) + 1 = i /\ j - 1 = i /\ k - 1 = j
  BY ArgumentTypes
<1>2. tok.name \in Names /\ tok.value \in Values \cup {None}
  BY <1>1, Kinds
<1>3. b = [opts |-> <<>>, wants |-> <<>>, over |-> FALSE, used |-> i - 1]
      /\ Begun(e, j) = on /\ on \in Readings
  <2>1. Begun(<<>>, j) = [opts |-> <<>>, wants |-> <<>>, over |-> FALSE, used |-> j - 1] /\ Begun(<<>>, j) \in Readings
    BY <1>1, StartTypes
  <2> QED
    BY <1>1, <2>1, StartTypes
<1>4. [b EXCEPT !.used = @ + 1] = on
  <2> HIDE DEF b
  <2> QED
    BY <1>1, <1>3, EmptyReading
<1>5. AddToken(f, b, tok) = AddLong(on, tok)
  <2>1. b.over = FALSE /\ b.wants = <<>>
    BY <1>3
  <2>2. AddToken(f, b, tok) = AddLong([b EXCEPT !.used = @ + 1], tok)
    <3> HIDE DEF b
    <3> QED
      BY <2>1 DEF AddToken
  <2> QED
    BY <1>4, <2>2
<1>6. Reading(f, args, e, i, i) = AddLong(on, tok)
  BY <1>5, ArgumentReads
<1>7. Reading(f, args, e, j, i) = Begun(e, j)
  <2>1. i \in Nat /\ j \in Nat \ {0} /\ i < j
    BY <1>1
  <2> HIDE DEF j
  <2> QED
    BY <2>1, ReadingStarts
<1>8. on.opts = <<>> /\ on.wants = <<>> /\ on.over = FALSE /\ on.used = i
  OBVIOUS
<1> HIDE DEF b, e, j, k
<1>9. ASSUME ~WantsNext(tok)
      PROVE  /\ LongMeaning(tok) \in Results
             /\ Parsed(f, args, e, i) = Prefixed(<<LongMeaning(tok)>>, Parsed(f, args, e, j))
  <2> DEFINE r == LongMeaning(tok)
  <2>1. r \in Results
    <3>1. None \in Options /\ tok.name \in Options /\ None \in Given /\ tok.value \in Given
      BY <1>2 DEF Options, Given
    <3> HIDE DEF Opt, Invalid, tok
    <3> QED
      BY <3>1, ResultTypes DEF LongMeaning
  <2>2. AddLong(on, tok) = [on EXCEPT !.opts = Append(@, r)]
    <3> HIDE DEF on, Opt, Invalid, tok
    <3> QED
      BY <1>9 DEF AddLong, WantsNext, LongMeaning
  <2> HIDE DEF r
  <2>3. [on EXCEPT !.opts = Append(@, r)] = Single(r, i)
    <3>1. [on EXCEPT !.opts = Append(@, r)] = [on EXCEPT !.opts = <<r>>]
      OBVIOUS
    <3>2. on \in Readings /\ <<r>> \in Seq(Results)
      BY <1>3, <2>1
    <3> DEFINE q == <<r>>  a == [on EXCEPT !.opts = q]
    <3> HIDE DEF q
    <3>5. q \in Seq(Results)
      BY <3>2 DEF q
    <3>3. a.opts = q /\ a.wants = <<>> /\ a.over = FALSE /\ a.used = i /\ a \in Readings
      <4> HIDE DEF on
      <4> QED
        BY <1>8, <3>2, <3>5 DEF Readings
    <3> HIDE DEF a
    <3>4. a = [opts |-> q, wants |-> <<>>, over |-> FALSE, used |-> i]
      BY <3>3, FourFields
    <3> QED
      BY <3>1, <3>4 DEF a, q, Single
  <2> DEFINE q == <<r>>
  <2>4. Single(r, i) = Prefixed(q, Begun(e, j))
    <3>1. Single(r, j - 1) = Prefixed(<<r>>, Begun(<<>>, j))
      BY <1>1, <2>1, SinglePrefixed
    <3> QED
      BY <1>1, <3>1 DEF e
  <2>5. Reading(f, args, e, i, i) = Prefixed(q, Reading(f, args, e, j, i))
    BY <1>6, <1>7, <2>2, <2>3, <2>4
  <2>6. q \in Seq(Results)
    BY <2>1
  <2> HIDE DEF q
  <2>7. Parsed(f, args, e, i) = Prefixed(q, Parsed(f, args, e, j))
    BY <1>1, <2>5, <2>6, ReadingPrefixed
  <2> QED
    BY <2>1, <2>7 DEF q, r
<1> DEFINE w == <<None, tok.name>>
<1>10. w \in Wants /\ w # <<>> /\ Last(w) = tok.name
  <2>1. w \in Wants
    BY <1>2 DEF Wants
  <2>2. Len(w) = 2 /\ w[2] = tok.name
    OBVIOUS
  <2> QED
    BY <2>1, <2>2 DEF Last
<1>11. ASSUME WantsNext(tok)
       PROVE  Reading(f, args, e, i, i) = [opts |-> <<>>, wants |-> w, over |-> FALSE, used |-> i]
  <2>1. AddLong(on, tok) = [on EXCEPT !.wants = w]
    <3> HIDE DEF on, tok
    <3> QED
      BY <1>11 DEF AddLong, WantsNext
  <2> DEFINE a == [on EXCEPT !.wants = w]
  <2>2. a.opts = <<>> /\ a.wants = w /\ a.over = FALSE /\ a.used = i /\ a \in Readings
    <3> HIDE DEF on, w
    <3> QED
      BY <1>3, <1>8, <1>10 DEF Readings
  <2> HIDE DEF a, w
  <2>3. a = [opts |-> <<>>, wants |-> w, over |-> FALSE, used |-> i]
    BY <2>2, FourFields
  <2> QED
    BY <1>6, <2>1, <2>3 DEF a
<1> HIDE DEF w
<1>12. ASSUME WantsNext(tok), j <= Len(args)
       PROVE  /\ Opt(tok.name, args[j]) \in Results
              /\ Parsed(f, args, e, i) = Prefixed(<<Opt(tok.name, args[j])>>, Parsed(f, args, e, k))
  <2> DEFINE r == Opt(tok.name, args[j])  q == <<r>>
  <2>1. args[j] \in Arguments /\ j \in 0 .. Len(args) /\ j \in Nat /\ ~(j < i) /\ i <= j + 1 /\ k <= j + 1
    <3>1. Len(args) \in Nat /\ i \in Nat \ {0} /\ i + 1 <= Len(args)
      BY <1>1, <1>12 DEF j
    <3>2. i + 1 \in 1 .. Len(args) /\ ~(i + 1 < i) /\ i <= (i + 1) + 1 /\ i + 2 <= (i + 1) + 1
      BY <3>1
    <3> QED
      BY <1>1, <3>2 DEF j, k
  <2>2. Reading(f, args, e, i, j) = AddToken(f, Reading(f, args, e, i, i), args[j])
    <3>1. i = j - 1
      BY <1>1 DEF j
    <3> QED
      BY <1>1, <2>1, <3>1, ReadingOnward
  <2>3. r \in Results /\ AddToken(f, [opts |-> <<>>, wants |-> w, over |-> FALSE, used |-> i], args[j]) = Single(r, j)
    <3>1. Opt(Last(w), args[j]) \in Results
          /\ AddToken(f, [opts |-> <<>>, wants |-> w, over |-> FALSE, used |-> i], args[j])
               = Single(Opt(Last(w), args[j]), i + 1)
      <4> HIDE DEF Opt, Single
      <4> QED
        BY <1>1, <1>10, <2>1, WantedGiven
    <3> QED
      BY <1>10, <3>1 DEF j
  <2> HIDE DEF r
  <2>4. Single(r, j) = Prefixed(q, Begun(e, k))
    <3>1. Single(r, k - 1) = Prefixed(<<r>>, Begun(<<>>, k))
      BY <1>1, <2>3, SinglePrefixed
    <3> QED
      BY <1>1, <3>1 DEF e
  <2>5. Reading(f, args, e, k, j) = Begun(e, k)
    <3>1. Reading(f, args, e, k, k - 1) = Begun(e, k)
      BY <1>1, BeforeReads
    <3> QED
      BY <1>1, <3>1
  <2>6. Reading(f, args, e, i, j) = Prefixed(q, Reading(f, args, e, k, j))
    BY <1>11, <1>12, <2>2, <2>3, <2>4, <2>5
  <2>7. q \in Seq(Results)
    BY <2>3
  <2> HIDE DEF q
  <2>8. Parsed(f, args, e, i) = Prefixed(q, Parsed(f, args, e, k))
    BY <1>1, <2>1, <2>6, <2>7, ReadingPrefixed
  <2> QED
    BY <2>3, <2>8 DEF q, r
<1>13. ASSUME WantsNext(tok), i = Len(args)
       PROVE  Parsed(f, args, e, i) = [opts |-> <<>>, wants |-> w, over |-> FALSE, used |-> i]
  BY <1>11, <1>13 DEF Parsed
<1> HIDE DEF Opt, LongMeaning
<1> QED
  BY <1>9, <1>12, <1>13 DEF e, w, j, k

------------------------------------------------------------------------------
(* The invariant. *)

GTypes ==
  /\ fn \in {"getopt", "getopt_long"} /\ argv \in Argvs /\ optind \in 1 .. Len(argv) + 1
  /\ next \in Seq(Letters) /\ left \in Seq(Letters) /\ returned \in Seq(Results) /\ over \in BOOLEAN

\* The arguments with what was left when the parse began, and what remains.
Whole == Parsed(fn, argv, left, 1)
Rest  == Parsed(fn, argv, next, optind)

\* What was returned stands in front of what remains.
Halfway == Whole = Prefixed(returned, Rest)

\* The last option lacked its argument; nothing remains.
Lacked ==
  /\ next = <<>> /\ optind = Len(argv) + 1 /\ Whole.used = Len(argv)
  /\ returned = Meaning(fn, argv, left, 1)

GInv ==
  /\ GTypes
  /\ ~over => Halfway \/ Lacked
  /\ over => Accounted /\ OperandsFollow

\* The results a reading comes to.
Said(acc) == acc.opts \o IF acc.wants = <<>> THEN <<>> ELSE <<Missing(acc.wants[1])>>

LEMMA MeaningSaid ==
  ASSUME NEW f, NEW args, NEW l, NEW i
  PROVE  Meaning(f, args, l, i) = Said(Parsed(f, args, l, i))
BY DEF Meaning, Said

LEMMA SaidPrefixed ==
  ASSUME NEW r \in Seq(Results), NEW a \in Readings
  PROVE  /\ Said(a) \in Seq(Results)
         /\ Said(Prefixed(r, a)) = r \o Said(a)
<1> DEFINE z == a.opts  m == IF a.wants = <<>> THEN <<>> ELSE <<Missing(a.wants[1])>>
<1>1. z \in Seq(Results) /\ a.wants \in Wants
  BY Fields
<1>2. m \in Seq(Results)
  <2>1. CASE a.wants = <<>>
    BY <2>1
  <2>2. CASE a.wants # <<>>
    <3>1. a.wants[1] \in Options
      BY <1>1, <2>2, WantsOne DEF Options
    <3>2. Missing(a.wants[1]) \in Results
      BY <3>1, ResultTypes
    <3> HIDE DEF Missing
    <3> QED
      BY <2>2, <3>2
  <2> QED
    BY <2>1, <2>2
<1>3. Said(a) = z \o m /\ Said(Prefixed(r, a)) = (r \o z) \o m
  <2> HIDE DEF Missing
  <2> QED
    BY DEF Said, Prefixed
<1> HIDE DEF z, m
<1>4. r \o (z \o m) = (r \o z) \o m
  BY <1>1, <1>2, ConcatAssociative
<1>5. z \o m \in Seq(Results)
  BY <1>1, <1>2, ConcatTypes
<1> QED
  BY <1>3, <1>4, <1>5

\* The reading of a whole vector is one.
LEMMA ParsedTypes ==
  ASSUME NEW f, NEW args \in Argvs, NEW l \in Seq(Letters), NEW i \in Nat \ {0}
  PROVE  Parsed(f, args, l, i) \in Readings
<1>1. Len(args) \in Nat /\ Len(args) \in 0 .. Len(args)
  BY ArgumentTypes
<1> QED
  BY <1>1, ReadingTypes DEF Parsed

\* Past the last argument nothing is left to say.
LEMMA NothingRemains ==
  ASSUME NEW f, NEW args \in Argvs
  PROVE  /\ Parsed(f, args, <<>>, Len(args) + 1) =
              [opts |-> <<>>, wants |-> <<>>, over |-> FALSE, used |-> Len(args)]
         /\ Meaning(f, args, <<>>, Len(args) + 1) = <<>>
<1>1. <<>> \in Seq(Letters) /\ Len(args) + 1 \in Nat \ {0} /\ (Len(args) + 1) - 1 = Len(args)
  BY ArgumentTypes
<1>2. Parsed(f, args, <<>>, Len(args) + 1) = Begun(<<>>, Len(args) + 1)
  BY <1>1, EndReads
<1>3. Parsed(f, args, <<>>, Len(args) + 1) =
        [opts |-> <<>>, wants |-> <<>>, over |-> FALSE, used |-> Len(args)]
  BY <1>1, <1>2, StartTypes
<1>4. <<>> \o <<>> = <<>>
  OBVIOUS
<1> QED
  BY <1>3, <1>4 DEF Meaning

\* What surrounds a call of a parse that goes on.
Going == GTypes /\ Halfway /\ ~over /\ UNCHANGED <<fn, argv, left>>

LEMMA GoingTypes ==
  ASSUME Going
  PROVE  /\ argv \in Seq(Arguments) /\ Len(argv) \in Nat /\ optind \in Nat \ {0} /\ 1 \in Nat \ {0}
         /\ Rest \in Readings /\ Whole \in Readings /\ Whole' = Whole
         /\ argv' \in Argvs /\ fn' \in {"getopt", "getopt_long"} /\ left' \in Seq(Letters)
         /\ Whole.wants = Rest.wants /\ Whole.over = Rest.over /\ Whole.used = Rest.used
<1>1. argv \in Seq(Arguments) /\ Len(argv) \in Nat /\ optind \in Nat \ {0}
  BY ArgumentTypes DEF Going, GTypes
<1>2. Rest \in Readings /\ Whole \in Readings
  BY <1>1, ParsedTypes DEF Going, GTypes, Rest, Whole
<1>3. Whole' = Whole
  BY DEF Going, Whole
<1>4. Whole.wants = Rest.wants /\ Whole.over = Rest.over /\ Whole.used = Rest.used
  BY DEF Going, Halfway, Prefixed
<1> QED
  BY <1>1, <1>2, <1>3, <1>4 DEF Going, GTypes

\* A call takes one result off the front of what remains.
LEMMA OneMore ==
  ASSUME Going, NEW r \in Results, UNCHANGED over, returned' = Append(returned, r),
         next' \in Seq(Letters), optind' \in 1 .. Len(argv) + 1,
         Rest = Prefixed(<<r>>, Parsed(fn, argv, next', optind'))
  PROVE  GInv'
<1> DEFINE a == Parsed(fn, argv, next', optind')  q == <<r>>  s == returned
<1>1. optind' \in Nat \ {0} /\ q \in Seq(Results) /\ s \in Seq(Results) /\ argv \in Argvs
  BY GoingTypes DEF Going, GTypes
<1>2. a \in Readings
  BY <1>1, ParsedTypes
<1>3. returned' = s \o q /\ returned' \in Seq(Results)
  <2>1. Append(s, r) = s \o <<r>>
    BY <1>1, AppendIsConcat
  <2> QED
    BY <1>1, <2>1, ConcatTypes
<1>4. Whole = Prefixed(s, Prefixed(q, a))
  BY DEF Going, Halfway
<1>5. Rest' = a
  BY DEF Going, Rest
<1> HIDE DEF a, q, s
<1>6. Whole = Prefixed(s \o q, a)
  BY <1>1, <1>2, <1>4, PrefixedTwice
<1>7. Halfway'
  BY <1>3, <1>5, <1>6, GoingTypes DEF Halfway
<1>8. GTypes'
  BY <1>3, GoingTypes DEF Going, GTypes
<1> QED
  BY <1>7, <1>8 DEF Going, GInv

\* The last option lacks its argument, and says so.
LEMMA LackingOne ==
  ASSUME Going, NEW w \in Wants, w # <<>>, UNCHANGED over, returned' = Append(returned, Missing(w[1])),
         next' = <<>>, optind' = Len(argv) + 1,
         Rest = [opts |-> <<>>, wants |-> w, over |-> FALSE, used |-> Len(argv)]
  PROVE  GInv'
<1> DEFINE r == Missing(w[1])  q == <<r>>  s == returned
<1>1. r \in Results
  <2>1. w[1] \in Options
    BY WantsOne DEF Options
  <2> HIDE DEF Missing
  <2> QED
    BY <2>1, ResultTypes
<1>2. Said(Rest) = <<>> \o q
  BY DEF Said
<1>3. q \in Seq(Results) /\ s \in Seq(Results)
  BY <1>1 DEF Going, GTypes
<1>4. Append(s, r) = s \o q
  BY <1>1, <1>3, AppendIsConcat
<1> HIDE DEF q, r
<1>5. <<>> \o q = q
  BY <1>3, ConcatEmptySeq
<1>6. Said(Whole) = s \o q
  BY <1>2, <1>3, <1>5, SaidPrefixed, GoingTypes DEF Going, Halfway
<1>7. returned' = s \o q /\ returned' \in Seq(Results)
  BY <1>3, <1>4, ConcatTypes DEF r
<1>8. Meaning(fn, argv, left, 1)' = Said(Whole)
  BY MeaningSaid DEF Going, Whole
<1>9. Whole.used = Len(argv)
  BY GoingTypes
<1>10. Lacked'
  BY <1>6, <1>7, <1>8, <1>9, GoingTypes DEF Going, Lacked
<1>11. GTypes'
  <2>1. <<>> \in Seq(Letters) /\ Len(argv) + 1 \in 1 .. Len(argv) + 1
    BY GoingTypes
  <2> QED
    BY <1>7, <2>1, GoingTypes DEF Going, GTypes
<1> QED
  BY <1>10, <1>11 DEF Going, GInv

\* A parse ends where nothing more is read.
LEMMA EndsAtOperand ==
  ASSUME Going, next = <<>>, over' = TRUE, UNCHANGED <<next, returned>>, optind' \in 1 .. Len(argv) + 1,
         Rest.opts = <<>>, Rest.wants = <<>>, optind' = Rest.used + 1
  PROVE  GInv'
<1>1. GTypes'
  BY DEF Going, GTypes
<1>2. Said(Rest) = <<>>
  <2>1. <<>> \o <<>> = <<>>
    OBVIOUS
  <2> QED
    BY <2>1 DEF Said
<1>3. Said(Whole) = returned
  <2>1. returned \o <<>> = returned
    BY ConcatEmptySeq DEF Going, GTypes
  <2> QED
    BY <1>2, <2>1, SaidPrefixed, GoingTypes DEF Going, GTypes, Halfway
<1>4. Meaning(fn', argv', left', 1) = returned
  BY <1>3, MeaningSaid DEF Going, Whole
<1>5. Meaning(fn', argv', next', Len(argv') + 1) = <<>>
  BY NothingRemains DEF Going, GTypes
<1>6. Accounted'
  <2>1. returned \o <<>> = returned
    BY ConcatEmptySeq DEF Going, GTypes
  <2> QED
    BY <1>4, <1>5, <2>1 DEF Accounted
<1>7. OperandsFollow'
  <2>1. Whole.used = Rest.used
    BY GoingTypes
  <2> QED
    BY <2>1 DEF OperandsFollow, Going, Whole
<1> QED
  BY <1>1, <1>6, <1>7 DEF GInv

\* A parse ends past the last argument, with what is left of a cluster.
LEMMA EndsExhausted ==
  ASSUME Going, Exhausted, over' = TRUE, UNCHANGED <<next, optind, returned>>
  PROVE  GInv'
<1>1. optind = Len(argv) + 1
  BY GoingTypes DEF Going, GTypes, Exhausted
<1>2. CASE next = <<>>
  <2>1. Rest = [opts |-> <<>>, wants |-> <<>>, over |-> FALSE, used |-> Len(argv)]
    BY <1>1, <1>2, NothingRemains DEF Going, GTypes, Rest
  <2>2. Rest.opts = <<>> /\ Rest.wants = <<>> /\ Rest.used = Len(argv)
    BY <2>1
  <2>3. optind' \in 1 .. Len(argv) + 1
    BY DEF Going, GTypes
  <2> QED
    BY <1>1, <1>2, <2>2, <2>3, EndsAtOperand
<1>3. CASE next # <<>>
  <2>1. Said(Whole) = returned \o Said(Rest)
    BY SaidPrefixed, GoingTypes DEF Going, GTypes, Halfway
  <2>2. Meaning(fn', argv', left', 1) = returned \o Meaning(fn', argv', next', Len(argv') + 1)
    BY <1>1, <2>1, MeaningSaid DEF Going, Whole, Rest
  <2> QED
    BY <1>3, <2>2 DEF GInv, Going, GTypes, Accounted, OperandsFollow
<1> QED
  BY <1>2, <1>3

\* One letter's call.
LEMMA LetterCall ==
  ASSUME Going, NEW l \in Seq(Letters), l # <<>>, NEW i \in 1 .. Len(argv) + 1,
         Rest = Parsed(fn, argv, l, i), ShortOption(l, i)
  PROVE  GInv'
<1> DEFINE o == Head(l)  t == Tail(l)
<1>1. argv \in Argvs /\ argv \in Seq(Arguments) /\ Len(argv) \in Nat
  BY GoingTypes DEF Going, GTypes
<1>2. o \in Letters /\ t \in Seq(Letters) /\ <<>> \in Seq(Letters)
  BY <1>1, LetterReads
<1>3. o \in Options /\ None \in Given /\ Text(t) \in Given
  BY <1>2 DEF Options, Given
<1>4. CASE ~Takes(o)
  <2>1. next' = t /\ optind' = i /\ Return(LetterMeaning(o))
    BY <1>4 DEF ShortOption, Takes, LetterMeaning
  <2>2. Rest = Prefixed(<<LetterMeaning(o)>>, Parsed(fn, argv, t, i))
    BY <1>1, <1>4, LetterReads
  <2>3. LetterMeaning(o) \in Results
    <3> HIDE DEF Opt, Invalid, o
    <3> QED
      BY <1>3, ResultTypes DEF LetterMeaning
  <2> HIDE DEF o, t
  <2> QED
    BY <1>2, <2>1, <2>2, <2>3, OneMore DEF Return
<1>5. CASE Takes(o) /\ t # <<>>
  <2> DEFINE r == Opt(o, Text(t))
  <2>1. next' = <<>> /\ optind' = i /\ Return(r)
    BY <1>5 DEF ShortOption, Takes, ArgumentTaken
  <2>2. Rest = Prefixed(<<r>>, Parsed(fn, argv, <<>>, i))
    BY <1>1, <1>5, LetterReads
  <2>3. r \in Results
    <3> HIDE DEF Opt, o, t
    <3> QED
      BY <1>3, ResultTypes
  <2> HIDE DEF o, t, r
  <2> QED
    BY <1>2, <2>1, <2>2, <2>3, OneMore DEF Return
<1>6. CASE Takes(o) /\ t = <<>> /\ i <= Len(argv)
  <2> DEFINE r == Opt(o, argv[i])
  <2>1. next' = <<>> /\ optind' = i + 1 /\ Return(r)
    BY <1>6 DEF ShortOption, Takes
  <2>2. Rest = Prefixed(<<r>>, Parsed(fn, argv, <<>>, i + 1))
    BY <1>1, <1>6, LetterReads
  <2>3. r \in Results
    <3>1. argv[i] \in Given
      BY <1>1, <1>6 DEF Given
    <3> HIDE DEF Opt, o
    <3> QED
      BY <1>3, <3>1, ResultTypes
  <2>4. i + 1 \in 1 .. Len(argv) + 1
    BY <1>1, <1>6
  <2> HIDE DEF o, t, r
  <2> QED
    BY <1>2, <2>1, <2>2, <2>3, <2>4, OneMore DEF Return
<1>7. CASE Takes(o) /\ t = <<>> /\ ~(i <= Len(argv))
  <2>1. next' = <<>> /\ optind' = i /\ Return(Missing(o))
    BY <1>7 DEF ShortOption, Takes
  <2>2. i = Len(argv) + 1 /\ i - 1 = Len(argv)
    BY <1>1, <1>7
  <2> DEFINE w == <<o>>
  <2>3. Rest = [opts |-> <<>>, wants |-> w, over |-> FALSE, used |-> Len(argv)]
    <3>1. Rest = Wanting(<<o>>, Len(argv))
      <4>1. Parsed(fn, argv, l, i) = Wanting(<<Head(l)>>, Len(argv))
        BY <1>1, <1>7, LetterLacks
      <4> QED
        BY <4>1
    <3> QED
      BY <3>1 DEF Wanting
  <2>4. w \in Wants /\ w # <<>> /\ w[1] = o
    BY <1>2 DEF Wants
  <2> HIDE DEF w, o, t
  <2> QED
    BY <2>1, <2>2, <2>3, <2>4, LackingOne DEF Return
<1> QED
  BY <1>4, <1>5, <1>6, <1>7

\* One long option's call.
LEMMA LongCall ==
  ASSUME Going, fn = "getopt_long", next = <<>>, optind \in 1 .. Len(argv), argv[optind].kind = "long",
         LongOption(argv[optind])
  PROVE  GInv'
<1> DEFINE i == optind  tok == argv[i]
<1>1. argv \in Argvs /\ argv \in Seq(Arguments) /\ Len(argv) \in Nat /\ i \in 1 .. Len(argv)
      /\ next' = <<>> /\ <<>> \in Seq(Letters) /\ tok.name \in Names
  <2>1. argv \in Seq(Arguments) /\ Len(argv) \in Nat
    BY GoingTypes
  <2>2. tok \in Arguments
    BY <2>1
  <2>3. tok.name \in Names
    BY <2>2, Kinds
  <2> QED
    BY <2>1, <2>3 DEF Going, GTypes, LongOption
<1>2. Rest = Parsed("getopt_long", argv, <<>>, i)
  BY DEF Rest
<1>3. CASE ~WantsNext(tok)
  <2> DEFINE r == LongMeaning(tok)
  <2>1. optind' = i + 1 /\ Return(r)
    <3> HIDE DEF tok
    <3>1. tok.name \in DOMAIN LongOpts => LongOpts[tok.name] \in {"no", "required", "optional"}
      BY ArgumentAssumption
    <3>2. LongOption(tok)
      BY DEF tok
    <3> QED
      BY <1>3, <3>1, <3>2 DEF LongOption, WantsNext, LongMeaning
  <2>2. r \in Results /\ Rest = Prefixed(<<r>>, Parsed(fn, argv, <<>>, i + 1))
    BY <1>1, <1>2, <1>3, LongReads
  <2>3. i + 1 \in 1 .. Len(argv) + 1
    BY <1>1
  <2> HIDE DEF r, tok
  <2> QED
    BY <1>1, <2>1, <2>2, <2>3, OneMore DEF Return
<1>4. CASE WantsNext(tok) /\ i + 1 <= Len(argv)
  <2> DEFINE r == Opt(tok.name, argv[i + 1])
  <2>1. optind' = i + 2 /\ Return(r)
    BY <1>4 DEF LongOption, WantsNext
  <2>2. r \in Results /\ Rest = Prefixed(<<r>>, Parsed(fn, argv, <<>>, i + 2))
    BY <1>1, <1>2, <1>4, LongReads
  <2>3. i + 2 \in 1 .. Len(argv) + 1
    BY <1>1, <1>4
  <2> HIDE DEF r, tok
  <2> QED
    BY <1>1, <2>1, <2>2, <2>3, OneMore DEF Return
<1>5. CASE WantsNext(tok) /\ ~(i + 1 <= Len(argv))
  <2>1. optind' = i + 1 /\ Return(Missing(None))
    BY <1>5 DEF LongOption, WantsNext
  <2>2. i = Len(argv)
    BY <1>1, <1>5
  <2> DEFINE w == <<None, tok.name>>
  <2>3. Rest = [opts |-> <<>>, wants |-> w, over |-> FALSE, used |-> Len(argv)]
    BY <1>1, <1>2, <1>5, <2>2, LongReads
  <2>4. w \in Wants /\ w # <<>> /\ w[1] = None
    BY <1>1 DEF Wants
  <2> HIDE DEF w, tok
  <2> QED
    BY <1>1, <2>1, <2>2, <2>3, <2>4, LackingOne DEF Return
<1> QED
  BY <1>3, <1>4, <1>5

\* Nothing in front.
LEMMA PrefixedNothing ==
  ASSUME NEW a \in Readings
  PROVE  a = Prefixed(<<>>, a)
<1>1. a.opts \in Seq(Results)
  BY Fields
<1>2. <<>> \o a.opts = a.opts
  BY <1>1, ConcatEmptySeq
<1> QED
  BY <1>2, FourFields DEF Prefixed

LEMMA InitGInv == Init => GInv
<1> SUFFICES ASSUME Init PROVE GInv
  OBVIOUS
<1>1. Len(argv) \in Nat /\ 1 \in 1 .. Len(argv) + 1 /\ 1 \in Nat \ {0} /\ argv \in Argvs
      /\ <<>> \in Seq(Letters) /\ <<>> \in Seq(Results)
  BY ArgumentTypes DEF Init
<1>2. Parsed(fn, argv, <<>>, 1) \in Readings
  BY <1>1, ParsedTypes
<1>3. Parsed(fn, argv, <<>>, 1) = Prefixed(<<>>, Parsed(fn, argv, <<>>, 1))
  BY <1>2, PrefixedNothing
<1>4. Halfway
  BY <1>3 DEF Init, Halfway, Whole, Rest
<1> QED
  BY <1>1, <1>4 DEF Init, GInv, GTypes

\* A call of getopt that is not past the last argument.
LEMMA ShortCallInv ==
  ASSUME Going, ~Exhausted, ShortCall,
         ~(fn = "getopt_long" /\ next = <<>> /\ argv[optind].kind = "long")
  PROVE  GInv'
<1> DEFINE i == optind  tok == argv[i]
<1>1. argv \in Argvs /\ argv \in Seq(Arguments) /\ Len(argv) \in Nat /\ i \in 1 .. Len(argv)
      /\ i + 1 \in 1 .. Len(argv) + 1 /\ i \in 1 .. Len(argv) + 1 /\ next \in Seq(Letters)
  BY GoingTypes DEF Going, GTypes, Exhausted
<1>2. CASE next # <<>>
  BY <1>1, <1>2, LetterCall DEF ShortCall, Rest
<1>3. CASE next = <<>>
  <2>1. Rest = Parsed(fn, argv, <<>>, i)
    BY <1>3 DEF Rest
  <2>2. tok \in Arguments
    BY <1>1
  <2>3. tok.kind \in {"word", "separator", "cluster", "long"}
    BY <2>2, Kinds
  <2>4. CASE tok.kind = "cluster"
    <3>1. tok.letters \in Seq(Letters) \ {<<>>} /\ Rest = Parsed(fn, argv, tok.letters, i + 1)
      BY <1>1, <2>1, <2>4, ClusterReads
    <3>2. ShortOption(tok.letters, i + 1)
      BY <1>3, <2>4 DEF ShortCall
    <3> QED
      BY <1>1, <3>1, <3>2, LetterCall
  <2>5. CASE tok.kind = "separator"
    <3>1. Rest = [opts |-> <<>>, wants |-> <<>>, over |-> TRUE, used |-> i]
      BY <1>1, <2>1, <2>5, OperandReads
    <3>2. Rest.opts = <<>> /\ Rest.wants = <<>> /\ Rest.used = i
      BY <3>1
    <3>3. optind' = i + 1 /\ over' = TRUE /\ UNCHANGED <<next, returned>>
      BY <1>3, <2>5 DEF ShortCall, AtSeparator, ReturnEnd
    <3> QED
      BY <1>1, <1>3, <3>2, <3>3, EndsAtOperand
  <2>6. CASE tok.kind \in {"word", "long"}
    <3>1. Rest = [opts |-> <<>>, wants |-> <<>>, over |-> TRUE, used |-> i - 1]
      BY <1>1, <1>3, <2>1, <2>6, OperandReads DEF Going, GTypes
    <3>2. Rest.opts = <<>> /\ Rest.wants = <<>> /\ Rest.used = i - 1
      BY <3>1
    <3>3. optind' = i /\ over' = TRUE /\ UNCHANGED <<next, returned>>
      BY <1>3, <2>6 DEF ShortCall, ReturnEnd
    <3>4. optind' = Rest.used + 1
      BY <1>1, <3>2, <3>3
    <3> QED
      BY <1>1, <1>3, <3>2, <3>3, <3>4, EndsAtOperand
  <2> QED
    BY <2>3, <2>4, <2>5, <2>6
<1> QED
  BY <1>2, <1>3

\* A call after an option that lacked its argument.
LEMMA AfterLacking ==
  ASSUME GTypes, Lacked, Exhausted, UNCHANGED <<fn, argv, left, next, optind, returned>>, over' = TRUE
  PROVE  GInv'
<1>1. argv \in Argvs /\ returned \in Seq(Results)
  BY DEF GTypes
<1>2. Accounted'
  <2>1. returned \o <<>> = returned
    BY <1>1, ConcatEmptySeq
  <2>2. Meaning(fn', argv', next', Len(argv') + 1) = <<>>
    BY <1>1, NothingRemains DEF Lacked
  <2>3. Meaning(fn', argv', left', 1) = returned
    BY DEF Lacked
  <2> QED
    BY <2>1, <2>2, <2>3 DEF Accounted
<1>3. OperandsFollow'
  BY DEF OperandsFollow, Lacked, Whole
<1>4. GTypes'
  BY DEF GTypes
<1> QED
  BY <1>2, <1>3, <1>4 DEF GInv

\* A call keeps the invariant.
LEMMA CallInv ==
  ASSUME GInv, CallGetopt \/ CallGetoptLong
  PROVE  GInv'
<1>1. GTypes /\ ~over /\ UNCHANGED <<fn, argv, left>>
  BY DEF GInv, CallGetopt, CallGetoptLong
<1>2. CASE Halfway
  <2>1. Going
    BY <1>1, <1>2 DEF Going
  <2>2. CASE Exhausted
    <3>1. UNCHANGED <<next, optind>> /\ ReturnEnd
      BY <2>2 DEF CallGetopt, CallGetoptLong
    <3> QED
      BY <2>1, <2>2, <3>1, EndsExhausted DEF ReturnEnd
  <2>3. CASE ~Exhausted /\ fn = "getopt_long" /\ next = <<>> /\ argv[optind].kind = "long"
    <3>1. LongOption(argv[optind])
      BY <2>3 DEF CallGetopt, CallGetoptLong
    <3>2. optind \in 1 .. Len(argv)
      BY <2>1, <2>3, GoingTypes DEF GTypes, Going, Exhausted
    <3> QED
      BY <2>1, <2>3, <3>1, <3>2, LongCall
  <2>4. CASE ~Exhausted /\ ~(fn = "getopt_long" /\ next = <<>> /\ argv[optind].kind = "long")
    <3>1. ShortCall
      BY <2>4 DEF CallGetopt, CallGetoptLong
    <3> QED
      BY <2>1, <2>4, <3>1, ShortCallInv
  <2> QED
    BY <2>2, <2>3, <2>4
<1>3. CASE Lacked
  <2>1. Exhausted
    BY <1>1, <1>3, ArgumentTypes DEF GTypes, Lacked, Exhausted
  <2>2. UNCHANGED <<next, optind>> /\ ReturnEnd
    BY <2>1 DEF CallGetopt, CallGetoptLong
  <2> QED
    BY <1>1, <1>3, <2>1, <2>2, AfterLacking DEF ReturnEnd
<1> QED
  BY <1>1, <1>2, <1>3 DEF GInv

\* What the parse before left in _next is read before the new vector.
LEMMA NewParseInv ==
  ASSUME GInv, NewParse
  PROVE  GInv'
<1>1. Len(argv') \in Nat /\ 1 \in 1 .. Len(argv') + 1 /\ 1 \in Nat \ {0} /\ argv' \in Argvs
      /\ next \in Seq(Letters) /\ <<>> \in Seq(Results)
  BY ArgumentTypes DEF NewParse, GInv, GTypes
<1>2. Parsed(fn', argv', next, 1) \in Readings
  BY <1>1, ParsedTypes
<1>3. Parsed(fn', argv', next, 1) = Prefixed(<<>>, Parsed(fn', argv', next, 1))
  BY <1>2, PrefixedNothing
<1>4. Halfway'
  BY <1>3 DEF NewParse, Halfway, Whole, Rest
<1> QED
  BY <1>1, <1>4 DEF NewParse, GInv, GTypes

LEMMA GetoptInv == Spec => []GInv
<1>1. GInv /\ [Next]_vars => GInv'
  <2> SUFFICES ASSUME GInv, [Next]_vars PROVE GInv'
    OBVIOUS
  <2>1. CASE CallGetopt \/ CallGetoptLong
    BY <2>1, CallInv
  <2>2. CASE NewParse
    BY <2>2, NewParseInv
  <2>3. CASE UNCHANGED vars
    BY <2>3 DEF vars, GInv, GTypes, Halfway, Lacked, Whole, Rest, Accounted, OperandsFollow
  <2> QED
    BY <2>1, <2>2, <2>3 DEF Next
<1> QED
  BY InitGInv, <1>1, PTL DEF Spec

------------------------------------------------------------------------------
(* What follows from it. *)

\* A parse goes on in front of what remains, and what remains is what the
\* arguments still mean.
LEMMA GoingAccounted ==
  ASSUME GInv
  PROVE  Accounted
<1>1. CASE over
  BY <1>1 DEF GInv
<1>2. CASE ~over /\ Halfway
  <2>1. Rest \in Readings /\ returned \in Seq(Results)
    BY <1>2, ArgumentTypes, ParsedTypes DEF GInv, GTypes, Rest
  <2>2. Said(Whole) = returned \o Said(Rest)
    BY <1>2, <2>1, SaidPrefixed DEF Halfway
  <2> QED
    BY <1>2, <2>2, MeaningSaid DEF Whole, Rest, Accounted
<1>3. CASE ~over /\ Lacked
  <2>1. returned \o <<>> = returned
    BY ConcatEmptySeq DEF GInv, GTypes
  <2>2. Meaning(fn, argv, next, optind) = <<>>
    BY <1>3, NothingRemains DEF GInv, GTypes, Lacked
  <2> QED
    BY <1>3, <2>1, <2>2 DEF Accounted, Lacked
<1> QED
  BY <1>1, <1>2, <1>3 DEF GInv

\* At every moment of every sequence of calls and vectors, what was returned
\* and what is still to be returned is what the arguments mean, each option
\* once and with its own argument, after what the parse before left in _next
\* (getopt.c:14, 61-85, 143-179).
THEOREM OptionsAccounted == Spec => []Accounted
<1>1. GInv => Accounted
  BY GoingAccounted
<1> QED
  BY <1>1, GetoptInv, PTL

\* When -1 is returned with no cluster under way, optind is the index of the
\* first operand, past "--" and past every argument an option took
\* (getopt.c:45-55, 74, 112, 162).
THEOREM OperandsComeNext == Spec => []OperandsFollow
<1>1. GInv => OperandsFollow
  BY DEF GInv, OperandsFollow
<1> QED
  BY <1>1, GetoptInv, PTL

------------------------------------------------------------------------------
(* A caller's loop ends. *)

\* optind moves on, or letters of the cluster under way are taken.
Advances(i) == i < optind' \/ (optind' = i /\ Len(next') < Len(next))

\* A call that does not return -1 brings the parse nearer to its end, which
\* optind never passes.
Consumes == optind' <= Len(argv) + 1 /\ (over' \/ Advances(optind))

\* The letters after the first are fewer, and no letters fewer still.
LEMMA FewerLetters ==
  ASSUME NEW l \in Seq(Letters), l # <<>>
  PROVE  Len(Tail(l)) < Len(l) /\ Len(<<>>) < Len(l)
<1>1. Len(l) \in Nat /\ Len(l) # 0
  BY EmptySeq
<1>2. Len(Tail(l)) = Len(l) - 1 /\ Len(<<>>) = 0
  BY HeadTailProperties, EmptySeq
<1> QED
  BY <1>1, <1>2

\* A letter's call leaves fewer letters, and optind where it was or after the
\* argument it took.
LEMMA LetterConsumes ==
  ASSUME NEW l \in Seq(Letters), l # <<>>, NEW i \in Nat, ShortOption(l, i)
  PROVE  Len(next') < Len(l) /\ (optind' = i \/ optind' = i + 1)
<1>1. next' = Tail(l) \/ next' = <<>>
  BY Zenon DEF ShortOption, ArgumentTaken
<1>2. optind' = i \/ optind' = i + 1
  BY Zenon DEF ShortOption
<1> QED
  BY <1>1, <1>2, FewerLetters

\* A long option is stepped over, with the argument it took.
LEMMA LongConsumes ==
  ASSUME NEW i \in Nat, optind = i, LongOption(argv[i])
  PROVE  i < optind'
<1>1. optind' = i + 1 \/ optind' = i + 2
  BY Zenon DEF LongOption
<1> QED
  BY <1>1

\* A call of getopt that is not past the last argument.
LEMMA ShortConsumes ==
  ASSUME GTypes, ~Exhausted, ShortCall,
         ~(fn = "getopt_long" /\ next = <<>> /\ argv[optind].kind = "long")
  PROVE  over' \/ Advances(optind)
<1> DEFINE i == optind  tok == argv[i]
<1>1. argv \in Seq(Arguments) /\ i \in 1 .. Len(argv) /\ i \in Nat /\ i + 1 \in Nat /\ next \in Seq(Letters)
  BY ArgumentTypes DEF GTypes, Exhausted
<1>2. CASE next # <<>>
  <2>1. ShortOption(next, i)
    BY <1>2 DEF ShortCall
  <2>2. Len(next') < Len(next) /\ (optind' = i \/ optind' = i + 1)
    BY <1>1, <1>2, <2>1, LetterConsumes
  <2> QED
    BY <1>1, <2>2 DEF Advances
<1>3. CASE next = <<>> /\ tok.kind = "cluster"
  <2>1. tok.letters \in Seq(Letters) \ {<<>>}
    BY <1>1, <1>3, Kinds
  <2>2. ShortOption(tok.letters, i + 1)
    BY <1>3 DEF ShortCall
  <2>3. optind' = i + 1 \/ optind' = i + 1 + 1
    BY <1>1, <2>1, <2>2, LetterConsumes
  <2> QED
    BY <1>1, <2>3 DEF Advances
<1>4. CASE next = <<>> /\ tok.kind # "cluster"
  <2>1. tok.kind \in {"word", "separator", "long"}
    BY <1>1, <1>4, Kinds
  <2> QED
    BY <1>4, <2>1 DEF ShortCall, AtSeparator, ReturnEnd
<1> QED
  BY <1>2, <1>3, <1>4

\* A caller's `while (getopt(...) != -1)` always ends, whatever the vector and
\* whatever the parse before left in _next: every call returns -1, moves optind
\* on towards the end of the vector, or takes letters off _next with optind
\* where it was (getopt.c:37-85, 99-183).
THEOREM EveryCallConsumes == Spec => [][CallGetopt \/ CallGetoptLong => Consumes]_vars
<1>1. GInv /\ [Next]_vars => [CallGetopt \/ CallGetoptLong => Consumes]_vars
  <2> SUFFICES ASSUME GInv, CallGetopt \/ CallGetoptLong PROVE Consumes
    BY DEF Next
  <2>1. GTypes /\ UNCHANGED argv
    BY DEF GInv, CallGetopt, CallGetoptLong
  <2>2. optind' <= Len(argv) + 1
    BY <2>1, CallInv, ArgumentTypes DEF GInv, GTypes
  <2>3. CASE Exhausted
    <3>1. over' = TRUE
      BY <2>3 DEF CallGetopt, CallGetoptLong, ReturnEnd
    <3> QED
      BY <2>2, <3>1 DEF Consumes
  <2>4. CASE ~Exhausted /\ fn = "getopt_long" /\ next = <<>> /\ argv[optind].kind = "long"
    <3>1. LongOption(argv[optind])
      BY <2>4 DEF CallGetopt, CallGetoptLong
    <3>2. optind \in Nat
      BY <2>1, ArgumentTypes DEF GTypes
    <3> QED
      BY <2>2, <3>1, <3>2, LongConsumes DEF Consumes, Advances
  <2>5. CASE ~Exhausted /\ ~(fn = "getopt_long" /\ next = <<>> /\ argv[optind].kind = "long")
    <3>1. ShortCall
      BY <2>5 DEF CallGetopt, CallGetoptLong
    <3> QED
      BY <2>1, <2>2, <2>5, <3>1, ShortConsumes DEF Consumes
  <2> QED
    BY <2>3, <2>4, <2>5
<1> QED
  BY <1>1, GetoptInv, PTL DEF Spec
==============================================================================
