-------------------------- MODULE ModelImageProofs --------------------------
(***************************************************************************)
(* What an image records of its GGUF files, its CMD, labels and history,   *)
(* for every recipe and any number of builds that start from the images of *)
(* earlier ones.                                                           *)
(***************************************************************************)
EXTENDS ModelImage, TLAPS, WellFoundedInduction, SequenceTheorems

(***************************************************************************)
(* Numbers and recursive functions.  The induction theorems of the library *)
(* have an operator as a parameter; the least element of a set has not.    *)
(***************************************************************************)

LEMMA LeastNumber ==
    ASSUME NEW T \in SUBSET Nat, T # {}
    PROVE  \E m \in T : \A y \in T : m <= y
<1> DEFINE R == {p \in Nat \X Nat : p[1] < p[2]}
<1>1. IsWellFoundedOn(R, Nat)
  BY NatLessThanWellFounded, Zenon DEF OpToRel
<1>2. \E x \in T : \A y \in T : <<y, x>> \notin R
  <2> HIDE DEF R
  <2> QED BY <1>1, WFMin, Zenon
<1>3. PICK x \in T : \A y \in T : <<y, x>> \notin R
  BY <1>2
<1>4. \A y \in T : ~(y < x)
  BY <1>3
<1> QED BY <1>3, <1>4

LEMMA Induction ==
    ASSUME NEW S \in SUBSET Nat, 0 \in S, \A n \in S : n + 1 \in S
    PROVE  S = Nat
<1> SUFFICES ASSUME Nat \ S # {} PROVE FALSE
  OBVIOUS
<1>1. PICK m \in Nat \ S : \A x \in Nat \ S : m <= x
  BY LeastNumber
<1>2. m # 0 /\ m - 1 \in Nat
  BY <1>1
<1>3. m - 1 \in S
  BY <1>1, <1>2
<1> QED BY <1>1, <1>3

LEMMA GreatestNumber ==
    ASSUME NEW n \in Nat, NEW T \in SUBSET (1..n), T # {}
    PROVE  \E m \in T : \A y \in T : y <= m
<1> DEFINE D == {n - x : x \in T}
<1>1. D \in SUBSET Nat /\ D # {}
  <2>1. \A x \in T : n - x \in Nat
    OBVIOUS
  <2> QED BY <2>1
<1>2. PICK d \in D : \A x \in D : d <= x
  BY <1>1, LeastNumber
<1>3. PICK m \in T : d = n - m
  BY <1>2
<1>4. ASSUME NEW y \in T PROVE y <= m
  <2>1. n - y \in D
    OBVIOUS
  <2>2. d <= n - y
    BY <1>2, <2>1
  <2> QED BY <1>3, <2>2
<1> QED BY <1>3, <1>4

\* f goes from a on, step by step, for n steps.
Recursive(f, a, step, n) == \A m \in 1..n : f[m] = IF m = 1 THEN a ELSE step[m][f[m - 1]]

LEMMA Recursion ==
    ASSUME NEW A, NEW a \in A, NEW step \in [Nat -> [A -> A]], NEW N \in Nat
    PROVE  \E f \in [1..N -> A] : Recursive(f, a, step, N)
<1> DEFINE Upto(f, n) == Recursive(f, a, step, n)
           S == {n \in Nat : \E f \in [1..n -> A] : Upto(f, n)}
<1>1. 0 \in S
  <2>1. [m \in 1..0 |-> a] \in [1..0 -> A] /\ Upto([m \in 1..0 |-> a], 0)
    BY DEF Recursive
  <2> QED BY <2>1
<1>2. ASSUME NEW n \in S PROVE n + 1 \in S
  <2>1. PICK f \in [1..n -> A] : Upto(f, n)
    OBVIOUS
  <2> DEFINE last == IF n = 0 THEN a ELSE step[n + 1][f[n]]
             g == [m \in 1..n + 1 |-> IF m = n + 1 THEN last ELSE f[m]]
  <2>2. n \in Nat /\ last \in A
    OBVIOUS
  <2>3. g \in [1..n + 1 -> A]
    BY <2>2
  <2>4. Upto(g, n + 1)
    BY <2>1, <2>2 DEF Recursive
  <2>5. n + 1 \in Nat
    OBVIOUS
  <2> HIDE DEF Upto, g
  <2> QED BY <2>3, <2>4, <2>5
<1>3. S = Nat
  <2> HIDE DEF S
  <2>1. S \in SUBSET Nat
    BY DEF S
  <2> QED BY <1>1, <1>2, <2>1, Induction
<1> QED BY <1>3

(***************************************************************************)
(* The files of a CMD                                                      *)
(***************************************************************************)

Kinds == {"model", "drafter", "projector"}
Types == Kinds \cup {"adapter"}
Pair == [type : Types, file : Parameter]

\* Files with their types, in no order.
Pairs(files) ==
    {[type |-> x, file |-> files[x]] : x \in {y \in Kinds : files[y] # NoFile}}
    \cup {[type |-> "adapter", file |-> files.adapters[j]] : j \in DOMAIN files.adapters}

LEMMA NoFileType == NoFile \in Parameter /\ NoFiles \in Parameters
BY DEF NoFile, NoFiles, Parameter, Parameters, Word

LEMMA FilesType ==
    ASSUME NEW files \in Parameters
    PROVE  /\ \A x \in Kinds : files[x] \in Parameter
           /\ files.adapters \in Seq(Parameter)
           /\ files = [model |-> files.model, drafter |-> files.drafter, projector |-> files.projector, adapters |-> files.adapters]
<1> DEFINE P == Parameter
<1>1. files \in [model : P, drafter : P, projector : P, adapters : Seq(P)]
  BY DEF Parameters
<1> QED BY <1>1 DEF Kinds

LEMMA FunctionIsSeq ==
    ASSUME NEW S, NEW n \in Nat, NEW f \in [1..n -> S]
    PROVE  f \in Seq(S) /\ Len(f) = n /\ DOMAIN f = 1..n
OBVIOUS

\* q is in the sequence l.
Holds(l, q) == \E j \in DOMAIN l : l[j] = q

LEMMA Concatenation ==
    ASSUME NEW S, NEW u \in Seq(S), NEW v \in Seq(S)
    PROVE  u \o v \in Seq(S) /\ \A q : Holds(u \o v, q) <=> Holds(u, q) \/ Holds(v, q)
<1> DEFINE w == u \o v
<1>1. w \in Seq(S) /\ Len(w) = Len(u) + Len(v) /\ Len(u) \in Nat /\ Len(v) \in Nat
  OBVIOUS
<1>2. \A j \in 1..Len(u) + Len(v) : w[j] = IF j <= Len(u) THEN u[j] ELSE v[j - Len(u)]
  OBVIOUS
<1>3. DOMAIN u = 1..Len(u) /\ DOMAIN v = 1..Len(v) /\ DOMAIN w = 1..Len(u) + Len(v)
  OBVIOUS
<1> HIDE DEF w
<1>4. ASSUME NEW j \in DOMAIN u PROVE j \in DOMAIN w /\ w[j] = u[j]
  BY <1>1, <1>2, <1>3
<1>5. ASSUME NEW j \in DOMAIN v PROVE Len(u) + j \in DOMAIN w /\ w[Len(u) + j] = v[j]
  <2>1. Len(u) + j \in DOMAIN w /\ ~(Len(u) + j <= Len(u)) /\ Len(u) + j - Len(u) = j
    BY <1>1, <1>3
  <2> QED BY <1>2, <1>3, <2>1
<1>6. ASSUME NEW j \in DOMAIN w PROVE (j \in DOMAIN u /\ w[j] = u[j]) \/ (j - Len(u) \in DOMAIN v /\ w[j] = v[j - Len(u)])
  BY <1>1, <1>2, <1>3
<1>7. \A q : Holds(w, q) <=> Holds(u, q) \/ Holds(v, q)
  BY <1>4, <1>5, <1>6 DEF Holds
<1> QED BY <1>1, <1>7 DEF w

LEMMA ListedAre ==
    ASSUME NEW files \in Parameters
    PROVE  Listed(files) \in Seq(Pair) /\ \A q : Holds(Listed(files), q) <=> q \in Pairs(files)
<1> DEFINE Typed(x) == IF files[x] = NoFile THEN <<>> ELSE <<[type |-> x, file |-> files[x]]>>
           m == Typed("model")
           d == Typed("drafter")
           p == Typed("projector")
           a == [j \in DOMAIN files.adapters |-> [type |-> "adapter", file |-> files.adapters[j]]]
<1>1. /\ \A x \in Kinds : files[x] \in Parameter
      /\ files.adapters \in Seq(Parameter)
  BY FilesType
<1>2. ASSUME NEW x \in Kinds
      PROVE  Typed(x) \in Seq(Pair) /\ \A q : Holds(Typed(x), q) <=> files[x] # NoFile /\ q = [type |-> x, file |-> files[x]]
  <2>1. [type |-> x, file |-> files[x]] \in Pair
    BY <1>1 DEF Pair, Types
  <2>2. CASE files[x] = NoFile
    <3>1. Typed(x) = <<>>
      BY <2>2
    <3> HIDE DEF Typed
    <3>2. Typed(x) \in Seq(Pair) /\ DOMAIN Typed(x) = {}
      BY <3>1
    <3> QED BY <2>2, <3>2 DEF Holds
  <2>3. CASE files[x] # NoFile
    <3>1. Typed(x) = <<[type |-> x, file |-> files[x]]>>
      BY <2>3
    <3> DEFINE y == [type |-> x, file |-> files[x]]
    <3>2. Typed(x) = <<y>> /\ y \in Pair
      BY <2>1, <3>1
    <3> HIDE DEF Typed, y
    <3>3. Typed(x) \in Seq(Pair) /\ DOMAIN Typed(x) = {1} /\ Typed(x)[1] = y
      BY <3>2
    <3> QED BY <2>3, <3>3 DEF Holds, y
  <2> QED BY <2>2, <2>3
<1>3. a \in Seq(Pair) /\ \A q : Holds(a, q) <=> \E j \in DOMAIN files.adapters : q = [type |-> "adapter", file |-> files.adapters[j]]
  <2>1. \A j \in DOMAIN files.adapters : [type |-> "adapter", file |-> files.adapters[j]] \in Pair
    <3>1. \A j \in DOMAIN files.adapters : files.adapters[j] \in Parameter
      BY <1>1
    <3> QED BY <3>1 DEF Pair, Types
  <2>2. Len(files.adapters) \in Nat /\ DOMAIN files.adapters = 1..Len(files.adapters)
    BY <1>1
  <2>3. a \in [1..Len(files.adapters) -> Pair]
    BY <2>1, <2>2
  <2>4. a \in Seq(Pair)
    <3> HIDE DEF a
    <3> QED BY <2>2, <2>3
  <2> QED BY <2>4 DEF Holds
<1>4. m \in Seq(Pair) /\ d \in Seq(Pair) /\ p \in Seq(Pair)
  <2> HIDE DEF Typed
  <2> QED BY <1>2 DEF Kinds
<1>5. \A q : (Holds(m, q) \/ Holds(d, q) \/ Holds(p, q) \/ Holds(a, q)) <=> q \in Pairs(files)
  <2> HIDE DEF a
  <2>1. \A q : Holds(m, q) \/ Holds(d, q) \/ Holds(p, q) <=> \E x \in Kinds : files[x] # NoFile /\ q = [type |-> x, file |-> files[x]]
    <3> HIDE DEF Typed
    <3> QED BY <1>2 DEF Kinds
  <2> QED BY <1>3, <2>1 DEF Pairs
<1>6. Listed(files) = m \o d \o p \o a
  BY Zenon DEF Listed
<1> HIDE DEF m, d, p, a
<1>7. m \o d \in Seq(Pair) /\ \A q : Holds(m \o d, q) <=> Holds(m, q) \/ Holds(d, q)
  BY <1>4, Concatenation
<1>8. m \o d \o p \in Seq(Pair) /\ \A q : Holds(m \o d \o p, q) <=> Holds(m \o d, q) \/ Holds(p, q)
  <2> DEFINE md == m \o d
  <2>1. md \in Seq(Pair)
    BY <1>7
  <2> HIDE DEF md
  <2>2. md \o p \in Seq(Pair) /\ \A q : Holds(md \o p, q) <=> Holds(md, q) \/ Holds(p, q)
    BY <1>4, <2>1, Concatenation
  <2> QED BY <2>2 DEF md
<1>9. m \o d \o p \o a \in Seq(Pair) /\ \A q : Holds(m \o d \o p \o a, q) <=> Holds(m \o d \o p, q) \/ Holds(a, q)
  <2> DEFINE mdp == m \o d \o p
  <2>1. mdp \in Seq(Pair)
    BY <1>8
  <2> HIDE DEF mdp
  <2>2. mdp \o a \in Seq(Pair) /\ \A q : Holds(mdp \o a, q) <=> Holds(mdp, q) \/ Holds(a, q)
    BY <1>3, <2>1, Concatenation
  <2> QED BY <2>2 DEF mdp
<1> DEFINE l == m \o d \o p \o a
<1>10. l \in Seq(Pair) /\ \A q : Holds(l, q) <=> q \in Pairs(files)
  BY <1>5, <1>7, <1>8, <1>9, Zenon
<1> HIDE DEF l
<1>11. Listed(files) = l
  BY <1>6 DEF l
<1> QED BY <1>10, <1>11

LEMMA EntriesAre ==
    ASSUME NEW files \in Parameters
    PROVE  \A e : e \in Entries(files) <=> \/ \E x \in Kinds : e = files[x] /\ e # NoFile
                                           \/ \E j \in DOMAIN files.adapters : e = files.adapters[j]
<1>1. \A e : e \in Entries(files) <=> \E p \in Pairs(files) : e = p.file
  BY ListedAre DEF Entries, Holds
<1>2. ASSUME NEW e, NEW p \in Pairs(files), e = p.file
      PROVE  \/ \E x \in Kinds : e = files[x] /\ e # NoFile
             \/ \E j \in DOMAIN files.adapters : e = files.adapters[j]
  BY <1>2 DEF Pairs
<1>3. ASSUME NEW x \in Kinds, files[x] # NoFile PROVE \E p \in Pairs(files) : files[x] = p.file
  <2>1. [type |-> x, file |-> files[x]] \in Pairs(files)
    BY <1>3 DEF Pairs
  <2> QED BY <2>1
<1>4. ASSUME NEW j \in DOMAIN files.adapters PROVE \E p \in Pairs(files) : files.adapters[j] = p.file
  <2>1. [type |-> "adapter", file |-> files.adapters[j]] \in Pairs(files)
    BY DEF Pairs
  <2> QED BY <2>1
<1> QED BY <1>1, <1>2, <1>3, <1>4

\* An entry is where the CMD has it, behind a flag that takes it.
Good(cmd, e) == Points(cmd, e) /\ e.index > 1 /\ Takes(cmd[e.index - 1]) > 0
AreGood(cmd, files) == \A e \in Entries(files) : Good(cmd, e)

\* parseCmd, word by word.
LEMMA ParseWordIsGood ==
    ASSUME NEW c \in Cmds, AreGood(c.args, c.files), NEW j \in DOMAIN c.args, j + Takes(c.args[j]) <= Len(c.args)
    PROVE  ParseWord(c, j) \in Parameters /\ AreGood(c.args, ParseWord(c, j))
<1>1. c.args \in Seq(Word) /\ c.files \in Parameters
  BY DEF Cmds
<1>2. CASE Takes(c.args[j]) = 0 \/ c.args[j + 1] = Empty
  <2>1. ParseWord(c, j) = c.files
    BY <1>2 DEF ParseWord
  <2> QED BY <1>1, <2>1
<1>3. CASE ~(Takes(c.args[j]) = 0 \/ c.args[j + 1] = Empty)
  <2>1. PICK p, x : p = [value |-> c.args[j + 1], index |-> j + 1] /\ x = TypeOf(c.args[j])
    OBVIOUS
  <2>2. Takes(c.args[j]) \in {1, 2}
    BY <1>3 DEF Takes
  <2>3. j + 1 \in DOMAIN c.args /\ j \in Nat \ {0}
    BY <1>1, <2>2
  <2>4. p \in Parameter
    BY <1>1, <2>1, <2>3 DEF Parameter
  <2>5. Good(c.args, p)
    <3>1. p.index = j + 1 /\ p.value = c.args[j + 1] /\ j + 1 - 1 = j /\ j + 1 > 1
      BY <2>1, <2>3
    <3> QED BY <2>2, <2>3, <3>1 DEF Good, Points
  <2>6. x \in Types
    BY <2>1 DEF TypeOf, Types, Kinds
  <2>7. ParseWord(c, j) = WithFile(c.files, x, p)
    BY <1>3, <2>1 DEF ParseWord
  <2>8. PICK files : files = WithFile(c.files, x, p)
    OBVIOUS
  <2>9. CASE x = "adapter"
    <3>1. files = [c.files EXCEPT !.adapters = Append(@, p)]
      BY <2>8, <2>9 DEF WithFile
    <3>2. /\ files = [model |-> c.files.model, drafter |-> c.files.drafter, projector |-> c.files.projector,
                      adapters |-> Append(c.files.adapters, p)]
          /\ c.files.adapters \in Seq(Parameter)
      <4>1. c.files = [model |-> c.files.model, drafter |-> c.files.drafter, projector |-> c.files.projector,
                       adapters |-> c.files.adapters]
        BY <1>1, FilesType
      <4>2. PICK f, a : f = c.files /\ a = Append(c.files.adapters, p)
        OBVIOUS
      <4>3. files = [f EXCEPT !.adapters = a]
        BY <3>1, <4>2
      <4> QED BY <1>1, <4>1, <4>2, <4>3, FilesType
    <3>3. files \in Parameters /\ \A y \in Kinds : files[y] = c.files[y]
      BY <1>1, <2>4, <3>2, FilesType DEF Parameters, Kinds
    <3>4. \A h \in DOMAIN files.adapters : (h \in DOMAIN c.files.adapters /\ files.adapters[h] = c.files.adapters[h]) \/ files.adapters[h] = p
      BY <2>4, <3>2
    <3>5. \A e \in Entries(files) : e \in Entries(c.files) \/ e = p
      BY <1>1, <3>3, <3>4, EntriesAre
    <3> QED BY <2>5, <2>7, <2>8, <3>3, <3>5 DEF AreGood
  <2>10. CASE x \in Kinds
    <3>1. files = [c.files EXCEPT ![x] = p]
      BY <2>8, <2>10 DEF WithFile, Kinds
    <3>2. files \in Parameters /\ (\A y \in Kinds : files[y] = c.files[y] \/ files[y] = p) /\ files.adapters = c.files.adapters
      BY <1>1, <2>4, <2>10, <3>1, FilesType DEF Parameters, Kinds
    <3>3. \A e \in Entries(files) : e \in Entries(c.files) \/ e = p
      BY <1>1, <3>2, EntriesAre
    <3> QED BY <2>5, <2>7, <2>8, <3>2, <3>3 DEF AreGood
  <2> QED BY <2>6, <2>9, <2>10 DEF Types
<1> QED BY <1>2, <1>3

(* CmdCommand.Expand *)

LEMMA ExpandedWord ==
    /\ Expanded(Empty) = Empty
    /\ \A w \in Word : Expanded(w) \in Word
    /\ \A w : Takes(w) > 0 => Expanded(w) = w
<1>1. /\ DOMAIN Env \cap (OneValue \cup TwoValues \cup {Empty}) = {}
      /\ \A w \in DOMAIN Env : Env[w] \in Word
  BY ModelImageAssumption
<1>2. \A w : Takes(w) > 0 => w \in OneValue \cup TwoValues
  BY DEF Takes
<1> QED BY <1>1, <1>2 DEF Expanded, Word

LEMMA ExpandFileIsGood ==
    ASSUME NEW args \in Seq(Word), NEW p \in Parameter, p # NoFile => Good(args, p), NEW words,
           words = [j \in DOMAIN args |-> Expanded(args[j])]
    PROVE  /\ ExpandFile(p) \in Parameter
           /\ ExpandFile(p) # NoFile => Good(words, ExpandFile(p))
<1>1. p = [value |-> p.value, index |-> p.index] /\ p.value \in Word /\ p.index \in Nat
  BY DEF Parameter
<1>2. CASE Expanded(p.value) = Empty
  BY <1>2, NoFileType DEF ExpandFile
<1>3. CASE Expanded(p.value) # Empty
  <2>1. ExpandFile(p) = [value |-> Expanded(p.value), index |-> p.index]
    BY <1>1, <1>3 DEF ExpandFile
  <2>2. p # NoFile
    BY <1>3, ExpandedWord DEF NoFile
  <2>3. Points(args, p) /\ p.index > 1 /\ Takes(args[p.index - 1]) > 0
    BY <2>2 DEF Good
  <2>4. p.index \in DOMAIN args /\ p.index - 1 \in DOMAIN args
    BY <1>1, <2>3 DEF Points
  <2>5. words[p.index] = Expanded(p.value) /\ words[p.index - 1] = args[p.index - 1] /\ DOMAIN words = DOMAIN args
    BY <2>3, <2>4, ExpandedWord DEF Points
  <2>6. Good(words, ExpandFile(p))
    BY <2>1, <2>3, <2>4, <2>5 DEF Good, Points
  <2>7. ExpandFile(p) \in Parameter
    BY <1>1, <2>1, ExpandedWord DEF Parameter
  <2> QED BY <2>6, <2>7
<1> QED BY <1>2, <1>3

LEMMA ExpandCmdIsGood ==
    ASSUME NEW c \in Cmds, AreGood(c.args, c.files), ~ExpandCrashes(c.files.adapters)
    PROVE  /\ ExpandCmd(c) \in Cmds
           /\ ExpandCmd(c).args = [j \in DOMAIN c.args |-> Expanded(c.args[j])]
           /\ AreGood(ExpandCmd(c).args, ExpandCmd(c).files)
<1>1. PICK words : words = [j \in DOMAIN c.args |-> Expanded(c.args[j])]
  OBVIOUS
<1>2. /\ c = [op |-> "CMD", json |-> c.json, args |-> c.args, files |-> c.files] /\ c.json \in BOOLEAN
      /\ c.args \in Seq(Word) /\ c.files \in Parameters
  BY DEF Cmds
<1>3. /\ \A x \in Kinds : c.files[x] \in Parameter /\ (c.files[x] # NoFile => Good(c.args, c.files[x]))
      /\ c.files.adapters \in Seq(Parameter)
      /\ \A j \in DOMAIN c.files.adapters : Good(c.args, c.files.adapters[j])
  BY <1>2, EntriesAre, FilesType DEF AreGood
<1>4. PICK as : as = ExpandAdapters(c.files.adapters)
  OBVIOUS
<1>5. as \in Seq(Parameter) /\ \A j \in DOMAIN as : Good(words, as[j])
  <2> DEFINE a == c.files.adapters
             keep == IF a # <<>> /\ Expanded(a[Len(a)].value) = Empty THEN SubSeq(a, 1, Len(a) - 1) ELSE a
  <2>1. a \in Seq(Parameter) /\ Len(a) \in Nat /\ \A j \in 1..Len(a) - 1 : Expanded(a[j].value) # Empty
    BY <1>3 DEF ExpandCrashes
  <2>2. /\ keep \in Seq(Parameter) /\ Len(keep) \in Nat /\ DOMAIN keep = 1..Len(keep)
        /\ \A j \in 1..Len(keep) : j \in DOMAIN a /\ keep[j] = a[j] /\ Expanded(a[j].value) # Empty
    <3> HIDE DEF a
    <3>1. CASE a # <<>> /\ Expanded(a[Len(a)].value) = Empty
      <4>1. keep = SubSeq(a, 1, Len(a) - 1) /\ Len(a) # 0
        BY <2>1, <3>1
      <4>2. keep \in Seq(Parameter) /\ Len(keep) = Len(a) - 1 /\ \A j \in 1..Len(a) - 1 : keep[j] = a[j]
        <5>1. Len(a) - 1 \in Int /\ Len(a) - 1 >= 0
          BY <2>1, <4>1
        <5>2. \A j \in 1..Len(a) - 1 : a[j] \in Parameter
          BY <2>1
        <5>3. PICK n \in Nat : n = Len(a) - 1
          BY <5>1
        <5> DEFINE q == SubSeq(a, 1, n)
        <5> HIDE DEF q
        <5>4. q \in Seq(Parameter) /\ Len(q) = (IF 1 <= n THEN n - 1 + 1 ELSE 0) /\ \A j \in 1..n - 1 + 1 : q[j] = a[1 + j - 1]
          BY <5>2, <5>3, SubSeqProperties DEF q
        <5>5. Len(q) = n /\ \A j \in 1..n : q[j] = a[j]
          BY <5>4
        <5>6. keep = q
          BY <4>1, <5>3 DEF q
        <5> HIDE DEF keep
        <5> QED BY <5>3, <5>4, <5>5, <5>6
      <4> HIDE DEF keep
      <4> QED BY <2>1, <4>1, <4>2
    <3>2. CASE ~(a # <<>> /\ Expanded(a[Len(a)].value) = Empty)
      <4>1. keep = a
        BY <3>2
      <4>2. \A j \in 1..Len(a) : Expanded(a[j].value) # Empty
        <5>1. ASSUME NEW j \in 1..Len(a) PROVE Expanded(a[j].value) # Empty
          <6>1. a # <<>>
            BY <2>1
          <6>2. CASE j = Len(a)
            BY <3>2, <6>1, <6>2
          <6>3. CASE j # Len(a)
            BY <2>1, <6>3
          <6> QED BY <6>2, <6>3
        <5> QED BY <5>1
      <4> HIDE DEF keep
      <4> QED BY <2>1, <4>1, <4>2
    <3> QED BY <3>1, <3>2
  <2>3. as = [j \in DOMAIN keep |-> ExpandFile(keep[j])]
    BY <1>4, Zenon DEF ExpandAdapters
  <2> HIDE DEF keep
  <2>4. ASSUME NEW j \in 1..Len(keep) PROVE as[j] \in Parameter /\ Good(words, as[j])
    <3>1. as[j] = ExpandFile(a[j]) /\ a[j] \in Parameter /\ Good(c.args, a[j])
      BY <1>3, <2>1, <2>2, <2>3
    <3>2. ExpandFile(a[j]).value # Empty
      BY <2>2, <3>1 DEF ExpandFile, Parameter
    <3>3. ExpandFile(a[j]) # NoFile
      BY <3>2 DEF NoFile
    <3> QED BY <1>1, <1>2, <3>1, <3>3, ExpandFileIsGood
  <2>5. as = [j \in 1..Len(keep) |-> as[j]]
    BY <2>2, <2>3
  <2>6. as \in [1..Len(keep) -> Parameter]
    BY <2>4, <2>5
  <2>7. as \in Seq(Parameter)
    BY <2>2, <2>6, FunctionIsSeq
  <2> QED BY <2>2, <2>3, <2>4, <2>7
<1>6. PICK m, d, p : m = ExpandFile(c.files.model) /\ d = ExpandFile(c.files.drafter) /\ p = ExpandFile(c.files.projector)
  OBVIOUS
<1>7. /\ m \in Parameter /\ (m # NoFile => Good(words, m))
      /\ d \in Parameter /\ (d # NoFile => Good(words, d))
      /\ p \in Parameter /\ (p # NoFile => Good(words, p))
  <2>1. ASSUME NEW x \in Kinds PROVE ExpandFile(c.files[x]) \in Parameter /\ (ExpandFile(c.files[x]) # NoFile => Good(words, ExpandFile(c.files[x])))
    BY <1>1, <1>2, <1>3, ExpandFileIsGood
  <2> QED BY <1>6, <2>1 DEF Kinds
<1>8. PICK files : files = [model |-> m, drafter |-> d, projector |-> p, adapters |-> as]
  OBVIOUS
<1>9. ExpandCmd(c) = [op |-> "CMD", json |-> c.json, args |-> words, files |-> files]
  <2>1. c.files = [model |-> c.files.model, drafter |-> c.files.drafter, projector |-> c.files.projector, adapters |-> c.files.adapters]
    BY <1>2, FilesType
  <2>2. ExpandCmd(c) = [c EXCEPT !.args = words, !.files = files]
    BY <1>1, <1>4, <1>6, <1>8 DEF ExpandCmd
  <2>3. PICK json, args, old : c = [op |-> "CMD", json |-> json, args |-> args, files |-> old]
    BY <1>2
  <2>4. c.json = json
    BY <2>3
  <2> QED BY <2>2, <2>3, <2>4
<1>10. words \in Seq(Word)
  BY <1>1, <1>2, ExpandedWord
<1>11. files \in Parameters
  BY <1>5, <1>7, <1>8 DEF Parameters
<1>12. AreGood(words, files)
  <2> SUFFICES ASSUME NEW e \in Entries(files) PROVE Good(words, e)
    BY DEF AreGood
  <2>1. (\E x \in Kinds : e = files[x] /\ e # NoFile) \/ \E j \in DOMAIN files.adapters : e = files.adapters[j]
    BY <1>11, EntriesAre
  <2>2. files.model = m /\ files.drafter = d /\ files.projector = p /\ files.adapters = as
    BY <1>8
  <2>3. CASE \E x \in Kinds : e = files[x] /\ e # NoFile
    BY <1>7, <2>2, <2>3 DEF Kinds
  <2>4. CASE \E j \in DOMAIN files.adapters : e = files.adapters[j]
    BY <1>5, <2>2, <2>4
  <2> QED BY <2>1, <2>3, <2>4
<1>13. ExpandCmd(c) \in Cmds
  BY <1>2, <1>9, <1>10, <1>11 DEF Cmds
<1> QED BY <1>1, <1>9, <1>12, <1>13

(***************************************************************************)
(* What holds of the files at every step                                   *)
(***************************************************************************)

Phases == {"idle", "parse", "resolve", "dispatch", "finish", "describe", "inspect"}

\* An image in the registry.
Recorded(img) ==
    /\ img.cmd \in Seq(Word) /\ img.files \in Parameters
    /\ ~img.mixed => AreGood(img.cmd, img.files)

\* The image of a stage.
IsImage(img) ==
    /\ img = [labels |-> img.labels, history |-> img.history, cmd |-> img.cmd, files |-> img.files, size |-> img.size]
    /\ img.cmd \in Seq(Word) /\ img.files \in Parameters

TypeOK ==
    /\ phase \in Phases
    /\ \A name \in DOMAIN registry : Recorded(registry[name])
    /\ phase # "idle" =>
           /\ recipe \in Recipes /\ stages \in Stages
           /\ s \in DOMAIN stages /\ k \in Nat /\ i \in Nat \ {0}
           /\ image = [d \in DOMAIN stages |-> image[d]] /\ \A d \in DOMAIN stages : IsImage(image[d])
           /\ baseImg = [d \in DOMAIN stages |-> baseImg[d]]
           /\ phase = "inspect" => ps \in Seq(Pair)

\* The command has been dispatched.
Dispatched(d, j) ==
    \/ phase \in {"finish", "describe", "inspect"}
    \/ phase = "dispatch" /\ (d < s \/ (d = s /\ j < k))

\* What becomes of a command until its stage is described.
CmdKept(d, j) ==
    LET c == stages[d].cmds[j]
        o == recipe.stages[d].cmds[j]
    IN  /\ c.op = o.op
        /\ c.op # "CMD" => c = o
        /\ c.op = "CMD" =>
               /\ c.args = IF Dispatched(d, j) THEN [h \in DOMAIN o.args |-> Expanded(o.args[h])] ELSE o.args
               /\ AreGood(c.args, c.files)
               /\ Dispatched(d, j) => c.files.model # NoFile

StagesKept ==
    phase # "idle" =>
        /\ Len(stages) = Len(recipe.stages)
        /\ \A d \in DOMAIN stages :
               /\ stages[d].name = recipe.stages[d].name /\ stages[d].base = recipe.stages[d].base
               /\ Len(stages[d].cmds) = Len(recipe.stages[d].cmds)
               /\ \A j \in DOMAIN stages[d].cmds : CmdKept(d, j)

\* What a stage has from its base image.
BaseFiles(d) == IF baseImg[d] = NoImage THEN NoFiles ELSE registry[baseImg[d].name].files
BaseCmd(d) == IF baseImg[d] = NoImage THEN <<>> ELSE registry[baseImg[d].name].cmd

BaseKept ==
    phase # "idle" =>
        \A d \in DOMAIN stages :
            /\ baseImg[d] # NoImage => baseImg[d].name \in DOMAIN registry
            /\ phase # "inspect" \/ d # t => image[d].files = BaseFiles(d) /\ image[d].cmd = BaseCmd(d)

\* The files that the builder reads, and the CMD that they are of.
Source == IF HasCmd(t) THEN CmdCommand(t).files ELSE BaseFiles(t)
SourceCmd == IF HasCmd(t) THEN CmdCommand(t).args ELSE BaseCmd(t)

Inspecting ==
    phase = "inspect" =>
        /\ image[t].cmd = SourceCmd
        /\ \A j \in DOMAIN ps : ps[j] \in Pairs(Source)
        /\ \A x \in Kinds :
               /\ image[t].files[x] \in {BaseFiles(t)[x], Source[x]}
               /\ Source[x] # NoFile => image[t].files[x] = Source[x] \/ \E j \in DOMAIN ps : ps[j].type = x
        /\ \A j \in DOMAIN image[t].files.adapters :
               Holds(BaseFiles(t).adapters, image[t].files.adapters[j]) \/ Holds(Source.adapters, image[t].files.adapters[j])

FilesInv == TypeOK /\ StagesKept /\ BaseKept /\ Inspecting

LEMMA StageType ==
    ASSUME NEW all \in Stages
    PROVE  /\ Len(all) \in Nat /\ DOMAIN all = 1..Len(all)
           /\ \A d \in DOMAIN all :
                  /\ all[d].base \in Word \ {Empty} /\ all[d].name \in Word
                  /\ all[d] = [name |-> all[d].name, base |-> all[d].base, cmds |-> all[d].cmds]
                  /\ all[d].cmds \in Seq(Command) /\ Len(all[d].cmds) \in Nat /\ DOMAIN all[d].cmds = 1..Len(all[d].cmds)
                  /\ \A j \in DOMAIN all[d].cmds :
                         /\ all[d].cmds[j] \in Command
                         /\ all[d].cmds[j].op \in {"CMD", "LABEL", "FILE"}
                         /\ all[d].cmds[j].op = "CMD" => all[d].cmds[j] \in Cmds
<1> DEFINE Stage == [name : Word, base : Word \ {Empty}, cmds : Seq(Command)]
<1>1. all \in Seq(Stage)
  BY DEF Stages
<1>2. Len(all) \in Nat /\ DOMAIN all = 1..Len(all) /\ \A d \in DOMAIN all : all[d] \in Stage
  <2> HIDE DEF Stage
  <2> QED BY <1>1
<1>3. \A c \in Command : c.op \in {"CMD", "LABEL", "FILE"} /\ (c.op = "CMD" => c \in Cmds)
  BY DEF Command, Cmds
<1>4. ASSUME NEW d \in DOMAIN all
      PROVE  /\ all[d].base \in Word \ {Empty} /\ all[d].name \in Word
             /\ all[d] = [name |-> all[d].name, base |-> all[d].base, cmds |-> all[d].cmds]
             /\ all[d].cmds \in Seq(Command)
  BY <1>2
<1>5. ASSUME NEW d \in DOMAIN all
      PROVE  /\ Len(all[d].cmds) \in Nat /\ DOMAIN all[d].cmds = 1..Len(all[d].cmds)
             /\ \A j \in DOMAIN all[d].cmds : all[d].cmds[j] \in Command
  BY <1>4
<1> QED BY <1>2, <1>3, <1>4, <1>5

\* The stages with c at a place of a command.
Replaced(all, d, j, c) == [all EXCEPT ![d].cmds[j] = c]

LEMMA CmdReplaced ==
    ASSUME NEW all \in Stages, NEW d \in DOMAIN all, NEW j \in DOMAIN all[d].cmds, NEW c \in Command,
           NEW new, new = Replaced(all, d, j, c)
    PROVE  /\ new \in Stages /\ DOMAIN new = DOMAIN all /\ Len(new) = Len(all)
           /\ \A e \in DOMAIN all :
                  /\ new[e].name = all[e].name /\ new[e].base = all[e].base
                  /\ Len(new[e].cmds) = Len(all[e].cmds) /\ DOMAIN new[e].cmds = DOMAIN all[e].cmds
                  /\ \A h \in DOMAIN all[e].cmds : new[e].cmds[h] = IF e = d /\ h = j THEN c ELSE all[e].cmds[h]
<1> DEFINE Stage == [name : Word, base : Word \ {Empty}, cmds : Seq(Command)]
<1>1. /\ Len(all) \in Nat /\ DOMAIN all = 1..Len(all) /\ all \in Seq(Stage)
      /\ all[d] = [name |-> all[d].name, base |-> all[d].base, cmds |-> all[d].cmds]
      /\ all[d].cmds \in Seq(Command) /\ DOMAIN all[d].cmds = 1..Len(all[d].cmds)
      /\ all[d].base \in Word \ {Empty} /\ all[d].name \in Word
  <2>1. all \in Seq(Stage)
    BY DEF Stages
  <2>2. /\ Len(all) \in Nat /\ DOMAIN all = 1..Len(all)
        /\ all[d] = [name |-> all[d].name, base |-> all[d].base, cmds |-> all[d].cmds]
        /\ all[d].cmds \in Seq(Command) /\ DOMAIN all[d].cmds = 1..Len(all[d].cmds)
        /\ all[d].base \in Word \ {Empty} /\ all[d].name \in Word
    BY StageType
  <2> HIDE DEF Stage
  <2> QED BY <2>1, <2>2, Zenon
<1>2. PICK cmds : cmds = [all[d].cmds EXCEPT ![j] = c]
  OBVIOUS
<1>3. /\ cmds \in Seq(Command) /\ Len(cmds) = Len(all[d].cmds) /\ DOMAIN cmds = DOMAIN all[d].cmds
      /\ \A h \in DOMAIN cmds : cmds[h] = IF h = j THEN c ELSE all[d].cmds[h]
  BY <1>1, <1>2
<1>4. PICK stage : stage = [name |-> all[d].name, base |-> all[d].base, cmds |-> cmds]
  OBVIOUS
<1>5. new = [all EXCEPT ![d] = stage]
  <2>1. [all[d] EXCEPT !.cmds = cmds] = stage
    <3>1. PICK n, b, o : all[d] = [name |-> n, base |-> b, cmds |-> o]
      BY <1>1
    <3> QED BY <1>4, <3>1
  <2>2. new = [all EXCEPT ![d] = [all[d] EXCEPT !.cmds = cmds]]
    BY <1>2 DEF Replaced
  <2> QED BY <2>1, <2>2
<1>6. stage \in Stage
  BY <1>1, <1>3, <1>4
<1>7. new \in Seq(Stage) /\ Len(new) = Len(all) /\ DOMAIN new = DOMAIN all
      /\ \A e \in DOMAIN all : new[e] = IF e = d THEN stage ELSE all[e]
  <2> HIDE DEF Stage
  <2>1. DOMAIN new = DOMAIN all /\ \A e \in DOMAIN all : new[e] = IF e = d THEN stage ELSE all[e]
    BY <1>5
  <2>2. \A e \in 1..Len(all) : new[e] \in Stage
    <3>1. \A e \in 1..Len(all) : all[e] \in Stage
      BY <1>1
    <3> QED BY <1>1, <1>6, <2>1, <3>1, Zenon
  <2>3. new = [e \in 1..Len(all) |-> new[e]]
    BY <1>1, <1>5
  <2>4. new \in [1..Len(all) -> Stage]
    BY <2>2, <2>3
  <2>5. new \in Seq(Stage)
    BY <1>1, <2>4, FunctionIsSeq
  <2>6. Len(new) = Len(all)
    BY <1>1, <2>1, <2>5
  <2> QED BY <2>1, <2>5, <2>6
<1>8. new \in Stages
  BY <1>7 DEF Stages
<1>9. ASSUME NEW e \in DOMAIN all
      PROVE  /\ new[e].name = all[e].name /\ new[e].base = all[e].base
             /\ Len(new[e].cmds) = Len(all[e].cmds) /\ DOMAIN new[e].cmds = DOMAIN all[e].cmds
             /\ \A h \in DOMAIN all[e].cmds : new[e].cmds[h] = IF e = d /\ h = j THEN c ELSE all[e].cmds[h]
  BY <1>3, <1>4, <1>7
<1> QED BY <1>7, <1>8, <1>9

LEMMA RecipeType ==
    ASSUME recipe \in Recipes
    PROVE  /\ recipe.stages \in Stages /\ recipe.target \in DOMAIN recipe.stages
           /\ \A d \in DOMAIN recipe.stages : \A j \in DOMAIN recipe.stages[d].cmds :
                  recipe.stages[d].cmds[j].op = "CMD" => recipe.stages[d].cmds[j].files = NoFiles
BY ModelImageAssumption

LEMMA TargetType == ASSUME FilesInv, phase # "idle" PROVE t \in DOMAIN stages
<1>1. recipe \in Recipes /\ stages \in Stages /\ Len(stages) = Len(recipe.stages)
  BY DEF FilesInv, TypeOK, StagesKept
<1> QED BY <1>1, RecipeType, StageType DEF t

\* The CMD that a stage keeps is one of them.
LEMMA CmdOfStage ==
    ASSUME FilesInv, phase # "idle", NEW d \in DOMAIN stages, HasCmd(d)
    PROVE  \E j \in DOMAIN stages[d].cmds : stages[d].cmds[j].op = "CMD" /\ CmdCommand(d) = stages[d].cmds[j]
<1>1. stages \in Stages
  BY DEF FilesInv, TypeOK
<1>2. Len(stages[d].cmds) \in Nat /\ CmdsOf(d) \in SUBSET (1..Len(stages[d].cmds)) /\ CmdsOf(d) # {}
  BY <1>1, StageType DEF CmdsOf, HasCmd
<1>3. PICK m \in CmdsOf(d) : \A h \in CmdsOf(d) : h <= m
  BY <1>2, GreatestNumber
<1> DEFINE c == CHOOSE j \in CmdsOf(d) : \A h \in CmdsOf(d) : h <= j
<1>4. c \in CmdsOf(d)
  BY <1>3
<1>5. CmdCommand(d) = stages[d].cmds[c]
  BY Zenon DEF CmdCommand
<1> HIDE DEF c
<1> QED BY <1>4, <1>5 DEF CmdsOf

LEMMA NoFilesAre == Entries(NoFiles) = {} /\ Pairs(NoFiles) = {} /\ NoFiles.adapters = <<>> /\ \A x \in Kinds : NoFiles[x] = NoFile
<1>1. \A x \in Kinds : NoFiles[x] = NoFile
  BY DEF NoFiles, Kinds
<1>2. NoFiles.adapters = <<>>
  BY DEF NoFiles
<1>3. DOMAIN NoFiles.adapters = {}
  BY <1>2
<1>4. \A e : e \notin Entries(NoFiles)
  BY <1>1, <1>3, EntriesAre, NoFileType
<1> QED BY <1>1, <1>2, <1>3, <1>4 DEF Pairs

(* Steps *)

\* The end of a build that pushes nothing.
LEMMA EndKeepsFiles == ASSUME FilesInv, phase' = "idle", registry' = registry PROVE FilesInv'
BY DEF FilesInv, TypeOK, StagesKept, BaseKept, Inspecting, Phases

LEMMA StagesStay ==
    ASSUME FilesInv, phase # "idle", UNCHANGED <<recipe, stages>>,
           \A d \in DOMAIN stages : \A j \in DOMAIN stages[d].cmds :
               stages[d].cmds[j].op = "CMD" => (Dispatched(d, j)' <=> Dispatched(d, j))
    PROVE  StagesKept'
<1> SUFFICES ASSUME NEW d \in DOMAIN stages, NEW j \in DOMAIN stages[d].cmds PROVE CmdKept(d, j)'
  BY DEF FilesInv, StagesKept
<1>1. CmdKept(d, j)
  BY DEF FilesInv, StagesKept
<1>2. CASE stages[d].cmds[j].op = "CMD"
  <2>1. Dispatched(d, j)' <=> Dispatched(d, j)
    BY <1>2
  <2> QED BY <1>1, <1>2, <2>1 DEF CmdKept
<1>3. CASE stages[d].cmds[j].op # "CMD"
  BY <1>1, <1>3 DEF CmdKept
<1> QED BY <1>2, <1>3

LEMMA BasesStay ==
    ASSUME FilesInv, phase \notin {"idle", "inspect"}, phase' # "inspect", UNCHANGED <<registry, baseImg>>,
           DOMAIN stages' = DOMAIN stages,
           \A d \in DOMAIN stages : image'[d].files = image[d].files /\ image'[d].cmd = image[d].cmd
    PROVE  BaseKept' /\ Inspecting'
BY DEF FilesInv, BaseKept, Inspecting, BaseFiles, BaseCmd

\* What the files are taken from is not touched.
LEMMA SourceStays ==
    ASSUME UNCHANGED <<registry, recipe, stages, baseImg>>
    PROVE  /\ t' = t /\ Source' = Source /\ SourceCmd' = SourceCmd /\ BaseFiles(t)' = BaseFiles(t)
           /\ \A d : BaseFiles(d)' = BaseFiles(d) /\ BaseCmd(d)' = BaseCmd(d)
<1>1. PICK d0 : t' = d0 /\ t = d0
  BY DEF t
<1>2. CmdsOf(d0)' = CmdsOf(d0)
  BY DEF CmdsOf
<1>3. CmdCommand(d0)' = CmdCommand(d0) /\ HasCmd(d0)' = HasCmd(d0)
  BY <1>2, Zenon DEF CmdCommand, HasCmd
<1>4. \A d : BaseFiles(d)' = BaseFiles(d) /\ BaseCmd(d)' = BaseCmd(d)
  BY DEF BaseFiles, BaseCmd
<1>5. /\ CmdCommand(t)' = CmdCommand(t) /\ HasCmd(t)' = HasCmd(t)
      /\ BaseFiles(t)' = BaseFiles(t) /\ BaseCmd(t)' = BaseCmd(t)
  <2>1. CmdCommand(t)' = CmdCommand(d0)' /\ HasCmd(t)' = HasCmd(d0)' /\ BaseFiles(t)' = BaseFiles(d0)' /\ BaseCmd(t)' = BaseCmd(d0)'
    BY <1>1, Zenon DEF CmdCommand, HasCmd, CmdsOf, BaseFiles, BaseCmd
  <2> QED BY <1>1, <1>3, <1>4, <2>1
<1>6. Source' = Source /\ SourceCmd' = SourceCmd
  BY <1>5, Zenon DEF Source, SourceCmd
<1> QED BY <1>1, <1>4, <1>5, <1>6

LEMMA NextStageType ==
    ASSUME TypeOK, phase # "idle", NEW k0 \in Nat, NEW following, NextStage(k0, following)
    PROVE  /\ s' \in DOMAIN stages /\ k' = k0
           /\ \/ s < Len(stages) /\ s' = s + 1 /\ phase' = phase
              \/ s = Len(stages) /\ s' = 1 /\ phase' = following
<1>1. Len(stages) \in Nat /\ s \in 1..Len(stages) /\ DOMAIN stages = 1..Len(stages)
  BY StageType DEF TypeOK
<1>2. PICK n : n = Len(stages)
  OBVIOUS
<1>3. k' = k0 /\ (s < n => s' = s + 1 /\ phase' = phase) /\ (~(s < n) => s' = 1 /\ phase' = following)
  BY <1>2 DEF NextStage
<1>4. n \in Nat /\ s \in 1..n
  BY <1>1, <1>2
<1>5. (s < n /\ s + 1 \in 1..n) \/ (s = n /\ ~(s < n) /\ 1 \in 1..n)
  BY <1>4
<1> QED BY <1>1, <1>2, <1>3, <1>5

\* A stage starts from one before it.
LEMMA BaseOfType ==
    ASSUME NEW d \in Nat
    PROVE  BaseOf(d) # 0 => BaseOf(d) \in 1..(d - 1) /\ stages[BaseOf(d)].name = stages[d].base
<1> DEFINE named == {e \in 1..(d - 1) : stages[e].name = stages[d].base}
<1>1. CASE named = {}
  BY <1>1 DEF BaseOf
<1>2. CASE named # {}
  <2>1. d - 1 \in Nat
    BY <1>2
  <2>2. \E m \in named : \A e \in named : e <= m
    <3>1. PICK n \in Nat : n = d - 1
      BY <2>1
    <3>2. named \in SUBSET (1..n)
      BY <3>1
    <3> HIDE DEF named
    <3> QED BY <1>2, <3>2, GreatestNumber
  <2>3. BaseOf(d) = CHOOSE m \in named : \A e \in named : e <= m
    BY <1>2, Zenon DEF BaseOf
  <2>4. BaseOf(d) \in named
    <3> HIDE DEF named
    <3> QED BY <2>2, <2>3
  <2> QED BY <2>4
<1> QED BY <1>1, <1>2

LEMMA ImageFields ==
    ASSUME NEW img, IsImage(img)
    PROVE  /\ \A h : /\ IsImage([img EXCEPT !.history = h])
                     /\ [img EXCEPT !.history = h].files = img.files /\ [img EXCEPT !.history = h].cmd = img.cmd
           /\ \A l : /\ IsImage([img EXCEPT !.labels = l])
                     /\ [img EXCEPT !.labels = l].files = img.files /\ [img EXCEPT !.labels = l].cmd = img.cmd
                     /\ [img EXCEPT !.labels = l].history = img.history /\ [img EXCEPT !.labels = l].labels = l
<1>1. PICK lb, hs, cm, fs, sz : img = [labels |-> lb, history |-> hs, cmd |-> cm, files |-> fs, size |-> sz]
  BY Zenon DEF IsImage
<1>2. img.cmd = cm /\ img.files = fs /\ img.history = hs /\ cm \in Seq(Word) /\ fs \in Parameters
  BY <1>1 DEF IsImage
<1>3. ASSUME NEW h
      PROVE  /\ IsImage([img EXCEPT !.history = h])
             /\ [img EXCEPT !.history = h].files = img.files /\ [img EXCEPT !.history = h].cmd = img.cmd
  <2>1. [img EXCEPT !.history = h] = [labels |-> lb, history |-> h, cmd |-> cm, files |-> fs, size |-> sz]
    BY <1>1
  <2> QED BY <1>2, <2>1 DEF IsImage
<1>4. ASSUME NEW l
      PROVE  /\ IsImage([img EXCEPT !.labels = l])
             /\ [img EXCEPT !.labels = l].files = img.files /\ [img EXCEPT !.labels = l].cmd = img.cmd
             /\ [img EXCEPT !.labels = l].history = img.history /\ [img EXCEPT !.labels = l].labels = l
  <2>1. [img EXCEPT !.labels = l] = [labels |-> l, history |-> hs, cmd |-> cm, files |-> fs, size |-> sz]
    BY <1>1
  <2> QED BY <1>2, <2>1 DEF IsImage
<1> QED BY <1>3, <1>4

\* The images of the stages are images of the same files and CMDs.
ImagesStay ==
    /\ image' = [d \in DOMAIN stages |-> image'[d]]
    /\ \A d \in DOMAIN stages : IsImage(image'[d]) /\ image'[d].files = image[d].files /\ image'[d].cmd = image[d].cmd

LEMMA CommittedFiles ==
    ASSUME TypeOK, phase # "idle", NEW d \in DOMAIN stages, NEW img, IsImage(img),
           img.files = image[d].files, img.cmd = image[d].cmd, NEW e, CommitToHistory(d, img, e)
    PROVE  ImagesStay
<1>1. image = [x \in DOMAIN stages |-> image[x]] /\ \A x \in DOMAIN stages : IsImage(image[x])
  BY DEF TypeOK
<1>2. PICK h : image' = [image EXCEPT ![d] = [img EXCEPT !.history = h]]
  <2>1. CASE img.history.len < Len(ArrayOf(img.history))
    BY <2>1 DEF CommitToHistory
  <2>2. CASE ~(img.history.len < Len(ArrayOf(img.history)))
    BY <2>2 DEF CommitToHistory
  <2> QED BY <2>1, <2>2
<1>3. PICK new : new = [img EXCEPT !.history = h]
  OBVIOUS
<1>4. IsImage(new) /\ new.files = image[d].files /\ new.cmd = image[d].cmd
  BY <1>3, ImageFields
<1>5. image' = [image EXCEPT ![d] = new]
  BY <1>2, <1>3
<1> QED BY <1>1, <1>4, <1>5 DEF ImagesStay

\* A command takes the place of the one that a step is at.
LEMMA StagesChange ==
    ASSUME FilesInv, phase # "idle", recipe' = recipe,
           NEW d0 \in DOMAIN stages, NEW j0 \in DOMAIN stages[d0].cmds, stages[d0].cmds[j0].op = "CMD",
           NEW c \in Cmds, stages' = [stages EXCEPT ![d0].cmds[j0] = c], CmdKept(d0, j0)',
           \A d \in DOMAIN stages : \A j \in DOMAIN stages[d].cmds :
               (d # d0 \/ j # j0) => (Dispatched(d, j)' <=> Dispatched(d, j))
    PROVE  stages' \in Stages /\ DOMAIN stages' = DOMAIN stages /\ StagesKept'
<1>1. stages \in Stages /\ c \in Command
  BY DEF FilesInv, TypeOK, Command
<1>2. PICK all, new : all = stages /\ new = stages'
  OBVIOUS
<1>3. /\ new \in Stages /\ DOMAIN new = DOMAIN all /\ Len(new) = Len(all)
      /\ \A e \in DOMAIN all :
             /\ new[e].name = all[e].name /\ new[e].base = all[e].base
             /\ Len(new[e].cmds) = Len(all[e].cmds) /\ DOMAIN new[e].cmds = DOMAIN all[e].cmds
             /\ \A h \in DOMAIN all[e].cmds : new[e].cmds[h] = IF e = d0 /\ h = j0 THEN c ELSE all[e].cmds[h]
  <2>1. all \in Stages /\ d0 \in DOMAIN all /\ j0 \in DOMAIN all[d0].cmds /\ new = Replaced(all, d0, j0, c)
    BY <1>1, <1>2 DEF Replaced
  <2> QED BY <1>1, <2>1, CmdReplaced
<1>4. ASSUME NEW d \in DOMAIN stages, NEW j \in DOMAIN stages[d].cmds, d # d0 \/ j # j0 PROVE CmdKept(d, j)'
  <2>1. CmdKept(d, j) /\ stages'[d].cmds[j] = stages[d].cmds[j] /\ (Dispatched(d, j)' <=> Dispatched(d, j))
    BY <1>2, <1>3, <1>4 DEF FilesInv, StagesKept
  <2> QED BY <2>1 DEF CmdKept
<1>5. ASSUME NEW d \in DOMAIN stages, NEW j \in DOMAIN stages[d].cmds PROVE CmdKept(d, j)'
  BY <1>4
<1>6. StagesKept'
  BY <1>2, <1>3, <1>5 DEF FilesInv, StagesKept
<1> QED BY <1>2, <1>3, <1>6

LEMMA BeginKeepsFiles == ASSUME FilesInv, NEW r \in Recipes, Begin(r) PROVE FilesInv'
<1>1. /\ r.stages \in Stages /\ r.target \in DOMAIN r.stages
      /\ \A d \in DOMAIN r.stages : \A j \in DOMAIN r.stages[d].cmds :
             r.stages[d].cmds[j].op = "CMD" => r.stages[d].cmds[j].files = NoFiles
  BY ModelImageAssumption
<1>2. DOMAIN r.stages = 1..Len(r.stages) /\ Len(r.stages) \in Nat /\ 1 \in DOMAIN r.stages
  BY <1>1, StageType
<1>3. /\ recipe' = r /\ stages' = r.stages /\ phase' = "parse" /\ s' = 1 /\ k' = 1 /\ i' = 1
      /\ image' = [d \in DOMAIN r.stages |-> EmptyImage] /\ baseImg' = [d \in DOMAIN r.stages |-> NoImage]
      /\ registry' = registry
  BY DEF Begin
<1>4. IsImage(EmptyImage) /\ EmptyImage.files = NoFiles /\ EmptyImage.cmd = <<>>
  <2>1. <<>> \in Seq(Word)
    OBVIOUS
  <2> QED BY <2>1, NoFileType DEF EmptyImage, IsImage
<1>5. TypeOK'
  BY <1>1, <1>2, <1>3, <1>4 DEF FilesInv, TypeOK, Phases
<1>6. ASSUME NEW d \in DOMAIN r.stages, NEW j \in DOMAIN r.stages[d].cmds PROVE CmdKept(d, j)'
  <2>1. stages'[d].cmds[j] = r.stages[d].cmds[j] /\ recipe'.stages[d].cmds[j] = r.stages[d].cmds[j]
    BY <1>3
  <2>2. ~Dispatched(d, j)'
    BY <1>3 DEF Dispatched
  <2>3. r.stages[d].cmds[j].op = "CMD" => AreGood(r.stages[d].cmds[j].args, r.stages[d].cmds[j].files)
    BY <1>1, NoFilesAre DEF AreGood
  <2> QED BY <2>1, <2>2, <2>3 DEF CmdKept
<1>7. StagesKept'
  BY <1>3, <1>6 DEF StagesKept
<1>8. BaseKept' /\ Inspecting'
  BY <1>3, <1>4 DEF BaseKept, Inspecting, BaseFiles, BaseCmd
<1> QED BY <1>5, <1>7, <1>8 DEF FilesInv

LEMMA LeaveKeepsFiles == ASSUME FilesInv, Fail \/ Panic PROVE FilesInv'
BY EndKeepsFiles DEF Fail, Panic, Leave

LEMMA ParseArgumentKeepsFiles == ASSUME FilesInv, ParseArgument PROVE FilesInv'
<1>1. PICK d0, j0, c, i0 : d0 = s /\ j0 = k /\ c = stages[s].cmds[k] /\ i0 = i
  OBVIOUS
<1>2. /\ phase = "parse" /\ d0 \in DOMAIN stages /\ j0 \in DOMAIN stages[d0].cmds /\ c.op = "CMD"
      /\ i0 \in DOMAIN c.args /\ i0 + Takes(c.args[i0]) <= Len(c.args)
      /\ stages' = [stages EXCEPT ![d0].cmds[j0].files = ParseWord(c, i0)] /\ i' = i0 + 1 + Takes(c.args[i0])
      /\ UNCHANGED <<registry, builds, phase, recipe, s, k, result, warned, ps, crashed>>
  BY <1>1 DEF ParseArgument, AtCmd, AtCommand
<1>3. c \in Cmds
  BY <1>1, <1>2, StageType DEF FilesInv, TypeOK
<1>4. CmdKept(d0, j0)
  BY <1>2 DEF FilesInv, StagesKept
<1>5. AreGood(c.args, c.files)
  BY <1>1, <1>2, <1>4 DEF CmdKept
<1>6. PICK files : files = ParseWord(c, i0)
  OBVIOUS
<1>7. files \in Parameters /\ AreGood(c.args, files)
  BY <1>2, <1>3, <1>5, <1>6, ParseWordIsGood
<1>8. PICK new : new = [c EXCEPT !.files = files]
  OBVIOUS
<1>9. new = [op |-> "CMD", json |-> c.json, args |-> c.args, files |-> files]
  <2>1. PICK json, args, old : c = [op |-> "CMD", json |-> json, args |-> args, files |-> old]
    BY <1>3 DEF Cmds
  <2> QED BY <1>8, <2>1
<1>10. new \in Cmds
  BY <1>3, <1>7, <1>9 DEF Cmds
<1>11. stages' = [stages EXCEPT ![d0].cmds[j0] = new]
  BY <1>1, <1>2, <1>6, <1>8
<1>12. \A d, j : ~Dispatched(d, j) /\ ~Dispatched(d, j)'
  BY <1>2 DEF Dispatched
<1>13. CmdKept(d0, j0)'
  <2>1. stages'[d0].cmds[j0] = new
    <3>1. PICK all, next : all = stages /\ next = stages'
      OBVIOUS
    <3>2. all \in Stages /\ new \in Command /\ d0 \in DOMAIN all /\ j0 \in DOMAIN all[d0].cmds /\ next = Replaced(all, d0, j0, new)
      BY <1>2, <1>10, <1>11, <3>1 DEF FilesInv, TypeOK, Command, Replaced
    <3> QED BY <3>1, <3>2, CmdReplaced
  <2>2. recipe' = recipe
    BY <1>2
  <2>3. PICK o : o = recipe.stages[d0].cmds[j0]
    OBVIOUS
  <2>4. c.op = o.op /\ c.args = o.args
    BY <1>1, <1>2, <1>4, <1>12, <2>3, Zenon DEF CmdKept
  <2>5. new.op = "CMD" /\ new.args = c.args /\ new.files = files
    BY <1>9
  <2>6. recipe'.stages[d0].cmds[j0] = o
    BY <2>2, <2>3, Zenon
  <2>7. c.op = "CMD" /\ AreGood(new.args, new.files) /\ ~Dispatched(d0, j0)'
    BY <1>2, <1>7, <1>12, <2>5, Zenon
  <2> QED BY <2>1, <2>4, <2>5, <2>6, <2>7, Zenon DEF CmdKept
<1>14. stages' \in Stages /\ DOMAIN stages' = DOMAIN stages /\ StagesKept'
  BY <1>1, <1>2, <1>10, <1>11, <1>12, <1>13, StagesChange
<1>15. i' \in Nat \ {0}
  <2>1. Takes(c.args[i0]) \in {0, 1, 2}
    BY DEF Takes
  <2>2. i0 \in Nat
    BY <1>1, <1>2 DEF FilesInv, TypeOK
  <2> QED BY <1>2, <2>1, <2>2
<1>16. TypeOK'
  BY <1>2, <1>14, <1>15 DEF FilesInv, TypeOK, result, heap
<1>17. BaseKept' /\ Inspecting'
  BY <1>2, <1>14, BasesStay DEF result, heap
<1> QED BY <1>14, <1>16, <1>17 DEF FilesInv

\* The steps that are about the loops alone.
LEMMA LoopKeepsFiles == ASSUME FilesInv, ParseNext \/ ParseStage \/ ResolveNothing \/ DispatchStage PROVE FilesInv'
<1>1. phase # "idle" /\ phase # "inspect" /\ UNCHANGED <<registry, recipe, stages, image, baseImg, ps>>
  BY DEF ParseNext, ParseStage, ResolveNothing, DispatchStage, AtCommand, PastCommands, result, heap
<1>2. /\ s' \in DOMAIN stages /\ k' \in Nat /\ i' \in Nat \ {0} /\ phase' \in Phases \ {"idle", "inspect"}
      /\ \A d \in DOMAIN stages : \A j \in DOMAIN stages[d].cmds : Dispatched(d, j)' <=> Dispatched(d, j)
  <2>1. stages \in Stages /\ s \in DOMAIN stages /\ k \in Nat /\ i \in Nat \ {0}
    BY <1>1 DEF FilesInv, TypeOK
  <2>2. /\ Len(stages) \in Nat /\ DOMAIN stages = 1..Len(stages)
        /\ \A d \in DOMAIN stages : Len(stages[d].cmds) \in Nat /\ DOMAIN stages[d].cmds = 1..Len(stages[d].cmds)
    BY <2>1, StageType
  <2>3. CASE ParseNext
    BY <2>1, <2>3 DEF ParseNext, AtCommand, Dispatched, Phases
  <2>4. CASE ParseStage
    <3>1. phase = "parse" /\ NextStage(1, "resolve") /\ i' = i
      BY <2>4 DEF ParseStage, PastCommands
    <3>2. s' \in DOMAIN stages /\ k' = 1 /\ phase' \in {"parse", "resolve"}
      BY <1>1, <3>1, NextStageType DEF FilesInv
    <3> QED BY <2>1, <3>1, <3>2 DEF Dispatched, Phases
  <2>5. CASE ResolveNothing
    <3>1. phase = "resolve" /\ NextStage(0, "dispatch") /\ i' = i
      BY <2>5 DEF ResolveNothing
    <3>2. s' \in DOMAIN stages /\ k' = 0 /\ (phase' = "resolve" \/ (phase' = "dispatch" /\ s' = 1))
      BY <1>1, <3>1, NextStageType DEF FilesInv
    <3> QED BY <2>1, <2>2, <3>1, <3>2 DEF Dispatched, Phases
  <2>6. CASE DispatchStage
    <3>1. phase = "dispatch" /\ NextStage(0, "finish") /\ i' = i /\ k = Len(stages[s].cmds) + 1
      BY <2>6 DEF DispatchStage, PastCommands
    <3>2. /\ s' \in DOMAIN stages /\ k' = 0
          /\ \/ s < Len(stages) /\ s' = s + 1 /\ phase' = "dispatch"
             \/ s = Len(stages) /\ s' = 1 /\ phase' = "finish"
      BY <1>1, <3>1, NextStageType DEF FilesInv
    <3>3. ASSUME NEW d \in DOMAIN stages, NEW j \in DOMAIN stages[d].cmds PROVE Dispatched(d, j)' <=> Dispatched(d, j)
      <4>1. d \in Nat /\ j \in Nat \ {0} /\ s \in Nat /\ d <= Len(stages) /\ (d = s => j < k)
        BY <2>1, <2>2, <3>1
      <4>2. CASE s < Len(stages)
        <5>1. s' = s + 1 /\ phase' = "dispatch" /\ k' = 0
          BY <3>2, <4>2
        <5>2. Dispatched(d, j)' <=> (d < s + 1 \/ (d = s + 1 /\ j < 0))
          BY <5>1 DEF Dispatched
        <5>3. Dispatched(d, j) <=> (d < s \/ (d = s /\ j < k))
          BY <3>1 DEF Dispatched
        <5> QED BY <4>1, <5>2, <5>3
      <4>3. CASE s = Len(stages)
        BY <2>2, <3>1, <3>2, <4>1, <4>3 DEF Dispatched
      <4> QED BY <2>1, <2>2, <4>2, <4>3
    <3> QED BY <2>1, <3>1, <3>2, <3>3 DEF Phases
  <2> QED BY <2>3, <2>4, <2>5, <2>6
<1>3. TypeOK'
  BY <1>1, <1>2 DEF FilesInv, TypeOK
<1>4. StagesKept'
  BY <1>1, <1>2, StagesStay
<1>5. BaseKept' /\ Inspecting'
  BY <1>1, <1>2, BasesStay
<1> QED BY <1>3, <1>4, <1>5 DEF FilesInv

LEMMA ResolveImageKeepsFiles == ASSUME FilesInv, ResolveImage PROVE FilesInv'
<1>1. PICK d0, img, ref, h :
          /\ d0 = s /\ img = registry[stages[d0].base] /\ stages[d0].base \in DOMAIN registry
          /\ image' = [image EXCEPT ![d0] = [labels |-> ref, history |-> h, cmd |-> img.cmd, files |-> img.files, size |-> img.size]]
          /\ baseImg' = [baseImg EXCEPT ![d0] = [name |-> stages[d0].base, labels |-> ref]]
  BY DEF ResolveImage
<1>2. phase = "resolve" /\ NextStage(0, "dispatch") /\ UNCHANGED <<registry, recipe, stages, i>>
  BY DEF ResolveImage
<1>3. /\ stages \in Stages /\ s \in DOMAIN stages /\ i \in Nat \ {0} /\ \A name \in DOMAIN registry : Recorded(registry[name])
      /\ image = [d \in DOMAIN stages |-> image[d]] /\ \A d \in DOMAIN stages : IsImage(image[d])
      /\ baseImg = [d \in DOMAIN stages |-> baseImg[d]]
  BY <1>2 DEF FilesInv, TypeOK
<1>4. s' \in DOMAIN stages /\ k' = 0 /\ (phase' = "resolve" \/ (phase' = "dispatch" /\ s' = 1))
  BY <1>2, NextStageType DEF FilesInv
<1>5. PICK new, base : /\ new = [labels |-> ref, history |-> h, cmd |-> img.cmd, files |-> img.files, size |-> img.size]
                       /\ base = [name |-> stages[d0].base, labels |-> ref]
  OBVIOUS
<1>6. IsImage(new) /\ new.cmd = img.cmd /\ new.files = img.files
  BY <1>1, <1>3, <1>5 DEF IsImage, Recorded
<1>7. base.name = stages[d0].base /\ base # NoImage
  <2>1. stages[d0].base # Empty
    BY <1>1, <1>3, StageType
  <2> QED BY <1>5, <2>1 DEF NoImage
<1>8. /\ image' = [d \in DOMAIN stages |-> image'[d]] /\ \A d \in DOMAIN stages : IsImage(image'[d])
      /\ image'[d0] = new /\ \A d \in DOMAIN stages : d # d0 => image'[d] = image[d]
  BY <1>1, <1>3, <1>5, <1>6
<1>9. /\ baseImg' = [d \in DOMAIN stages |-> baseImg'[d]]
      /\ baseImg'[d0] = base /\ \A d \in DOMAIN stages : d # d0 => baseImg'[d] = baseImg[d]
  BY <1>1, <1>3, <1>5
<1>10. TypeOK'
  BY <1>2, <1>3, <1>4, <1>8, <1>9 DEF FilesInv, TypeOK, Phases
<1>11. StagesKept'
  <2>1. \A d \in DOMAIN stages : \A j \in DOMAIN stages[d].cmds : d \in Nat \ {0} /\ j \in Nat
    BY <1>3, StageType
  <2>2. \A d \in DOMAIN stages : \A j \in DOMAIN stages[d].cmds : ~Dispatched(d, j)' /\ ~Dispatched(d, j)
    BY <1>2, <1>4, <2>1 DEF Dispatched
  <2> QED BY <1>2, <2>2, StagesStay
<1>12. BaseKept'
  <2>1. ASSUME NEW d \in DOMAIN stages
        PROVE  /\ baseImg'[d] # NoImage => baseImg'[d].name \in DOMAIN registry
               /\ image'[d].files = BaseFiles(d)' /\ image'[d].cmd = BaseCmd(d)'
    <3>1. CASE d = d0
      BY <1>1, <1>2, <1>6, <1>7, <1>8, <1>9, <3>1 DEF BaseFiles, BaseCmd
    <3>2. CASE d # d0
      BY <1>2, <1>8, <1>9, <3>2 DEF FilesInv, BaseKept, BaseFiles, BaseCmd
    <3> QED BY <3>1, <3>2
  <2> QED BY <1>2, <2>1 DEF BaseKept
<1>13. Inspecting'
  BY <1>4 DEF Inspecting
<1> QED BY <1>10, <1>11, <1>12, <1>13 DEF FilesInv

LEMMA EnterKeepsFiles == ASSUME FilesInv, Enter PROVE FilesInv'
<1>1. PICK d0, b : /\ d0 = s /\ b = BaseOf(d0)
                   /\ image' = (IF b = 0 THEN image ELSE [image EXCEPT ![d0] = image[b]])
                   /\ baseImg' = (IF b = 0 THEN baseImg ELSE [baseImg EXCEPT ![d0] = baseImg[b]])
  BY DEF Enter
<1>2. phase = "dispatch" /\ k = 0 /\ k' = 1 /\ UNCHANGED <<registry, phase, recipe, stages, s, i>>
  BY DEF Enter
<1>3. /\ stages \in Stages /\ s \in DOMAIN stages
      /\ image = [d \in DOMAIN stages |-> image[d]] /\ \A d \in DOMAIN stages : IsImage(image[d])
      /\ baseImg = [d \in DOMAIN stages |-> baseImg[d]]
  BY <1>2 DEF FilesInv, TypeOK
<1>4. b # 0 => b \in DOMAIN stages
  <2>1. Len(stages) \in Nat /\ DOMAIN stages = 1..Len(stages) /\ d0 \in 1..Len(stages)
    BY <1>1, <1>3, StageType
  <2> QED BY <1>1, <2>1, BaseOfType
<1>5. \A d \in DOMAIN stages : \E e \in DOMAIN stages : image'[d] = image[e] /\ baseImg'[d] = baseImg[e]
  BY <1>1, <1>3, <1>4
<1>6. image' = [d \in DOMAIN stages |-> image'[d]] /\ baseImg' = [d \in DOMAIN stages |-> baseImg'[d]]
  BY <1>1, <1>3
<1>7. TypeOK'
  BY <1>2, <1>3, <1>5, <1>6 DEF FilesInv, TypeOK
<1>8. StagesKept'
  <2>1. \A d \in DOMAIN stages : \A j \in DOMAIN stages[d].cmds : j \in Nat \ {0}
    BY <1>3, StageType
  <2>2. \A d \in DOMAIN stages : \A j \in DOMAIN stages[d].cmds : Dispatched(d, j)' <=> Dispatched(d, j)
    BY <1>2, <2>1 DEF Dispatched
  <2> QED BY <1>2, <2>2, StagesStay
<1>9. BaseKept' /\ Inspecting'
  BY <1>2, <1>5 DEF FilesInv, BaseKept, BaseFiles, BaseCmd, Inspecting
<1> QED BY <1>7, <1>8, <1>9 DEF FilesInv

LEMMA DispatchKeepsFiles == ASSUME FilesInv, DispatchLabel \/ DispatchFile PROVE FilesInv'
<1>1. /\ phase = "dispatch" /\ s \in DOMAIN stages /\ k \in DOMAIN stages[s].cmds /\ stages[s].cmds[k].op # "CMD"
      /\ k' = k + 1 /\ UNCHANGED <<registry, phase, recipe, stages, s, i, baseImg, ps>>
  BY DEF DispatchLabel, DispatchFile, AtCommand
<1>2. ImagesStay
  <2>1. TypeOK /\ IsImage(image[s])
    BY <1>1 DEF FilesInv, TypeOK
  <2>2. CASE DispatchLabel
    <3>1. PICK ref : CommitToHistory(s, [image[s] EXCEPT !.labels = ref], <<"LABEL", stages[s].name>>)
      BY <2>2 DEF DispatchLabel
    <3>2. PICK img, e : img = [image[s] EXCEPT !.labels = ref] /\ e = <<"LABEL", stages[s].name>> /\ CommitToHistory(s, img, e)
      BY <3>1
    <3>3. IsImage(img) /\ img.files = image[s].files /\ img.cmd = image[s].cmd
      BY <2>1, <3>2, ImageFields
    <3> QED BY <1>1, <2>1, <3>2, <3>3, CommittedFiles
  <2>3. CASE DispatchFile
    <3>1. PICK img, e : img = image[s] /\ CommitToHistory(s, img, e)
      BY <2>3 DEF DispatchFile
    <3> QED BY <1>1, <2>1, <3>1, CommittedFiles
  <2> QED BY <2>2, <2>3
<1>3. stages \in Stages /\ k \in Nat
  BY <1>1 DEF FilesInv, TypeOK
<1>4. TypeOK'
  BY <1>1, <1>2, <1>3 DEF FilesInv, TypeOK, ImagesStay
<1>5. StagesKept'
  <2>1. \A d \in DOMAIN stages : \A j \in DOMAIN stages[d].cmds : j \in Nat \ {0}
    BY <1>3, StageType
  <2>2. \A d \in DOMAIN stages : \A j \in DOMAIN stages[d].cmds :
            stages[d].cmds[j].op = "CMD" => (Dispatched(d, j)' <=> Dispatched(d, j))
    BY <1>1, <1>3, <2>1 DEF Dispatched
  <2> QED BY <1>1, <2>2, StagesStay
<1>6. BaseKept' /\ Inspecting'
  BY <1>1, <1>2, BasesStay DEF ImagesStay
<1> QED BY <1>4, <1>5, <1>6 DEF FilesInv

LEMMA DispatchCmdKeepsFiles == ASSUME FilesInv, DispatchCmd PROVE FilesInv'
<1>1. PICK d0, j0, c : d0 = s /\ j0 = k /\ c = stages[s].cmds[k]
  OBVIOUS
<1>2. /\ phase = "dispatch" /\ d0 \in DOMAIN stages /\ j0 \in DOMAIN stages[d0].cmds /\ c.op = "CMD"
      /\ ~ExpandCrashes(c.files.adapters) /\ ExpandCmd(c).files.model # NoFile
      /\ stages' = [stages EXCEPT ![d0].cmds[j0] = ExpandCmd(c)]
      /\ \E e : CommitToHistory(d0, image[d0], e)
      /\ k' = k + 1 /\ UNCHANGED <<registry, phase, recipe, s, i, baseImg, ps>>
  BY <1>1 DEF DispatchCmd, AtCmd, AtCommand
<1>3. c \in Cmds /\ stages \in Stages /\ k \in Nat /\ i \in Nat \ {0}
  BY <1>1, <1>2, StageType DEF FilesInv, TypeOK
<1>4. CmdKept(d0, j0) /\ ~Dispatched(d0, j0)
  BY <1>1, <1>2, <1>3 DEF FilesInv, StagesKept, Dispatched
<1>5. AreGood(c.args, c.files)
  BY <1>1, <1>2, <1>4 DEF CmdKept
<1>6. PICK new : new = ExpandCmd(c)
  OBVIOUS
<1>7. /\ new \in Cmds /\ new.args = [j \in DOMAIN c.args |-> Expanded(c.args[j])]
      /\ AreGood(new.args, new.files) /\ new.files.model # NoFile
  BY <1>2, <1>3, <1>5, <1>6, ExpandCmdIsGood
<1>8. CmdKept(d0, j0)'
  <2>1. stages'[d0].cmds[j0] = new
    <3>1. PICK all, next : all = stages /\ next = stages'
      OBVIOUS
    <3>2. all \in Stages /\ new \in Command /\ d0 \in DOMAIN all /\ j0 \in DOMAIN all[d0].cmds /\ next = Replaced(all, d0, j0, new)
      BY <1>2, <1>3, <1>6, <1>7, <3>1 DEF Command, Replaced
    <3> QED BY <3>1, <3>2, CmdReplaced
  <2>2. recipe' = recipe
    BY <1>2
  <2>3. Dispatched(d0, j0)'
    BY <1>1, <1>2, <1>3 DEF Dispatched
  <2>4. new.op = "CMD"
    BY <1>7 DEF Cmds
  <2>5. c.op = recipe.stages[d0].cmds[j0].op /\ c.args = recipe.stages[d0].cmds[j0].args
    BY <1>1, <1>2, <1>4 DEF CmdKept
  <2> QED BY <1>2, <1>7, <2>1, <2>2, <2>3, <2>4, <2>5 DEF CmdKept
<1>9. stages' \in Stages /\ DOMAIN stages' = DOMAIN stages /\ StagesKept'
  <2>1. \A d \in DOMAIN stages : \A j \in DOMAIN stages[d].cmds : j \in Nat \ {0}
    BY <1>3, StageType
  <2>2. \A d \in DOMAIN stages : \A j \in DOMAIN stages[d].cmds :
            (d # d0 \/ j # j0) => (Dispatched(d, j)' <=> Dispatched(d, j))
    BY <1>1, <1>2, <1>3, <2>1 DEF Dispatched
  <2>3. stages' = [stages EXCEPT ![d0].cmds[j0] = new] /\ stages[d0].cmds[j0].op = "CMD" /\ phase # "idle" /\ recipe' = recipe
    BY <1>1, <1>2, <1>6
  <2> QED BY <1>2, <1>7, <1>8, <2>2, <2>3, StagesChange
<1>10. ImagesStay
  <2>1. TypeOK /\ IsImage(image[d0]) /\ phase # "idle"
    BY <1>2 DEF FilesInv, TypeOK
  <2>2. PICK img, e : img = image[d0] /\ CommitToHistory(d0, img, e)
    BY <1>2
  <2> QED BY <1>2, <2>1, <2>2, CommittedFiles
<1>11. TypeOK'
  BY <1>2, <1>3, <1>9, <1>10 DEF FilesInv, TypeOK, ImagesStay
<1>12. BaseKept' /\ Inspecting'
  BY <1>2, <1>9, <1>10, BasesStay DEF ImagesStay
<1> QED BY <1>9, <1>11, <1>12 DEF FilesInv

LEMMA FinishKeepsFiles == ASSUME FilesInv, Finish PROVE FilesInv'
<1>1. /\ phase = "finish" /\ phase' = "describe" /\ UNCHANGED <<registry, recipe, stages, s, k, i, baseImg, ps>>
      /\ image' = image \/ \E ref : image' = [image EXCEPT ![t].labels = ref]
  BY DEF Finish
<1>2. TypeOK /\ t \in DOMAIN stages
  BY <1>1, TargetType DEF FilesInv
<1>3. image = [d \in DOMAIN stages |-> image[d]] /\ \A d \in DOMAIN stages : IsImage(image[d])
  BY <1>1, <1>2 DEF TypeOK
<1>4. ImagesStay
  <2>1. CASE image' = image
    BY <1>3, <2>1 DEF ImagesStay
  <2>2. CASE \E ref : image' = [image EXCEPT ![t].labels = ref]
    <3>1. PICK d0, ref, new : d0 = t /\ new = [image[d0] EXCEPT !.labels = ref] /\ image' = [image EXCEPT ![d0] = new]
      BY <2>2
    <3>2. IsImage(new) /\ new.files = image[d0].files /\ new.cmd = image[d0].cmd
      BY <1>2, <1>3, <3>1, ImageFields
    <3> QED BY <1>2, <1>3, <3>1, <3>2 DEF ImagesStay
  <2> QED BY <1>1, <2>1, <2>2
<1>5. TypeOK'
  BY <1>1, <1>2, <1>4 DEF TypeOK, ImagesStay, Phases
<1>6. StagesKept'
  <2>1. \A d, j : Dispatched(d, j)' /\ Dispatched(d, j)
    BY <1>1 DEF Dispatched
  <2> QED BY <1>1, <2>1, StagesStay
<1>7. BaseKept' /\ Inspecting'
  BY <1>1, <1>4, BasesStay DEF ImagesStay
<1> QED BY <1>5, <1>6, <1>7 DEF FilesInv

\* The files that the builder reads.
LEMMA SourceType ==
    ASSUME FilesInv, phase \in {"describe", "inspect"}
    PROVE  /\ Source \in Parameters /\ SourceCmd \in Seq(Word)
           /\ BaseFiles(t) \in Parameters
           /\ HasCmd(t) => AreGood(SourceCmd, Source) /\ Source.model # NoFile
<1>1. phase # "idle" /\ t \in DOMAIN stages
  BY TargetType
<1>2. \A name \in DOMAIN registry : Recorded(registry[name])
  BY DEF FilesInv, TypeOK
<1>3. BaseFiles(t) \in Parameters /\ BaseCmd(t) \in Seq(Word)
  <2>1. CASE baseImg[t] = NoImage
    <3>1. <<>> \in Seq(Word)
      OBVIOUS
    <3> QED BY <2>1, <3>1, NoFileType DEF BaseFiles, BaseCmd
  <2>2. CASE baseImg[t] # NoImage
    <3>1. baseImg[t].name \in DOMAIN registry
      BY <1>1, <2>2 DEF FilesInv, BaseKept
    <3> QED BY <1>2, <2>2, <3>1 DEF BaseFiles, BaseCmd, Recorded
  <2> QED BY <2>1, <2>2
<1>4. CASE HasCmd(t)
  <2>1. PICK d0 : d0 = t
    OBVIOUS
  <2>2. PICK j \in DOMAIN stages[d0].cmds : stages[d0].cmds[j].op = "CMD" /\ CmdCommand(d0) = stages[d0].cmds[j]
    BY <1>1, <1>4, <2>1, CmdOfStage
  <2>3. Dispatched(d0, j)
    BY DEF Dispatched
  <2>4. CmdKept(d0, j)
    BY <1>1, <2>1 DEF FilesInv, StagesKept
  <2>5. PICK c : c = stages[d0].cmds[j]
    OBVIOUS
  <2>6. c \in Cmds /\ AreGood(c.args, c.files) /\ c.files.model # NoFile
    <3>1. stages \in Stages
      BY <1>1 DEF FilesInv, TypeOK
    <3> QED BY <1>1, <2>1, <2>2, <2>3, <2>4, <2>5, <3>1, StageType DEF CmdKept
  <2>7. Source = c.files /\ SourceCmd = c.args
    BY <1>4, <2>1, <2>2, <2>5 DEF Source, SourceCmd
  <2> QED BY <1>3, <2>6, <2>7 DEF Cmds
<1>5. CASE ~HasCmd(t)
  BY <1>3, <1>5 DEF Source, SourceCmd
<1> QED BY <1>3, <1>4, <1>5

LEMMA DescribeKeepsFiles == ASSUME FilesInv, Describe PROVE FilesInv'
<1>1. /\ phase = "describe" /\ phase' = "inspect" /\ UNCHANGED <<registry, recipe, stages, s, k, i, baseImg>>
      /\ \E ref, size, cmd :
             /\ cmd = IF HasCmd(t) THEN CmdCommand(t).args ELSE image[t].cmd
             /\ image' = [image EXCEPT ![t] = [@ EXCEPT !.labels = ref, !.cmd = cmd, !.size = size]]
      /\ ps' = IF HasCmd(t) THEN Listed(CmdCommand(t).files)
               ELSE IF baseImg[t] # NoImage THEN Listed(registry[baseImg[t].name].files) ELSE <<>>
  BY DEF Describe
<1>2. TypeOK /\ t \in DOMAIN stages
  BY <1>1, TargetType DEF FilesInv
<1>3. image = [d \in DOMAIN stages |-> image[d]] /\ \A d \in DOMAIN stages : IsImage(image[d])
  BY <1>1, <1>2 DEF TypeOK
<1>4. /\ Source \in Parameters /\ SourceCmd \in Seq(Word) /\ BaseFiles(t) \in Parameters
  BY <1>1, SourceType
<1>5. image[t].files = BaseFiles(t) /\ image[t].cmd = BaseCmd(t)
  BY <1>1, <1>2 DEF FilesInv, BaseKept
<1>6. PICK d0, ref, size, cmd :
          /\ d0 = t /\ cmd = (IF HasCmd(t) THEN CmdCommand(t).args ELSE image[d0].cmd)
          /\ image' = [image EXCEPT ![d0] = [@ EXCEPT !.labels = ref, !.cmd = cmd, !.size = size]]
  BY <1>1
<1>7. PICK new : /\ image' = [image EXCEPT ![d0] = new]
                 /\ IsImage(new) /\ new.files = BaseFiles(t) /\ new.cmd = SourceCmd
  <2>1. PICK old : old = image[d0] /\ IsImage(old)
    BY <1>2, <1>3, <1>6
  <2>2. PICK lb, hs, cm, fs, sz : old = [labels |-> lb, history |-> hs, cmd |-> cm, files |-> fs, size |-> sz]
    BY <2>1, Zenon DEF IsImage
  <2>3. PICK new : new = [labels |-> ref, history |-> hs, cmd |-> cmd, files |-> fs, size |-> size]
    OBVIOUS
  <2>4. [old EXCEPT !.labels = ref, !.cmd = cmd, !.size = size] = new
    <3>1. PICK u : u = [old EXCEPT !.labels = ref]
      OBVIOUS
    <3>2. u = [labels |-> ref, history |-> hs, cmd |-> cm, files |-> fs, size |-> sz]
      BY <2>2, <3>1
    <3>3. PICK v : v = [u EXCEPT !.cmd = cmd]
      OBVIOUS
    <3>4. v = [labels |-> ref, history |-> hs, cmd |-> cmd, files |-> fs, size |-> sz]
      BY <3>2, <3>3
    <3>5. [v EXCEPT !.size = size] = [labels |-> ref, history |-> hs, cmd |-> cmd, files |-> fs, size |-> size]
      BY <3>4
    <3> QED BY <2>3, <3>1, <3>3, <3>5
  <2>5. image' = [image EXCEPT ![d0] = new]
    <3>1. image' = [image EXCEPT ![d0] = [old EXCEPT !.labels = ref, !.cmd = cmd, !.size = size]]
      BY <1>6, <2>1
    <3> QED BY <2>4, <3>1
  <2>6. fs = BaseFiles(t) /\ cmd = SourceCmd
    BY <1>5, <1>6, <2>1, <2>2 DEF SourceCmd
  <2>7. IsImage(new) /\ new.files = BaseFiles(t) /\ new.cmd = SourceCmd
    BY <1>4, <2>3, <2>6 DEF IsImage
  <2> QED BY <2>5, <2>7
<1>8. /\ image' = [d \in DOMAIN stages |-> image'[d]] /\ \A d \in DOMAIN stages : IsImage(image'[d])
      /\ image'[d0] = new /\ \A d \in DOMAIN stages : d # d0 => image'[d] = image[d]
  BY <1>2, <1>3, <1>6, <1>7
<1>9. ps' \in Seq(Pair) /\ (\A j \in DOMAIN ps' : ps'[j] \in Pairs(Source)) /\ \A q \in Pairs(Source) : Holds(ps', q)
  <2>1. CASE HasCmd(t) \/ baseImg[t] # NoImage
    <3>1. ps' = Listed(Source)
      BY <1>1, <2>1 DEF Source, BaseFiles
    <3>2. Listed(Source) \in Seq(Pair) /\ \A q : Holds(Listed(Source), q) <=> q \in Pairs(Source)
      BY <1>4, ListedAre
    <3> QED BY <3>1, <3>2 DEF Holds
  <2>2. CASE ~(HasCmd(t) \/ baseImg[t] # NoImage)
    <3>1. ps' = <<>> /\ Source = NoFiles
      BY <1>1, <2>2 DEF Source, BaseFiles
    <3>2. <<>> \in Seq(Pair) /\ DOMAIN <<>> = {}
      OBVIOUS
    <3> QED BY <3>1, <3>2, NoFilesAre
  <2> QED BY <2>1, <2>2
<1>10. TypeOK'
  BY <1>1, <1>2, <1>8, <1>9 DEF TypeOK, Phases
<1>11. StagesKept'
  <2>1. \A d, j : Dispatched(d, j)' /\ Dispatched(d, j)
    BY <1>1 DEF Dispatched
  <2> QED BY <1>1, <2>1, StagesStay
<1>12. t' = t /\ Source' = Source /\ SourceCmd' = SourceCmd /\ \A d : BaseFiles(d)' = BaseFiles(d) /\ BaseCmd(d)' = BaseCmd(d)
  BY <1>1, SourceStays
<1>13. BaseKept'
  <2>1. \A d \in DOMAIN stages : d # d0 => image'[d].files = BaseFiles(d) /\ image'[d].cmd = BaseCmd(d)
    BY <1>1, <1>8 DEF FilesInv, BaseKept
  <2>2. \A d \in DOMAIN stages : baseImg[d] # NoImage => baseImg[d].name \in DOMAIN registry
    BY <1>1 DEF FilesInv, BaseKept
  <2> QED BY <1>1, <1>6, <1>12, <2>1, <2>2 DEF BaseKept
<1>14. Inspecting'
  <2>1. image'[t] = new
    BY <1>6, <1>8
  <2>2. ASSUME NEW x \in Kinds, Source[x] # NoFile PROVE \E j \in DOMAIN ps' : ps'[j].type = x
    <3>1. [type |-> x, file |-> Source[x]] \in Pairs(Source)
      BY <2>2 DEF Pairs
    <3> QED BY <1>9, <3>1 DEF Holds
  <2>3. \A j \in DOMAIN new.files.adapters : Holds(BaseFiles(t).adapters, new.files.adapters[j])
    BY <1>7 DEF Holds
  <2>4. BaseFiles(t)' = BaseFiles(t)
    <3>1. t' = d0 /\ t = d0
      BY <1>6, <1>12
    <3> QED BY <1>12, <3>1 DEF BaseFiles
  <2> QED BY <1>7, <1>9, <1>12, <2>1, <2>2, <2>3, <2>4 DEF Inspecting
<1> QED BY <1>10, <1>11, <1>13, <1>14 DEF FilesInv

\* A file that the builder reads takes the place of that of its type.
LEMMA WithFileType ==
    ASSUME NEW files \in Parameters, NEW x \in Types, NEW f \in Parameter
    PROVE  /\ WithFile(files, x, f) \in Parameters
           /\ x \in Kinds =>
                  /\ WithFile(files, x, f)[x] = f /\ WithFile(files, x, f).adapters = files.adapters
                  /\ \A y \in Kinds : y # x => WithFile(files, x, f)[y] = files[y]
           /\ x = "adapter" =>
                  /\ \A y \in Kinds : WithFile(files, x, f)[y] = files[y]
                  /\ \A a : Holds(WithFile(files, x, f).adapters, a) => Holds(files.adapters, a) \/ a = f
<1>1. PICK m, d, p, a : /\ files = [model |-> m, drafter |-> d, projector |-> p, adapters |-> a]
                        /\ m \in Parameter /\ d \in Parameter /\ p \in Parameter /\ a \in Seq(Parameter)
  BY FilesType DEF Kinds
<1>2. files.adapters = a /\ files.model = m /\ files.drafter = d /\ files.projector = p
  BY <1>1
<1>3. PICK new : new = WithFile(files, x, f)
  OBVIOUS
<1>4. CASE x = "adapter"
  <2>1. PICK b : b = Append(a, f)
    OBVIOUS
  <2>2. new = [files EXCEPT !.adapters = b]
    BY <1>2, <1>3, <1>4, <2>1 DEF WithFile
  <2>3. new = [model |-> m, drafter |-> d, projector |-> p, adapters |-> b]
    BY <1>1, <2>2
  <2>4. b \in Seq(Parameter) /\ \A j \in DOMAIN b : (j \in DOMAIN a /\ b[j] = a[j]) \/ b[j] = f
    BY <1>1, <2>1
  <2>5. new \in Parameters /\ new.adapters = b /\ \A y \in Kinds : new[y] = files[y]
    BY <1>1, <2>3, <2>4 DEF Parameters, Kinds
  <2>6. x \notin Kinds
    BY <1>4 DEF Kinds
  <2> QED BY <1>2, <1>3, <2>4, <2>5, <2>6 DEF Holds
<1>5. CASE x \in Kinds
  <2>1. x # "adapter"
    BY <1>5 DEF Kinds
  <2>2. new = [files EXCEPT ![x] = f]
    BY <1>3, <2>1 DEF WithFile
  <2>3. new \in Parameters /\ new[x] = f /\ new.adapters = a /\ \A y \in Kinds : y # x => new[y] = files[y]
    BY <1>1, <1>5, <2>2 DEF Parameters, Kinds
  <2> QED BY <1>2, <1>3, <2>1, <2>3
<1> QED BY <1>4, <1>5 DEF Types

LEMMA InspectKeepsFiles == ASSUME FilesInv, Inspect PROVE FilesInv'
<1>1. /\ phase = "inspect" /\ ps # <<>> /\ ps' = Tail(ps) /\ UNCHANGED <<registry, phase, recipe, stages, s, k, i, baseImg>>
      /\ image' = [image EXCEPT ![t] =
             [image[t] EXCEPT !.size = image[t].size + 1, !.files = WithFile(image[t].files, ps[1].type, ps[1].file)]]
  BY DEF Inspect
<1>2. TypeOK /\ t \in DOMAIN stages
  BY <1>1, TargetType DEF FilesInv
<1>3. /\ image = [d \in DOMAIN stages |-> image[d]] /\ \A d \in DOMAIN stages : IsImage(image[d])
      /\ ps \in Seq(Pair)
  BY <1>1, <1>2 DEF TypeOK
<1>4. PICK q, l : q = ps[1] /\ l = Len(ps)
  OBVIOUS
<1>5. /\ q \in Pair /\ l \in Nat \ {0} /\ ps' \in Seq(Pair) /\ DOMAIN ps = 1..l /\ DOMAIN ps' = 1..(l - 1)
      /\ \A j \in 1..(l - 1) : ps'[j] = ps[j + 1]
  <2> DEFINE P == Pair
  <2>1. ps \in Seq(P) /\ ps # <<>>
    BY <1>1, <1>3
  <2> HIDE DEF P
  <2>2. Len(ps) \in Nat /\ Len(ps) # 0 /\ ps[1] \in P /\ Tail(ps) \in Seq(P) /\ Len(Tail(ps)) = Len(ps) - 1
        /\ \A j \in 1..Len(Tail(ps)) : Tail(ps)[j] = ps[j + 1]
    BY <2>1
  <2>3. DOMAIN ps = 1..Len(ps) /\ DOMAIN Tail(ps) = 1..Len(Tail(ps))
    BY <2>1, <2>2
  <2> QED BY <1>1, <1>4, <2>2, <2>3 DEF P
<1>6. /\ image[t].cmd = SourceCmd
      /\ \A j \in DOMAIN ps : ps[j] \in Pairs(Source)
      /\ \A x \in Kinds :
             /\ image[t].files[x] \in {BaseFiles(t)[x], Source[x]}
             /\ Source[x] # NoFile => image[t].files[x] = Source[x] \/ \E j \in DOMAIN ps : ps[j].type = x
      /\ \A j \in DOMAIN image[t].files.adapters :
             Holds(BaseFiles(t).adapters, image[t].files.adapters[j]) \/ Holds(Source.adapters, image[t].files.adapters[j])
  BY <1>1 DEF FilesInv, Inspecting
<1>7. PICK d0, old, files : d0 = t /\ old = image[d0] /\ files = WithFile(old.files, q.type, q.file)
  OBVIOUS
<1>8. old.files \in Parameters /\ IsImage(old)
  BY <1>2, <1>3, <1>7 DEF IsImage
<1>9. PICK new : image' = [image EXCEPT ![d0] = new] /\ IsImage(new) /\ new.files = files /\ new.cmd = old.cmd
  <2>1. PICK lb, hs, cm, fs, sz : old = [labels |-> lb, history |-> hs, cmd |-> cm, files |-> fs, size |-> sz]
    BY <1>8, Zenon DEF IsImage
  <2>2. old.size = sz /\ old.files = fs /\ old.cmd = cm
    BY <2>1
  <2>3. PICK n : n = old.size + 1
    OBVIOUS
  <2>4. PICK u : u = [old EXCEPT !.size = n]
    OBVIOUS
  <2>5. u = [labels |-> lb, history |-> hs, cmd |-> cm, files |-> fs, size |-> n]
    BY <2>1, <2>4
  <2>6. PICK v : v = [u EXCEPT !.files = files]
    OBVIOUS
  <2>7. v = [labels |-> lb, history |-> hs, cmd |-> cm, files |-> files, size |-> n]
    BY <2>5, <2>6
  <2>8. image' = [image EXCEPT ![d0] = v]
    <3>1. image' = [image EXCEPT ![d0] = [[old EXCEPT !.size = n] EXCEPT !.files = files]]
      BY <1>1, <1>4, <1>7, <2>3
    <3> QED BY <2>4, <2>6, <3>1
  <2>9. files \in Parameters
    <3>1. q.type \in Types /\ q.file \in Parameter
      BY <1>5 DEF Pair
    <3> QED BY <1>7, <1>8, <3>1, WithFileType
  <2>10. IsImage(v) /\ v.files = files /\ v.cmd = old.cmd
    BY <1>8, <2>2, <2>7, <2>9 DEF IsImage
  <2> QED BY <2>8, <2>10, Zenon
<1>10. /\ image' = [d \in DOMAIN stages |-> image'[d]] /\ \A d \in DOMAIN stages : IsImage(image'[d])
       /\ image'[d0] = new /\ \A d \in DOMAIN stages : d # d0 => image'[d] = image[d]
  BY <1>2, <1>3, <1>7, <1>9
<1>11. TypeOK'
  BY <1>1, <1>2, <1>5, <1>10 DEF TypeOK, Phases
<1>12. StagesKept'
  <2>1. \A d, j : Dispatched(d, j)' /\ Dispatched(d, j)
    BY <1>1 DEF Dispatched
  <2> QED BY <1>1, <2>1, StagesStay
<1>13. /\ t' = d0 /\ t = d0 /\ Source' = Source /\ SourceCmd' = SourceCmd /\ BaseFiles(t)' = BaseFiles(t)
       /\ \A d : BaseFiles(d)' = BaseFiles(d) /\ BaseCmd(d)' = BaseCmd(d)
  BY <1>1, <1>7, SourceStays
<1>14. BaseKept'
  <2>1. \A d \in DOMAIN stages : d # d0 => image'[d].files = BaseFiles(d) /\ image'[d].cmd = BaseCmd(d)
    BY <1>1, <1>10, <1>13 DEF FilesInv, BaseKept
  <2>2. \A d \in DOMAIN stages : baseImg[d] # NoImage => baseImg[d].name \in DOMAIN registry
    BY <1>1 DEF FilesInv, BaseKept
  <2> QED BY <1>1, <1>13, <2>1, <2>2 DEF BaseKept
<1>15. Inspecting'
  <2>1. q \in Pairs(Source) /\ \A j \in DOMAIN ps' : ps'[j] \in Pairs(Source)
    BY <1>4, <1>5, <1>6
  <2>2. /\ q.type \in Kinds => /\ files[q.type] = q.file /\ files.adapters = old.files.adapters /\ q.file = Source[q.type]
                               /\ \A x \in Kinds : x # q.type => files[x] = old.files[x]
        /\ q.type = "adapter" => /\ Holds(Source.adapters, q.file) /\ \A x \in Kinds : files[x] = old.files[x]
                                 /\ \A a : Holds(files.adapters, a) => Holds(old.files.adapters, a) \/ a = q.file
        /\ q.type \in Kinds \/ q.type = "adapter"
    <3>1. (q.type \in Kinds => q.file = Source[q.type]) /\ (q.type = "adapter" => Holds(Source.adapters, q.file))
      BY <2>1 DEF Pairs, Kinds, Holds
    <3>2. q.type \in Kinds \/ q.type = "adapter"
      BY <1>5 DEF Pair, Types
    <3>3. q.type \in Types /\ q.file \in Parameter
      BY <1>5 DEF Pair
    <3>4. /\ q.type \in Kinds => /\ files[q.type] = q.file /\ files.adapters = old.files.adapters
                                 /\ \A x \in Kinds : x # q.type => files[x] = old.files[x]
          /\ q.type = "adapter" => /\ \A x \in Kinds : files[x] = old.files[x]
                                   /\ \A a : Holds(files.adapters, a) => Holds(old.files.adapters, a) \/ a = q.file
      <4>1. PICK x, e, fs : x = q.type /\ e = q.file /\ fs = old.files
        OBVIOUS
      <4>2. files = WithFile(fs, x, e) /\ fs \in Parameters /\ x \in Types /\ e \in Parameter
        BY <1>7, <1>8, <3>3, <4>1
      <4>3. /\ x \in Kinds =>
                  /\ WithFile(fs, x, e)[x] = e /\ WithFile(fs, x, e).adapters = fs.adapters
                  /\ \A y \in Kinds : y # x => WithFile(fs, x, e)[y] = fs[y]
            /\ x = "adapter" =>
                  /\ \A y \in Kinds : WithFile(fs, x, e)[y] = fs[y]
                  /\ \A a : Holds(WithFile(fs, x, e).adapters, a) => Holds(fs.adapters, a) \/ a = e
        BY <4>2, WithFileType
      <4> QED BY <4>1, <4>2, <4>3
    <3> QED BY <3>1, <3>2, <3>4
  <2>3. ASSUME NEW x \in Kinds
        PROVE  /\ files[x] \in {BaseFiles(t)[x], Source[x]}
               /\ Source[x] # NoFile => files[x] = Source[x] \/ \E j \in DOMAIN ps' : ps'[j].type = x
    <3>1. CASE q.type = x
      BY <2>2, <3>1
    <3>2. CASE q.type # x
      <4>1. files[x] = old.files[x]
        BY <2>2, <3>2
      <4>2. (\E j \in DOMAIN ps : ps[j].type = x) => \E j \in DOMAIN ps' : ps'[j].type = x
        <5>1. ASSUME NEW j \in DOMAIN ps, ps[j].type = x PROVE \E h \in DOMAIN ps' : ps'[h].type = x
          <6>1. j # 1
            BY <1>4, <3>2, <5>1
          <6>2. j - 1 \in DOMAIN ps' /\ ps'[j - 1] = ps[j - 1 + 1] /\ j - 1 + 1 = j
            BY <1>5, <6>1
          <6> QED BY <5>1, <6>2
        <5> QED BY <5>1
      <4> QED BY <1>6, <1>7, <4>1, <4>2
    <3> QED BY <3>1, <3>2
  <2>4. ASSUME NEW j \in DOMAIN files.adapters
        PROVE  Holds(BaseFiles(t).adapters, files.adapters[j]) \/ Holds(Source.adapters, files.adapters[j])
    <3>1. \A a : Holds(old.files.adapters, a) => Holds(BaseFiles(t).adapters, a) \/ Holds(Source.adapters, a)
      BY <1>6, <1>7 DEF Holds
    <3>2. Holds(files.adapters, files.adapters[j])
      BY DEF Holds
    <3>3. CASE q.type \in Kinds
      BY <2>2, <3>1, <3>2, <3>3
    <3>4. CASE q.type = "adapter"
      BY <2>2, <3>1, <3>2, <3>4
    <3> QED BY <2>2, <3>3, <3>4
  <2>5. image'[t] = new /\ new.cmd = SourceCmd
    BY <1>6, <1>7, <1>9, <1>10
  <2> QED BY <1>9, <1>13, <2>1, <2>3, <2>4, <2>5 DEF Inspecting
<1> QED BY <1>11, <1>12, <1>14, <1>15 DEF FilesInv

\* The files of an image that is built are where its CMD has them.
LEMMA BuiltIsGood ==
    ASSUME FilesInv, Built, ~Mixes \/ baseImg[t] = NoImage
    PROVE  AreGood(image[t].cmd, image[t].files)
<1>1. phase = "inspect" /\ ps = <<>> /\ t \in DOMAIN stages
  BY TargetType DEF Built
<1>2. image[t].cmd = SourceCmd /\ image[t].files \in Parameters
  BY <1>1 DEF FilesInv, Inspecting, TypeOK, IsImage
<1>3. \A x \in Kinds :
          /\ image[t].files[x] \in {BaseFiles(t)[x], Source[x]}
          /\ Source[x] # NoFile => image[t].files[x] = Source[x]
  <2>1. DOMAIN ps = {}
    BY <1>1
  <2> QED BY <1>1, <2>1 DEF FilesInv, Inspecting
<1>4. \A j \in DOMAIN image[t].files.adapters :
          Holds(BaseFiles(t).adapters, image[t].files.adapters[j]) \/ Holds(Source.adapters, image[t].files.adapters[j])
  BY <1>1 DEF FilesInv, Inspecting
<1>5. /\ Source \in Parameters /\ BaseFiles(t) \in Parameters
      /\ HasCmd(t) => AreGood(SourceCmd, Source) /\ Source.model # NoFile
  BY <1>1, SourceType
<1>6. CASE baseImg[t] = NoImage
  <2>1. BaseFiles(t) = NoFiles
    BY <1>6 DEF BaseFiles
  <2>2. AreGood(SourceCmd, Source)
    <3>1. CASE ~HasCmd(t)
      BY <2>1, <3>1, NoFilesAre DEF Source, AreGood
    <3> QED BY <1>5, <3>1
  <2>3. ASSUME NEW e \in Entries(image[t].files) PROVE Good(SourceCmd, e)
    <3>1. CASE \E x \in Kinds : e = image[t].files[x] /\ e # NoFile
      <4>1. PICK x \in Kinds : e = image[t].files[x] /\ e # NoFile
        BY <3>1
      <4>2. e = Source[x]
        BY <1>3, <2>1, <4>1, NoFilesAre
      <4> QED BY <1>5, <2>2, <4>1, <4>2, EntriesAre DEF AreGood
    <3>2. CASE \E j \in DOMAIN image[t].files.adapters : e = image[t].files.adapters[j]
      <4>1. ~Holds(NoFiles.adapters, e)
        <5>1. DOMAIN NoFiles.adapters = {}
          BY DEF NoFiles
        <5> QED BY <5>1 DEF Holds
      <4>2. Holds(Source.adapters, e)
        BY <1>4, <2>1, <3>2, <4>1
      <4> QED BY <1>5, <2>2, <4>2, EntriesAre DEF AreGood, Holds
    <3> QED BY <1>2, <3>1, <3>2, EntriesAre
  <2> QED BY <1>2, <2>3 DEF AreGood
<1>7. CASE baseImg[t] # NoImage
  <2>1. ~Mixes
    BY <1>7
  <2>2. PICK base : base = registry[baseImg[t].name]
    OBVIOUS
  <2>3. Recorded(base)
    BY <1>1, <1>7, <2>2 DEF FilesInv, BaseKept, TypeOK
  <2>4. BaseFiles(t) = base.files /\ BaseCmd(t) = base.cmd
    BY <1>7, <2>2 DEF BaseFiles, BaseCmd
  <2>5. ~base.mixed
    BY <1>7, <2>1, <2>2, Zenon DEF Mixes
  <2>6. AreGood(SourceCmd, Source)
    <3>1. CASE ~HasCmd(t)
      BY <2>3, <2>4, <2>5, <3>1 DEF Source, SourceCmd, Recorded
    <3> QED BY <1>5, <3>1
  <2>7. HasCmd(t) => /\ \A type \in {"drafter", "projector"} : base.files[type] = NoFile \/ Source[type] # NoFile
                     /\ base.files.adapters = <<>>
    BY <1>7, <2>1, <2>2, Zenon DEF Mixes, Source
  <2>8. ASSUME NEW e \in Entries(image[t].files) PROVE Good(SourceCmd, e)
    <3>1. CASE \E x \in Kinds : e = image[t].files[x] /\ e # NoFile
      <4>1. PICK x \in Kinds : e = image[t].files[x] /\ e # NoFile
        BY <3>1
      <4>2. e = Source[x]
        <5>1. CASE HasCmd(t)
          <6>1. base.files[x] = NoFile \/ Source[x] # NoFile
            BY <1>5, <2>7, <5>1 DEF Kinds
          <6> QED BY <1>3, <2>4, <4>1, <6>1
        <5>2. CASE ~HasCmd(t)
          BY <1>3, <4>1, <5>2 DEF Source
        <5> QED BY <5>1, <5>2
      <4> QED BY <1>5, <2>6, <4>1, <4>2, EntriesAre DEF AreGood
    <3>2. CASE \E j \in DOMAIN image[t].files.adapters : e = image[t].files.adapters[j]
      <4>1. Holds(Source.adapters, e)
        <5>1. CASE HasCmd(t)
          <6>1. DOMAIN BaseFiles(t).adapters = {}
            BY <2>4, <2>7, <5>1
          <6> QED BY <1>4, <3>2, <6>1 DEF Holds
        <5>2. CASE ~HasCmd(t)
          BY <1>4, <3>2, <5>2 DEF Source
        <5> QED BY <5>1, <5>2
      <4> QED BY <1>5, <2>6, <4>1, EntriesAre DEF AreGood, Holds
    <3> QED BY <1>2, <3>1, <3>2, EntriesAre
  <2> QED BY <1>2, <2>8 DEF AreGood
<1> QED BY <1>6, <1>7

LEMMA PushKeepsFiles == ASSUME FilesInv, Push PROVE FilesInv'
<1>1. PICK new : /\ new = [labels |-> LabelsOf(image[t]), history |-> HistoryOf(image[t].history),
                           cmd |-> image[t].cmd, files |-> image[t].files, size |-> image[t].size, mixed |-> Mixes]
                 /\ registry' = [name \in DOMAIN registry \cup {recipe.tag} |->
                                    IF name # recipe.tag THEN registry[name] ELSE new]
  BY DEF Push
<1>2. phase' = "idle" /\ Built /\ phase # "idle"
  BY DEF Push, Leave, Built
<1>3. IsImage(image[t])
  BY <1>2, TargetType DEF FilesInv, TypeOK
<1>4. Recorded(new)
  <2>1. new.cmd = image[t].cmd /\ new.files = image[t].files
    BY <1>1
  <2>2. ~new.mixed => ~Mixes
    <3>1. new.mixed = Mixes
      BY <1>1, Zenon
    <3> QED BY <3>1, Zenon
  <2>3. ~new.mixed => AreGood(image[t].cmd, image[t].files)
    BY <1>2, <2>2, BuiltIsGood
  <2> QED BY <1>3, <2>1, <2>3 DEF Recorded, IsImage
<1>5. \A name \in DOMAIN registry : Recorded(registry[name])
  BY DEF FilesInv, TypeOK
<1>6. \A name \in DOMAIN registry' : Recorded(registry'[name])
  BY <1>1, <1>4, <1>5
<1>7. TypeOK'
  BY <1>2, <1>6 DEF TypeOK, Phases
<1> QED BY <1>2, <1>7 DEF FilesInv, StagesKept, BaseKept, Inspecting

LEMMA FilesInitially == Init => FilesInv
<1> SUFFICES ASSUME Init PROVE FilesInv
  OBVIOUS
<1>1. \A name \in DOMAIN Elsewhere : Recorded(Elsewhere[name])
  BY ModelImageAssumption DEF Recorded, AreGood, Good
<1>2. registry = Elsewhere /\ phase = "idle"
  BY DEF Init
<1> QED BY <1>1, <1>2 DEF FilesInv, TypeOK, StagesKept, BaseKept, Inspecting, Phases

LEMMA FilesStay == FilesInv /\ [Next]_vars => FilesInv'
<1> SUFFICES ASSUME FilesInv, [Next]_vars PROVE FilesInv'
  OBVIOUS
<1>1. ASSUME NEW r \in Recipes, Begin(r) PROVE FilesInv'
  BY <1>1, BeginKeepsFiles
<1>2. CASE ParseRefused \/ ResolveFails \/ DispatchCmdFails \/ ExpandPanics \/ LintError \/ InspectFails
  BY <1>2, LeaveKeepsFiles DEF ParseRefused, ResolveFails, DispatchCmdFails, ExpandPanics, LintError, InspectFails
<1>3. CASE ParseArgument
  BY <1>3, ParseArgumentKeepsFiles
<1>4. CASE ParseNext \/ ParseStage \/ ResolveNothing \/ DispatchStage
  BY <1>4, LoopKeepsFiles
<1>5. CASE ResolveImage
  BY <1>5, ResolveImageKeepsFiles
<1>6. CASE Enter
  BY <1>6, EnterKeepsFiles
<1>7. CASE DispatchLabel \/ DispatchFile
  BY <1>7, DispatchKeepsFiles
<1>8. CASE DispatchCmd
  BY <1>8, DispatchCmdKeepsFiles
<1>9. CASE Finish
  BY <1>9, FinishKeepsFiles
<1>10. CASE Describe
  BY <1>10, DescribeKeepsFiles
<1>11. CASE Inspect
  BY <1>11, InspectKeepsFiles
<1>12. CASE Push
  BY <1>12, PushKeepsFiles
<1>13. CASE UNCHANGED vars
  <2>1. /\ UNCHANGED <<registry, phase, recipe, stages, s, k, i, image, baseImg, ps>>
    BY <1>13 DEF vars, result, heap
  <2>2. CASE phase = "idle"
    BY <2>1, <2>2, EndKeepsFiles
  <2>3. CASE phase # "idle"
    <3>1. TypeOK'
      BY <2>1 DEF FilesInv, TypeOK
    <3>2. StagesKept'
      <4>1. \A d, j : Dispatched(d, j)' <=> Dispatched(d, j)
        BY <2>1 DEF Dispatched
      <4> QED BY <2>1, <2>3, <4>1, StagesStay
    <3>3. PICK d0 : d0 = t
      OBVIOUS
    <3>4. t' = d0 /\ \A d : BaseFiles(d)' = BaseFiles(d) /\ BaseCmd(d)' = BaseCmd(d)
      BY <2>1, <3>3, SourceStays
    <3>5. BaseKept'
      BY <2>1, <3>3, <3>4 DEF FilesInv, BaseKept
    <3>6. Source' = Source /\ SourceCmd' = SourceCmd /\ BaseFiles(t)' = BaseFiles(t)
      BY <2>1, SourceStays
    <3>7. Inspecting'
      <4>1. image[t]' = image[t]
        BY <2>1, <3>3, <3>4
      <4> QED BY <2>1, <3>6, <4>1 DEF FilesInv, Inspecting
    <3> QED BY <3>1, <3>2, <3>5, <3>7 DEF FilesInv
  <2> QED BY <2>2, <2>3
<1> QED BY <1>1, <1>2, <1>3, <1>4, <1>5, <1>6, <1>7, <1>8, <1>9, <1>10, <1>11, <1>12, <1>13 DEF Next

LEMMA FilesHold == Spec => []FilesInv
<1>1. Init => FilesInv
  BY FilesInitially
<1>2. FilesInv /\ [Next]_vars => FilesInv'
  BY FilesStay
<1> QED BY <1>1, <1>2, PTL DEF Spec

\* The GGUF files that an image records are where its CMD has them, through
\* every chain of builds in which no image keeps files of its base image
\* beside a CMD that names others.
THEOREM PositionsHoldHolds == Spec => []PositionsHold
<1>1. FilesInv => PositionsHold
  BY DEF FilesInv, TypeOK, Recorded, AreGood, Good, PositionsHold
<1> QED BY <1>1, FilesHold, PTL

(* run *)

\* The word that run takes for the file of an option follows one.
LEMMA TakenFollowsAnOption ==
    ASSUME NEW args, NEW n \in Nat, Len(args) = n, NEW j \in TakenByFile(args)
    PROVE  j \in 1..n /\ j > 1 /\ args[j - 1].word \in FileOptions
<1> DEFINE Rest(m) == args[m - 1].word \in FileOptions /\ ~args[m - 1].dir
           P(m, g) == m > 1 /\ args[m - 1].word \in FileOptions /\ ~args[m - 1].dir /\ ~g[m - 1]
           F == CHOOSE taken : taken = [m \in 1..Len(args) |-> P(m, taken)]
           step == [m \in Nat |-> [b \in BOOLEAN |-> Rest(m) /\ ~b]]
<1>1. \E f : f = [m \in 1..n |-> P(m, f)]
  <2>1. step \in [Nat -> [BOOLEAN -> BOOLEAN]] /\ FALSE \in BOOLEAN
    BY Zenon
  <2>2. PICK f \in [1..n -> BOOLEAN] : Recursive(f, FALSE, step, n)
    <3> HIDE DEF step
    <3> QED BY <2>1, Recursion
  <2>3. ASSUME NEW m \in 1..n PROVE f[m] = P(m, f)
    <3>1. f[m] = IF m = 1 THEN FALSE ELSE step[m][f[m - 1]]
      BY <2>2 DEF Recursive
    <3>2. CASE m = 1
      <4>1. ~(m > 1)
        BY <3>2
      <4> QED BY <3>1, <3>2, <4>1, Zenon
    <3>3. CASE m # 1
      <4>1. m > 1 /\ m \in Nat /\ m - 1 \in 1..n
        BY <3>3
      <4>2. f[m - 1] \in BOOLEAN
        BY <4>1, <2>2
      <4>3. step[m][f[m - 1]] = (Rest(m) /\ ~f[m - 1])
        BY <4>1, <4>2, Zenon
      <4> QED BY <3>1, <3>3, <4>1, <4>3, Zenon
    <3> QED BY <3>2, <3>3
  <2>4. f = [m \in 1..n |-> f[m]]
    BY <2>2
  <2>5. f = [m \in 1..n |-> P(m, f)]
    <3> HIDE DEF P
    <3> QED BY <2>3, <2>4, Zenon
  <2> QED BY <2>5
<1>2. F = [m \in 1..n |-> P(m, F)]
  <2>1. \E f : f = [m \in 1..Len(args) |-> P(m, f)]
    BY <1>1
  <2>2. F = [m \in 1..Len(args) |-> P(m, F)]
    <3> HIDE DEF P
    <3> QED BY <2>1, Zenon
  <2> QED BY <2>2
<1>3. TakenByFile(args) = {m \in 1..Len(args) : F[m]}
  BY Zenon DEF TakenByFile
<1>4. j \in 1..n /\ F[j]
  <2> HIDE DEF F
  <2> QED BY <1>3, Zenon
<1>5. P(j, F)
  <2> HIDE DEF F, P
  <2>1. F[j] = P(j, F)
    BY <1>2, <1>4, Zenon
  <2> QED BY <1>4, <2>1, Zenon
<1> QED BY <1>4, <1>5, Zenon

\* The arguments of the server from an image whose files are where its CMD has them.
LEMMA JoinedWords ==
    ASSUME NEW img, Recorded(img), ~img.mixed
    PROVE  /\ Len(Joined(img)) = Len(img.cmd) /\ DOMAIN img.cmd = 1..Len(img.cmd) /\ Len(img.cmd) \in Nat
           /\ \A j \in DOMAIN img.cmd :
                  /\ Joined(img)[j] = [dir |-> Joined(img)[j].dir, word |-> img.cmd[j]]
                  /\ Joined(img)[j].dir => \E e \in Entries(img.files) : e.index = j
                  /\ (\E e \in Entries(img.files) : e.index = j) => Joined(img)[j].dir
<1>1. img.cmd \in Seq(Word) /\ img.files \in Parameters /\ AreGood(img.cmd, img.files)
  BY DEF Recorded
<1>2. DOMAIN img.cmd = 1..Len(img.cmd) /\ Len(img.cmd) \in Nat
  BY <1>1
<1> DEFINE files == Listed(img.files)
           At(j) == {h \in DOMAIN files : files[h].file.index = j}
           Best(j) == CHOOSE h \in At(j) : \A g \in At(j) : g <= h
           Arg(j) == IF At(j) = {} THEN [dir |-> FALSE, word |-> img.cmd[j]]
                     ELSE [dir |-> TRUE, word |-> files[Best(j)].file.value]
<1>3. Joined(img) = [j \in DOMAIN img.cmd |-> Arg(j)]
  BY Zenon DEF Joined
<1>4. files \in Seq(Pair) /\ Len(files) \in Nat /\ DOMAIN files = 1..Len(files)
  BY <1>1, ListedAre
<1>5. \A h \in DOMAIN files : files[h].file \in Entries(img.files)
  BY DEF Entries
<1>6. \A e \in Entries(img.files) : \E h \in DOMAIN files : files[h].file = e
  BY DEF Entries
<1> HIDE DEF files
<1>7. ASSUME NEW j \in DOMAIN img.cmd
      PROVE  /\ At(j) = {} => Arg(j) = [dir |-> FALSE, word |-> img.cmd[j]]
             /\ At(j) # {} => Arg(j) = [dir |-> TRUE, word |-> img.cmd[j]]
  <2>1. CASE At(j) # {}
    <3>1. At(j) \in SUBSET (1..Len(files))
      BY <1>4
    <3>2. \E h \in At(j) : \A g \in At(j) : g <= h
      <4> HIDE DEF At
      <4> QED BY <1>4, <2>1, <3>1, GreatestNumber
    <3>3. Best(j) \in At(j)
      <4> HIDE DEF At
      <4> QED BY <3>2
    <3>4. PICK e : e = files[Best(j)].file
      OBVIOUS
    <3> HIDE DEF Best
    <3>5. e \in Entries(img.files) /\ e.index = j
      BY <1>5, <3>3, <3>4
    <3>6. img.cmd[j] = e.value
      BY <1>1, <3>5 DEF AreGood, Good, Points
    <3> QED BY <2>1, <3>4, <3>6
  <2>2. CASE At(j) = {}
    BY <2>2
  <2> QED BY <2>1, <2>2
<1>8. ASSUME NEW j \in DOMAIN img.cmd PROVE At(j) # {} <=> \E e \in Entries(img.files) : e.index = j
  BY <1>5, <1>6
<1>9. ASSUME NEW j \in DOMAIN img.cmd
      PROVE  /\ Joined(img)[j] = [dir |-> Joined(img)[j].dir, word |-> img.cmd[j]]
             /\ Joined(img)[j].dir => \E e \in Entries(img.files) : e.index = j
             /\ (\E e \in Entries(img.files) : e.index = j) => Joined(img)[j].dir
  <2>1. Joined(img)[j] = Arg(j)
    <3> HIDE DEF Arg
    <3> QED BY <1>3
  <2> HIDE DEF Arg, At
  <2>2. CASE At(j) = {}
    <3>1. Joined(img)[j] = [dir |-> FALSE, word |-> img.cmd[j]]
      BY <1>7, <2>1, <2>2
    <3> QED BY <1>8, <2>2, <3>1
  <2>3. CASE At(j) # {}
    <3>1. Joined(img)[j] = [dir |-> TRUE, word |-> img.cmd[j]]
      BY <1>7, <2>1, <2>3
    <3> QED BY <1>8, <2>3, <3>1
  <2> QED BY <2>2, <2>3
<1>10. Len(Joined(img)) = Len(img.cmd)
  <2> DEFINE S == {Joined(img)[j] : j \in 1..Len(img.cmd)}
  <2>1. Joined(img) = [j \in 1..Len(img.cmd) |-> Joined(img)[j]]
    <3> HIDE DEF Arg
    <3> QED BY <1>2, <1>3
  <2>2. \A j \in 1..Len(img.cmd) : Joined(img)[j] \in S
    OBVIOUS
  <2> HIDE DEF S
  <2>3. Joined(img) \in [1..Len(img.cmd) -> S]
    BY <2>1, <2>2
  <2> QED BY <1>2, <2>3, FunctionIsSeq
<1> QED BY <1>2, <1>9, <1>10

\* run of such an image never leaves the range of the CMD, has its words in their
\* places, the directory before every GGUF file and before nothing that does not
\* follow an option that takes a file, and quotes around no option and no word
\* that is without spaces, quotes and backslashes, if its directory is.
THEOREM RunNamesTheFilesHolds == Spec => []RunNamesTheFiles
<1>1. ASSUME FilesInv PROVE RunNamesTheFiles
  <2> SUFFICES ASSUME NEW name \in DOMAIN registry, ~registry[name].mixed, NEW img, img = registry[name]
               PROVE  /\ ~RunCrashes(img)
                      /\ \A j \in DOMAIN img.cmd : RunArgs(img)[j].word = img.cmd[j]
                      /\ \A e \in Entries(img.files) : RunArgs(img)[e.index].dir
                      /\ \A j \in DOMAIN img.cmd : RunArgs(img)[j].dir =>
                             j > 1 /\ (Takes(img.cmd[j - 1]) > 0 \/ img.cmd[j - 1] \in FileOptions)
                      /\ \A odd \in BOOLEAN : \A j \in Quoted(img, odd) :
                             IF RunArgs(img)[j].dir THEN odd \/ img.cmd[j] \in Spaced
                             ELSE img.cmd[j] \in (Spaced \cup {Empty}) \ Dashed
    BY DEF RunNamesTheFiles
  <2>1. Recorded(img) /\ ~img.mixed
    BY <1>1 DEF FilesInv, TypeOK
  <2>2. \A e \in Entries(img.files) : Good(img.cmd, e)
    BY <2>1 DEF Recorded, AreGood
  <2>3. ~RunCrashes(img)
    BY <2>2 DEF RunCrashes, Good, Points
  <2>4. PICK joined : joined = Joined(img)
    OBVIOUS
  <2>5. /\ Len(joined) = Len(img.cmd) /\ DOMAIN img.cmd = 1..Len(img.cmd) /\ Len(img.cmd) \in Nat
        /\ \A j \in DOMAIN img.cmd :
               /\ joined[j] = [dir |-> joined[j].dir, word |-> img.cmd[j]]
               /\ joined[j].dir => \E e \in Entries(img.files) : e.index = j
               /\ (\E e \in Entries(img.files) : e.index = j) => joined[j].dir
    BY <2>1, <2>4, JoinedWords
  <2>6. ASSUME NEW j \in DOMAIN img.cmd
        PROVE  /\ RunArgs(img)[j].word = img.cmd[j]
               /\ RunArgs(img)[j].dir => j \in TakenByFile(joined) \/ joined[j].dir
               /\ joined[j].dir => RunArgs(img)[j].dir
    <3>1. RunArgs(img)[j] = IF j \in TakenByFile(joined) THEN [joined[j] EXCEPT !.dir = TRUE] ELSE joined[j]
      BY <2>4 DEF RunArgs
    <3>2. PICK b, w : joined[j] = [dir |-> b, word |-> w] /\ w = img.cmd[j]
      <4>1. PICK b, w : b = joined[j].dir /\ w = img.cmd[j]
        OBVIOUS
      <4>2. joined[j] = [dir |-> b, word |-> w]
        BY <2>5, <4>1
      <4> QED BY <4>1, <4>2
    <3>3. CASE j \in TakenByFile(joined)
      <4>1. RunArgs(img)[j] = [dir |-> TRUE, word |-> w]
        <5>1. PICK u : u = joined[j]
          OBVIOUS
        <5>2. RunArgs(img)[j] = [u EXCEPT !.dir = TRUE]
          BY <3>1, <3>3, <5>1
        <5>3. u = [dir |-> b, word |-> w]
          BY <3>2, <5>1
        <5>4. [u EXCEPT !.dir = TRUE] = [dir |-> TRUE, word |-> w]
          <6>1. \A y : [u EXCEPT !.dir = y] = [dir |-> y, word |-> w]
            <7>1. ASSUME NEW y PROVE [u EXCEPT !.dir = y] = [dir |-> y, word |-> w]
              BY <5>3
            <7> QED BY <7>1
          <6> QED BY <6>1, Zenon
        <5> QED BY <5>2, <5>4
      <4> QED BY <3>2, <3>3, <4>1
    <3>4. CASE j \notin TakenByFile(joined)
      <4>1. RunArgs(img)[j] = joined[j]
        BY <3>1, <3>4
      <4>2. RunArgs(img)[j].word = img.cmd[j]
        BY <3>2, <4>1
      <4> QED BY <4>1, <4>2, Zenon
    <3> QED BY <3>3, <3>4
  <2>7. ASSUME NEW e \in Entries(img.files) PROVE RunArgs(img)[e.index].dir
    <3>1. e.index \in DOMAIN img.cmd
      BY <2>2 DEF Good, Points
    <3> QED BY <2>5, <2>6, <3>1, Zenon
  <2>8. ASSUME NEW j \in DOMAIN img.cmd, RunArgs(img)[j].dir
        PROVE  j > 1 /\ (Takes(img.cmd[j - 1]) > 0 \/ img.cmd[j - 1] \in FileOptions)
    <3>1. CASE joined[j].dir
      <4>1. PICK e \in Entries(img.files) : e.index = j
        BY <2>5, <3>1, Zenon
      <4> QED BY <2>2, <4>1 DEF Good
    <3>2. CASE j \in TakenByFile(joined)
      <4>1. j > 1 /\ joined[j - 1].word \in FileOptions
        BY <2>5, <3>2, TakenFollowsAnOption
      <4>2. j - 1 \in DOMAIN img.cmd
        BY <2>5, <4>1
      <4>3. joined[j - 1].word = img.cmd[j - 1]
        <5>1. PICK b, w : joined[j - 1] = [dir |-> b, word |-> w] /\ w = img.cmd[j - 1]
          <6>1. PICK b, w : b = joined[j - 1].dir /\ w = img.cmd[j - 1]
            OBVIOUS
          <6>2. joined[j - 1] = [dir |-> b, word |-> w]
            BY <2>5, <6>1, <4>2
          <6> QED BY <6>1, <6>2
        <5> QED BY <5>1
      <4> QED BY <4>1, <4>3
    <3> QED BY <2>6, <2>8, <3>1, <3>2, Zenon
  <2>9. ASSUME NEW odd \in BOOLEAN, NEW j \in Quoted(img, odd)
        PROVE  IF RunArgs(img)[j].dir THEN odd \/ img.cmd[j] \in Spaced
               ELSE img.cmd[j] \in (Spaced \cup {Empty}) \ Dashed
    <3>1. PICK arg : arg = RunArgs(img)[j]
      OBVIOUS
    <3>2. j \in DOMAIN img.cmd /\ ShouldQuote(arg, odd) /\ (arg.dir \/ arg.word \notin Dashed)
      BY <3>1, Zenon DEF Quoted
    <3>3. arg.word = img.cmd[j]
      BY <2>6, <3>1, <3>2
    <3>4. CASE arg.dir
      BY <3>1, <3>2, <3>3, <3>4, Zenon DEF ShouldQuote
    <3>5. CASE ~arg.dir
      <4>1. img.cmd[j] \in Spaced \cup {Empty} /\ img.cmd[j] \notin Dashed
        BY <3>2, <3>3, <3>5, Zenon DEF ShouldQuote
      <4> QED BY <3>1, <3>5, <4>1, Zenon
    <3> QED BY <3>4, <3>5
  <2> QED BY <2>3, <2>6, <2>7, <2>8, <2>9
<1> QED BY <1>1, FilesHold, PTL

\* "If you list more than one CMD, only the last one takes effect": the image
\* has the words of the last CMD of the target, and no file of any other CMD.
THEOREM OnlyTheLastCmdHolds == Spec => []OnlyTheLastCmd
<1>1. ASSUME FilesInv PROVE OnlyTheLastCmd
  <2> SUFFICES ASSUME Built, HasCmd(t), NEW d0, d0 = t, NEW c,
                      c = recipe.stages[t].cmds[CHOOSE j \in CmdsOf(t) : \A h \in CmdsOf(t) : h <= j]
               PROVE  /\ image[t].cmd = [j \in DOMAIN c.args |-> Expanded(c.args[j])]
                      /\ baseImg[t] = NoImage => \A e \in Entries(image[t].files) : Points(image[t].cmd, e)
    BY Zenon DEF OnlyTheLastCmd
  <2>1. phase = "inspect" /\ d0 \in DOMAIN stages
    BY <1>1, TargetType DEF Built
  <2> DEFINE last == CHOOSE j \in CmdsOf(d0) : \A h \in CmdsOf(d0) : h <= j
  <2>2. last \in DOMAIN stages[d0].cmds /\ stages[d0].cmds[last].op = "CMD"
    <3>1. Len(stages[d0].cmds) \in Nat /\ CmdsOf(d0) \in SUBSET (1..Len(stages[d0].cmds)) /\ CmdsOf(d0) # {}
      BY <1>1, <2>1, StageType DEF CmdsOf, HasCmd, FilesInv, TypeOK
    <3>2. \E m \in CmdsOf(d0) : \A h \in CmdsOf(d0) : h <= m
      BY <3>1, GreatestNumber
    <3>3. last \in CmdsOf(d0)
      BY <3>2
    <3> HIDE DEF last
    <3> QED BY <3>3 DEF CmdsOf
  <2>3. c = recipe.stages[d0].cmds[last] /\ CmdCommand(d0) = stages[d0].cmds[last]
    BY Zenon DEF CmdCommand
  <2> HIDE DEF last
  <2>4. image[t].cmd = CmdCommand(d0).args
    BY <1>1, <2>1 DEF FilesInv, Inspecting, SourceCmd
  <2>5. CmdKept(d0, last) /\ Dispatched(d0, last)
    BY <1>1, <2>1, <2>2 DEF FilesInv, StagesKept, Dispatched
  <2>6. stages[d0].cmds[last].args = [h \in DOMAIN c.args |-> Expanded(c.args[h])]
    BY <2>2, <2>3, <2>5 DEF CmdKept
  <2>7. baseImg[t] = NoImage => \A e \in Entries(image[t].files) : Points(image[t].cmd, e)
    BY <1>1, BuiltIsGood DEF AreGood, Good
  <2> QED BY <2>3, <2>4, <2>6, <2>7
<1> QED BY <1>1, FilesHold, PTL

(***************************************************************************)
(* What stages share: label maps and arrays of histories                   *)
(***************************************************************************)

\* C is the chain of stages that the target is made from, and no stage beside
\* it starts from one of it.
IsChain(C) ==
    /\ phase # "idle"
    /\ C \subseteq DOMAIN stages /\ t \in C
    /\ \A d \in C : BaseOf(d) # 0 => BaseOf(d) \in C
    /\ \A d \in C : d # t => \E e \in C : BaseOf(e) = d
    /\ \A d \in DOMAIN stages : BaseOf(d) \in C => d \in C

Late == {"finish", "describe", "inspect"}
Resolved(d) == phase \in Late \cup {"dispatch"} \/ (phase = "resolve" /\ d < s)
Entered(d) == phase \in Late \/ (phase = "dispatch" /\ (d < s \/ (d = s /\ k # 0)))
\* The commands of the stage d that have been dispatched, once it is entered.
Done(d) == IF phase = "dispatch" /\ d = s THEN k - 1 ELSE Len(stages[d].cmds)

HeapTypeOK ==
    /\ \A name \in DOMAIN registry : registry[name].history \in Seq(Line)
    /\ arrays \in Seq(Seq(Line))
    /\ maps \in Seq({maps[j] : j \in DOMAIN maps})
    /\ phase # "idle" => \A d \in DOMAIN stages :
           /\ image[d].labels \in 0..Len(maps)
           /\ image[d].history = [array |-> image[d].history.array, len |-> image[d].history.len]
           /\ image[d].history.array \in 0..Len(arrays)
           /\ image[d].history.len \in 0..Len(ArrayOf(image[d].history))
           /\ ~Resolved(d) => image[d].labels = 0 /\ image[d].history.array = 0
           /\ Resolved(d) /\ FromRegistry(d) => stages[d].base \in DOMAIN registry

\* Nothing of the chain is shared with a stage beside it.
Separate(C) ==
    \A d \in C, e \in DOMAIN stages \ C :
        /\ image[d].labels # 0 => image[d].labels # image[e].labels
        /\ image[d].history.array # 0 => image[d].history.array # image[e].history.array

\* What the stage d starts with, when each stage before it ends with its L, or its W.
LabelsFrom(d, L) ==
    IF BaseOf(d) # 0 THEN L[BaseOf(d)] ELSE IF FromRegistry(d) THEN registry[stages[d].base].labels ELSE NoLabels
HistoryFrom(d, W) ==
    IF BaseOf(d) # 0 THEN W[BaseOf(d)] ELSE IF FromRegistry(d) THEN registry[stages[d].base].history ELSE <<>>

SameMap(m, n) == DOMAIN m = DOMAIN n /\ \A key \in DOMAIN m : m[key] = n[key]

\* m is under, with the first n commands of the stage d over it.
LabelsUpTo(d, n) == {j \in LabelsAt(d) : j <= n}
IsLast(d, n, j) ==
    /\ j \in LabelsUpTo(d, n)
    /\ \A h \in LabelsUpTo(d, n) : stages[d].cmds[h].key = stages[d].cmds[j].key => h <= j
Labelling(m, d, n, under) ==
    /\ \A key : key \in DOMAIN m <=>
           key \in DOMAIN under \/ \E j \in LabelsUpTo(d, n) : stages[d].cmds[j].key = key
    /\ \A j : IsLast(d, n, j) => m[stages[d].cmds[j].key] = stages[d].cmds[j].value
    /\ \A key \in DOMAIN under :
           (\A j \in LabelsUpTo(d, n) : stages[d].cmds[j].key # key) => m[key] = under[key]

Lines(d) == [j \in DOMAIN stages[d].cmds |-> <<stages[d].cmds[j].op, stages[d].name>>]

\* L has the labels that each stage ends with, W the histories.
AreLabels(L) == \A d \in DOMAIN stages : Labelling(L[d], d, Len(stages[d].cmds), LabelsFrom(d, L))
AreWritten(W) ==
    /\ W \in [DOMAIN stages -> Seq(Line)]
    /\ \A d \in DOMAIN stages : W[d] = HistoryFrom(d, W) \o Lines(d)

\* A stage of the chain after which no other of it has been entered.
Latest(C, d) == d \in C /\ Entered(d) /\ \A e \in C : Entered(e) => e <= d

\* The root of the chain, when it is resolved and not entered.
RootKept(C) ==
    \A d \in C : BaseOf(d) = 0 /\ Resolved(d) /\ ~Entered(d) =>
        /\ SameMap(LabelsOf(image[d]), LabelsFrom(d, <<>>))
        /\ HistoryOf(image[d].history) = HistoryFrom(d, <<>>)

LatestLabels(C, L) ==
    phase \in {"dispatch", "finish"} => \A d : Latest(C, d) =>
        Labelling(LabelsOf(image[d]), d, Done(d), LabelsFrom(d, L))
LatestHistory(C, W) ==
    \A d : Latest(C, d) => HistoryOf(image[d].history) = HistoryFrom(d, W) \o SubSeq(Lines(d), 1, Done(d))

\* The labels of the target after the last of its commands.
Described(L) ==
    phase \in {"describe", "inspect"} =>
        LET asked == Over(recipe.labels, L[t])
            labels == LabelsOf(image[t])
        IN  /\ \A key \in DOMAIN asked : key \in DOMAIN labels /\ labels[key] = asked[key]
            /\ \A key \in DOMAIN labels : key \in DOMAIN asked \/ (phase = "inspect" /\ key \in {"base.name", "architecture"})

HeapInv ==
    /\ HeapTypeOK
    /\ phase = "inspect" => image[t].labels # 0
    /\ \A C : IsChain(C) =>
           /\ Separate(C)
           /\ RootKept(C)
           /\ \A L : AreLabels(L) => LatestLabels(C, L) /\ Described(L)
           /\ \A W : AreWritten(W) => LatestHistory(C, W)

(* Labels *)

LEMMA LabelsAtType ==
    ASSUME FilesInv, phase # "idle", NEW d \in DOMAIN stages, NEW n
    PROVE  /\ Len(stages[d].cmds) \in Nat /\ DOMAIN stages[d].cmds = 1..Len(stages[d].cmds)
           /\ LabelsAt(d) \subseteq 1..Len(stages[d].cmds)
           /\ LabelsUpTo(d, n) \subseteq 1..Len(stages[d].cmds)
           /\ LabelsUpTo(d, Len(stages[d].cmds)) = LabelsAt(d)
<1>1. Len(stages[d].cmds) \in Nat /\ DOMAIN stages[d].cmds = 1..Len(stages[d].cmds)
  BY StageType DEF FilesInv, TypeOK
<1> QED BY <1>1 DEF LabelsAt, LabelsUpTo

\* Every label that commands set has a last one that sets it.
LEMMA LastExists ==
    ASSUME FilesInv, phase # "idle", NEW d \in DOMAIN stages, NEW n, NEW j \in LabelsUpTo(d, n)
    PROVE  \E m : IsLast(d, n, m) /\ stages[d].cmds[m].key = stages[d].cmds[j].key
<1> DEFINE T == {h \in LabelsUpTo(d, n) : stages[d].cmds[h].key = stages[d].cmds[j].key}
<1>1. T \in SUBSET (1..Len(stages[d].cmds)) /\ j \in T /\ Len(stages[d].cmds) \in Nat
  BY LabelsAtType
<1>2. PICK m \in T : \A h \in T : h <= m
  <2> HIDE DEF T
  <2> QED BY <1>1, GreatestNumber
<1> QED BY <1>2 DEF IsLast

LEMMA LabellingBegins ==
    ASSUME FilesInv, phase # "idle", NEW d \in DOMAIN stages, NEW m, NEW under, SameMap(m, under)
    PROVE  Labelling(m, d, 0, under)
<1>1. LabelsUpTo(d, 0) = {}
  BY LabelsAtType DEF LabelsUpTo
<1> QED BY <1>1 DEF Labelling, IsLast, SameMap

LEMMA LabellingSkips ==
    ASSUME FilesInv, phase # "idle", NEW d \in DOMAIN stages, NEW m, NEW under, NEW n \in Nat,
           n + 1 \notin LabelsAt(d), Labelling(m, d, n, under)
    PROVE  Labelling(m, d, n + 1, under)
<1>1. LabelsUpTo(d, n + 1) = LabelsUpTo(d, n)
  BY LabelsAtType DEF LabelsUpTo
<1>2. \A j : IsLast(d, n + 1, j) <=> IsLast(d, n, j)
  BY <1>1 DEF IsLast
<1> QED BY <1>1, <1>2, Zenon DEF Labelling

LEMMA OverType ==
    ASSUME NEW m, NEW n, NEW key
    PROVE  /\ key \in DOMAIN Over(m, n) <=> key \in DOMAIN m \/ key \in DOMAIN n
           /\ key \in DOMAIN m => Over(m, n)[key] = m[key]
           /\ key \in DOMAIN n /\ key \notin DOMAIN m => Over(m, n)[key] = n[key]
BY DEF Over

LEMMA OnlyType == ASSUME NEW key, NEW v PROVE DOMAIN Only(key, v) = {key} /\ Only(key, v)[key] = v
BY DEF Only

LEMMA LabellingGoesOn ==
    ASSUME FilesInv, phase # "idle", NEW d \in DOMAIN stages, NEW m, NEW under, NEW n \in Nat,
           n + 1 \in LabelsAt(d), Labelling(m, d, n, under), NEW c, c = stages[d].cmds[n + 1]
    PROVE  Labelling(Over(Only(c.key, c.value), m), d, n + 1, under)
<1> DEFINE new == Over(Only(c.key, c.value), m)
<1>1. /\ LabelsUpTo(d, n + 1) = LabelsUpTo(d, n) \cup {n + 1}
      /\ \A h \in LabelsUpTo(d, n) : h \in Nat /\ h <= n
  BY LabelsAtType DEF LabelsUpTo
<1>2. /\ \A key : key \in DOMAIN new <=> key = c.key \/ key \in DOMAIN m
      /\ new[c.key] = c.value
      /\ \A key \in DOMAIN m : key # c.key => new[key] = m[key]
  <2>1. DOMAIN Only(c.key, c.value) = {c.key} /\ Only(c.key, c.value)[c.key] = c.value
    BY OnlyType
  <2> QED BY <2>1 DEF Over
<1> HIDE DEF new
<1>3. \A key : key \in DOMAIN new <=>
          key \in DOMAIN under \/ \E j \in LabelsUpTo(d, n + 1) : stages[d].cmds[j].key = key
  BY <1>1, <1>2 DEF Labelling
<1>4. ASSUME NEW j, IsLast(d, n + 1, j) PROVE new[stages[d].cmds[j].key] = stages[d].cmds[j].value
  <2>1. CASE j = n + 1
    BY <1>2, <2>1
  <2>2. CASE j # n + 1
    <3>1. j \in LabelsUpTo(d, n) /\ stages[d].cmds[j].key # c.key
      BY <1>1, <1>4, <2>2 DEF IsLast
    <3>2. IsLast(d, n, j)
      BY <1>1, <1>4, <3>1 DEF IsLast
    <3> QED BY <1>2, <3>1, <3>2 DEF Labelling
  <2> QED BY <2>1, <2>2
<1>5. ASSUME NEW key \in DOMAIN under, \A j \in LabelsUpTo(d, n + 1) : stages[d].cmds[j].key # key
      PROVE  new[key] = under[key]
  BY <1>1, <1>2, <1>5 DEF Labelling
<1>6. Labelling(new, d, n + 1, under)
  BY <1>3, <1>4, <1>5, Zenon DEF Labelling
<1> QED BY <1>6 DEF new

\* What the commands say determines the labels.
LEMMA LabellingIsOne ==
    ASSUME FilesInv, phase # "idle", NEW d \in DOMAIN stages, NEW n, NEW m, NEW o, NEW under, NEW below,
           SameMap(under, below), Labelling(m, d, n, under), Labelling(o, d, n, below)
    PROVE  SameMap(m, o)
<1>1. DOMAIN under = DOMAIN below /\ \A key \in DOMAIN under : under[key] = below[key]
  BY DEF SameMap
<1>2. \A key : key \in DOMAIN m <=> key \in DOMAIN o
  BY <1>1, Zenon DEF Labelling
<1>3. ASSUME NEW key \in DOMAIN m PROVE m[key] = o[key]
  <2>1. CASE \E j \in LabelsUpTo(d, n) : stages[d].cmds[j].key = key
    <3>1. PICK j : IsLast(d, n, j) /\ stages[d].cmds[j].key = key
      BY <2>1, LastExists
    <3> QED BY <3>1, Zenon DEF Labelling
  <2>2. CASE \A j \in LabelsUpTo(d, n) : stages[d].cmds[j].key # key
    <3>1. key \in DOMAIN under /\ key \in DOMAIN below
      BY <1>1, <1>3, <2>2 DEF Labelling
    <3>2. m[key] = under[key] /\ o[key] = below[key]
      BY <2>2, <3>1, Zenon DEF Labelling
    <3> QED BY <1>1, <3>1, <3>2
  <2> QED BY <2>1, <2>2
<1>4. DOMAIN m = DOMAIN o
  BY <1>2
<1> QED BY <1>3, <1>4 DEF SameMap

(* The chain of the target *)

LEMMA ChainType ==
    ASSUME FilesInv, NEW C, IsChain(C)
    PROVE  /\ phase # "idle" /\ t \in C /\ Len(stages) \in Nat /\ DOMAIN stages = 1..Len(stages)
           /\ C \in SUBSET (1..Len(stages))
           /\ \A d \in DOMAIN stages : BaseOf(d) # 0 => BaseOf(d) \in 1..(d - 1) /\ BaseOf(d) \in DOMAIN stages
           /\ \A d \in DOMAIN stages : BaseOf(d) # 0 => (BaseOf(d) \in C <=> d \in C)
<1>1. phase # "idle" /\ t \in C /\ C \subseteq DOMAIN stages
  BY DEF IsChain
<1>2. Len(stages) \in Nat /\ DOMAIN stages = 1..Len(stages)
  BY <1>1, StageType DEF FilesInv, TypeOK
<1>3. \A d \in DOMAIN stages : BaseOf(d) # 0 => BaseOf(d) \in 1..(d - 1) /\ BaseOf(d) \in DOMAIN stages
  <2> SUFFICES ASSUME NEW d \in DOMAIN stages, BaseOf(d) # 0 PROVE BaseOf(d) \in 1..(d - 1) /\ BaseOf(d) \in DOMAIN stages
    OBVIOUS
  <2>1. BaseOf(d) \in 1..(d - 1)
    BY <1>2, BaseOfType
  <2> QED BY <1>2, <2>1
<1> QED BY <1>1, <1>2, <1>3 DEF IsChain

LEMMA TargetIsLast ==
    ASSUME FilesInv, NEW C, IsChain(C)
    PROVE  \A d \in C : d <= t
<1>1. /\ t \in C /\ Len(stages) \in Nat /\ C \in SUBSET (1..Len(stages))
      /\ \A d \in C : d # t => \E e \in C : BaseOf(e) = d
      /\ \A e \in C : BaseOf(e) # 0 => BaseOf(e) < e
  <2>1. \A d \in DOMAIN stages : BaseOf(d) # 0 => BaseOf(d) \in 1..(d - 1)
    BY ChainType
  <2>2. t \in C /\ Len(stages) \in Nat /\ DOMAIN stages = 1..Len(stages) /\ C \in SUBSET (1..Len(stages))
    BY ChainType
  <2>3. \A e \in C : BaseOf(e) # 0 => BaseOf(e) < e
    BY <2>1, <2>2
  <2> QED BY <2>2, <2>3 DEF IsChain
<1>2. PICK m \in C : \A d \in C : d <= m
  BY <1>1, GreatestNumber
<1>3. m = t
  <2> SUFFICES ASSUME m # t PROVE FALSE
    OBVIOUS
  <2>1. PICK e \in C : BaseOf(e) = m
    BY <1>1
  <2> QED BY <1>1, <1>2, <2>1
<1> QED BY <1>2, <1>3

\* No stage of the chain is between another and its base.
LEMMA ChainIsLinear ==
    ASSUME FilesInv, NEW C, IsChain(C), NEW x0 \in C, NEW y0 \in C, x0 < y0
    PROVE  BaseOf(y0) # 0 /\ x0 <= BaseOf(y0)
<1> DEFINE N == Len(stages)
           Bad == {y \in C : \E x \in C : x < y /\ (BaseOf(y) = 0 \/ BaseOf(y) < x)}
<1>1. /\ t \in C /\ N \in Nat /\ C \in SUBSET (1..N)
      /\ \A d \in C : d # t => \E e \in C : BaseOf(e) = d
      /\ \A e \in C : BaseOf(e) # 0 => BaseOf(e) < e /\ BaseOf(e) \in C
      /\ \A d \in C : d <= t
  <2>1. \A d \in DOMAIN stages : BaseOf(d) # 0 => BaseOf(d) \in 1..(d - 1)
    BY ChainType
  <2>2. t \in C /\ Len(stages) \in Nat /\ DOMAIN stages = 1..Len(stages) /\ C \in SUBSET (1..Len(stages))
    BY ChainType
  <2>3. \A e \in C : BaseOf(e) # 0 => BaseOf(e) < e
    BY <2>1, <2>2
  <2> QED BY <2>2, <2>3, TargetIsLast DEF IsChain
<1>2. \A e \in C : e \in Nat /\ (BaseOf(e) # 0 => BaseOf(e) \in Nat)
  <2>1. /\ \A d \in DOMAIN stages : BaseOf(d) # 0 => BaseOf(d) \in 1..(d - 1)
        /\ Len(stages) \in Nat /\ DOMAIN stages = 1..Len(stages) /\ C \in SUBSET (1..Len(stages))
    BY ChainType
  <2> QED BY <2>1
<1>3. Bad = {}
  <2> SUFFICES ASSUME Bad # {} PROVE FALSE
    OBVIOUS
  <2>1. PICK y \in Bad : \A z \in Bad : z <= y
    <3>1. Bad \in SUBSET (1..N)
      BY <1>1
    <3> HIDE DEF Bad
    <3> QED BY <1>1, <3>1, GreatestNumber
  <2>2. y \in C /\ \E x \in C : x < y /\ (BaseOf(y) = 0 \/ BaseOf(y) < x)
    BY <2>1
  <2> DEFINE Below == {x \in C : x < y /\ (BaseOf(y) = 0 \/ BaseOf(y) < x)}
  <2>3. PICK x \in Below : \A z \in Below : z <= x
    <3>1. Below \in SUBSET (1..N)
      BY <1>1
    <3>2. PICK z \in C : z < y /\ (BaseOf(y) = 0 \/ BaseOf(y) < z)
      BY <2>2
    <3>3. z \in Below
      BY <3>2
    <3> HIDE DEF Below
    <3> QED BY <1>1, <3>1, <3>3, GreatestNumber
  <2>4. x \in C /\ x < y /\ (BaseOf(y) = 0 \/ BaseOf(y) < x) /\ x \in Nat /\ y \in Nat /\ x # 0
    BY <1>1, <2>2, <2>3
  <2>5. x # t
    BY <1>1, <2>2, <2>4
  <2>6. PICK e \in C : BaseOf(e) = x
    BY <1>1, <2>4, <2>5
  <2>7. e \in Nat /\ x < e /\ e # y
    BY <1>1, <2>4, <2>6
  <2>8. CASE e < y
    <3>1. BaseOf(y) # 0 => BaseOf(y) \in Nat
      BY <1>2, <2>2
    <3>2. e \in Below
      BY <2>4, <2>6, <2>7, <2>8, <3>1
    <3> QED BY <2>3, <2>4, <2>7, <3>2
  <2>9. CASE e > y
    <3>1. e \in Bad
      BY <2>2, <2>4, <2>6, <2>9
    <3> QED BY <2>1, <2>4, <2>7, <2>9, <3>1
  <2> QED BY <2>4, <2>7, <2>8, <2>9
<1>4. ~(\E x \in C : x < y0 /\ (BaseOf(y0) = 0 \/ BaseOf(y0) < x))
  BY <1>3
<1>5. BaseOf(y0) # 0 /\ ~(BaseOf(y0) < x0)
  BY <1>4
<1>6. x0 \in Nat /\ BaseOf(y0) \in Nat
  BY <1>2, <1>5
<1> QED BY <1>5, <1>6

(* What does not change while a build goes on *)

LastOf(S) == CHOOSE m \in S : \A f \in S : f <= m

LEMMA StagesKeepShape ==
    ASSUME FilesInv, FilesInv', phase # "idle", phase' # "idle", UNCHANGED <<registry, recipe>>
    PROVE  /\ t' = t /\ Len(stages') = Len(stages) /\ DOMAIN stages' = DOMAIN stages
           /\ \A d \in DOMAIN stages :
                  /\ stages'[d].name = stages[d].name /\ stages'[d].base = stages[d].base
                  /\ Len(stages'[d].cmds) = Len(stages[d].cmds) /\ DOMAIN stages'[d].cmds = DOMAIN stages[d].cmds
                  /\ BaseOf(d)' = BaseOf(d) /\ (FromRegistry(d)' <=> FromRegistry(d))
                  /\ Lines(d)' = Lines(d)
                  /\ \A j \in DOMAIN stages[d].cmds : stages'[d].cmds[j].op = stages[d].cmds[j].op
                  /\ LabelsAt(d)' = LabelsAt(d)
                  /\ \A j \in LabelsAt(d) : stages'[d].cmds[j] = stages[d].cmds[j]
<1>1. /\ stages \in Stages /\ stages' \in Stages
      /\ Len(stages) = Len(recipe.stages) /\ Len(stages') = Len(recipe.stages)
      /\ \A d \in DOMAIN stages :
             /\ stages[d].name = recipe.stages[d].name /\ stages[d].base = recipe.stages[d].base
             /\ Len(stages[d].cmds) = Len(recipe.stages[d].cmds)
             /\ \A j \in DOMAIN stages[d].cmds : CmdKept(d, j)
      /\ \A d \in DOMAIN stages' :
             /\ stages'[d].name = recipe.stages[d].name /\ stages'[d].base = recipe.stages[d].base
             /\ Len(stages'[d].cmds) = Len(recipe.stages[d].cmds)
             /\ \A j \in DOMAIN stages'[d].cmds : CmdKept(d, j)'
  BY DEF FilesInv, TypeOK, StagesKept
<1>2. /\ DOMAIN stages = 1..Len(stages) /\ DOMAIN stages' = 1..Len(stages') /\ Len(stages) \in Nat
      /\ \A d \in DOMAIN stages : DOMAIN stages[d].cmds = 1..Len(stages[d].cmds)
      /\ \A d \in DOMAIN stages' : DOMAIN stages'[d].cmds = 1..Len(stages'[d].cmds)
  BY <1>1, StageType
<1>3. t' = t /\ Len(stages') = Len(stages) /\ DOMAIN stages' = DOMAIN stages
  BY <1>1, <1>2 DEF t
<1>4. ASSUME NEW d \in DOMAIN stages
      PROVE  /\ stages'[d].name = stages[d].name /\ stages'[d].base = stages[d].base
             /\ Len(stages'[d].cmds) = Len(stages[d].cmds) /\ DOMAIN stages'[d].cmds = DOMAIN stages[d].cmds
             /\ \A j \in DOMAIN stages[d].cmds :
                    /\ stages'[d].cmds[j].op = stages[d].cmds[j].op
                    /\ stages[d].cmds[j].op # "CMD" => stages'[d].cmds[j] = stages[d].cmds[j]
  <2>1. d \in DOMAIN stages'
    BY <1>3
  <2>2. /\ stages'[d].name = stages[d].name /\ stages'[d].base = stages[d].base
        /\ Len(stages'[d].cmds) = Len(stages[d].cmds)
    BY <1>1, <2>1
  <2>3. DOMAIN stages'[d].cmds = DOMAIN stages[d].cmds
    BY <1>2, <2>1, <2>2
  <2>4. ASSUME NEW j \in DOMAIN stages[d].cmds
        PROVE  /\ stages'[d].cmds[j].op = stages[d].cmds[j].op
               /\ stages[d].cmds[j].op # "CMD" => stages'[d].cmds[j] = stages[d].cmds[j]
    <3>1. j \in DOMAIN stages'[d].cmds
      BY <2>3
    <3>2. CmdKept(d, j) /\ CmdKept(d, j)'
      BY <1>1, <2>1, <3>1
    <3> QED BY <3>2 DEF CmdKept
  <2> QED BY <2>2, <2>3, <2>4
<1>5. ASSUME NEW d \in DOMAIN stages PROVE BaseOf(d)' = BaseOf(d) /\ (FromRegistry(d)' <=> FromRegistry(d))
  <2> DEFINE old == {e \in 1..(d - 1) : stages[e].name = stages[d].base}
             new == {e \in 1..(d - 1) : stages'[e].name = stages'[d].base}
  <2>1. d \in Nat /\ \A e \in 1..(d - 1) : e \in DOMAIN stages /\ e \in Nat
    BY <1>2
  <2>2. stages'[d].base = stages[d].base /\ \A e \in 1..(d - 1) : stages'[e].name = stages[e].name
    BY <1>4, <2>1
  <2>3. new = old
    BY <2>2
  <2>4. BaseOf(d) = IF old = {} THEN 0 ELSE LastOf(old)
    BY Zenon DEF BaseOf, LastOf
  <2>5. BaseOf(d)' = IF new = {} THEN 0 ELSE LastOf(new)
    BY Zenon DEF BaseOf, LastOf
  <2>6. BaseOf(d)' = BaseOf(d)
    <3> HIDE DEF old, new
    <3> QED BY <2>3, <2>4, <2>5
  <2> QED BY <1>4, <2>6 DEF FromRegistry
<1>6. ASSUME NEW d \in DOMAIN stages PROVE Lines(d)' = Lines(d)
  BY <1>4 DEF Lines
<1>7. ASSUME NEW d \in DOMAIN stages
      PROVE  LabelsAt(d)' = LabelsAt(d) /\ \A j \in LabelsAt(d) : stages'[d].cmds[j] = stages[d].cmds[j]
  BY <1>4 DEF LabelsAt
<1> QED BY <1>3, <1>4, <1>5, <1>6, <1>7

LEMMA ChainStays ==
    ASSUME FilesInv, FilesInv', phase # "idle", phase' # "idle", UNCHANGED <<registry, recipe>>
    PROVE  /\ \A C : IsChain(C)' => IsChain(C)
           /\ \A L : AreLabels(L)' => AreLabels(L)
           /\ \A W : AreWritten(W)' => AreWritten(W)
           /\ \A d \in DOMAIN stages : /\ \A L : LabelsFrom(d, L)' = LabelsFrom(d, L)
                                       /\ \A W : HistoryFrom(d, W)' = HistoryFrom(d, W)
           /\ \A d \in DOMAIN stages : \A m, n, under : Labelling(m, d, n, under)' <=> Labelling(m, d, n, under)
<1>1. /\ t' = t /\ DOMAIN stages' = DOMAIN stages
      /\ \A d \in DOMAIN stages :
             /\ stages'[d].base = stages[d].base /\ Len(stages'[d].cmds) = Len(stages[d].cmds)
             /\ BaseOf(d)' = BaseOf(d) /\ (FromRegistry(d)' <=> FromRegistry(d))
             /\ Lines(d)' = Lines(d)
             /\ LabelsAt(d)' = LabelsAt(d)
             /\ \A j \in LabelsAt(d) : stages'[d].cmds[j] = stages[d].cmds[j]
  BY StagesKeepShape
<1>2. ASSUME NEW C, IsChain(C)' PROVE IsChain(C)
  BY <1>1, <1>2 DEF IsChain
<1>3. ASSUME NEW d \in DOMAIN stages
      PROVE  /\ \A L : LabelsFrom(d, L)' = LabelsFrom(d, L)
             /\ \A W : HistoryFrom(d, W)' = HistoryFrom(d, W)
  BY <1>1 DEF LabelsFrom, HistoryFrom
<1>4. ASSUME NEW d \in DOMAIN stages, NEW m, NEW n, NEW under
      PROVE  Labelling(m, d, n, under)' <=> Labelling(m, d, n, under)
  <2>1. LabelsUpTo(d, n)' = LabelsUpTo(d, n) /\ LabelsUpTo(d, n) \subseteq LabelsAt(d)
    BY <1>1 DEF LabelsUpTo
  <2>2. \A j \in LabelsUpTo(d, n) : stages'[d].cmds[j] = stages[d].cmds[j]
    BY <1>1, <2>1
  <2>3. \A j : IsLast(d, n, j)' <=> IsLast(d, n, j)
    BY <2>1, <2>2 DEF IsLast
  <2>4. \A j : IsLast(d, n, j) => stages'[d].cmds[j] = stages[d].cmds[j]
    BY <2>2 DEF IsLast
  <2> QED BY <2>1, <2>2, <2>3, <2>4 DEF Labelling
<1>5. ASSUME NEW L, AreLabels(L)' PROVE AreLabels(L)
  BY <1>1, <1>3, <1>4, <1>5 DEF AreLabels
<1>6. ASSUME NEW W, AreWritten(W)' PROVE AreWritten(W)
  BY <1>1, <1>3, <1>6 DEF AreWritten
<1> QED BY <1>2, <1>3, <1>4, <1>5, <1>6

\* What is left to show of a step within a build.
LEMMA HeapSteps ==
    ASSUME FilesInv, FilesInv', HeapInv, phase # "idle", phase' # "idle", UNCHANGED <<registry, recipe>>,
           HeapTypeOK', phase' = "inspect" => image'[t].labels # 0,
           \A C : IsChain(C) /\ Separate(C) /\ RootKept(C) =>
               /\ Separate(C)' /\ RootKept(C)'
               /\ \A L : AreLabels(L) /\ LatestLabels(C, L) /\ Described(L) => LatestLabels(C, L)' /\ Described(L)'
               /\ \A W : AreWritten(W) /\ LatestHistory(C, W) => LatestHistory(C, W)'
    PROVE  HeapInv'
<1>1. t' = t
  BY DEF t
<1>2. ASSUME NEW C, IsChain(C)'
      PROVE  /\ Separate(C)' /\ RootKept(C)'
             /\ \A L : AreLabels(L)' => LatestLabels(C, L)' /\ Described(L)'
             /\ \A W : AreWritten(W)' => LatestHistory(C, W)'
  <2>1. IsChain(C)
    BY <1>2, ChainStays
  <2>2. /\ Separate(C) /\ RootKept(C)
        /\ \A L : AreLabels(L) => LatestLabels(C, L) /\ Described(L)
        /\ \A W : AreWritten(W) => LatestHistory(C, W)
    BY <2>1 DEF HeapInv
  <2>3. (\A L : AreLabels(L)' => AreLabels(L)) /\ (\A W : AreWritten(W)' => AreWritten(W))
    BY ChainStays
  <2> QED BY <2>1, <2>2, <2>3
<1> QED BY <1>1, <1>2 DEF HeapInv

\* Nothing of an image changes, and no stage is entered.
LEMMA HeapRests ==
    ASSUME FilesInv, FilesInv', HeapInv, phase # "idle", UNCHANGED <<registry, recipe, image, maps, arrays>>,
           phase' \in {"parse", "resolve", "dispatch", "finish"},
           phase' \in {"dispatch", "finish"} => phase = "dispatch" \/ \A d \in DOMAIN stages : ~Entered(d),
           \A d \in DOMAIN stages :
               /\ Entered(d)' <=> Entered(d)
               /\ Entered(d) => Done(d)' = Done(d)
               /\ Resolved(d) => Resolved(d)'
               /\ Resolved(d)' => Resolved(d) \/ ~FromRegistry(d)
    PROVE  HeapInv'
<1>1. /\ t' = t /\ DOMAIN stages' = DOMAIN stages
      /\ \A d \in DOMAIN stages :
             /\ stages'[d].base = stages[d].base
             /\ BaseOf(d)' = BaseOf(d) /\ (FromRegistry(d)' <=> FromRegistry(d))
             /\ Lines(d)' = Lines(d)
  BY StagesKeepShape
<1>2. /\ \A d : ArrayOf(image[d].history)' = ArrayOf(image[d].history)
      /\ \A d : LabelsOf(image[d])' = LabelsOf(image[d])
      /\ \A d : HistoryOf(image[d].history)' = HistoryOf(image[d].history)
  BY DEF ArrayOf, LabelsOf, HistoryOf
<1>3. HeapTypeOK'
  BY <1>1, <1>2 DEF HeapInv, HeapTypeOK
<1>4. ASSUME NEW C, IsChain(C), Separate(C), RootKept(C)
      PROVE  /\ Separate(C)' /\ RootKept(C)'
             /\ \A L : AreLabels(L) /\ LatestLabels(C, L) /\ Described(L) => LatestLabels(C, L)' /\ Described(L)'
             /\ \A W : AreWritten(W) /\ LatestHistory(C, W) => LatestHistory(C, W)'
  <2>1. C \subseteq DOMAIN stages
    BY <1>4 DEF IsChain
  <2>2. Separate(C)'
    BY <1>1, <1>4, <2>1 DEF Separate
  <2>3. /\ \A d \in C : \A L : LabelsFrom(d, L)' = LabelsFrom(d, L)
        /\ \A d \in C : \A W : HistoryFrom(d, W)' = HistoryFrom(d, W)
        /\ \A d \in C : \A m, n, under : Labelling(m, d, n, under)' <=> Labelling(m, d, n, under)
    BY <2>1, ChainStays
  <2>4. ASSUME NEW d \in C, BaseOf(d)' = 0, Resolved(d)', ~Entered(d)'
        PROVE  /\ SameMap(LabelsOf(image[d]), LabelsFrom(d, <<>>))
               /\ HistoryOf(image[d].history) = HistoryFrom(d, <<>>)
    <3>1. d \in DOMAIN stages /\ BaseOf(d) = 0 /\ ~Entered(d)
      BY <1>1, <2>1, <2>4
    <3>2. CASE Resolved(d)
      BY <1>4, <2>4, <3>1, <3>2 DEF RootKept
    <3>3. CASE ~Resolved(d)
      <4>1. ~FromRegistry(d)
        BY <2>4, <3>1, <3>3
      <4>2. image[d].labels = 0 /\ image[d].history.array = 0 /\ image[d].history.len \in 0..Len(ArrayOf(image[d].history))
        BY <3>1, <3>3 DEF HeapInv, HeapTypeOK
      <4>3. LabelsFrom(d, <<>>) = NoLabels /\ HistoryFrom(d, <<>>) = <<>>
        BY <3>1, <4>1 DEF LabelsFrom, HistoryFrom
      <4>4. LabelsOf(image[d]) = NoLabels
        BY <4>2 DEF LabelsOf
      <4>5. ArrayOf(image[d].history) = <<>> /\ image[d].history.len = 0
        BY <4>2 DEF ArrayOf
      <4>6. HistoryOf(image[d].history) = <<>>
        BY <4>5 DEF HistoryOf
      <4> QED BY <4>3, <4>4, <4>6 DEF SameMap
    <3> QED BY <3>2, <3>3
  <2>5. RootKept(C)'
    BY <1>2, <2>3, <2>4 DEF RootKept
  <2>6. \A d : Latest(C, d)' => Latest(C, d) /\ d \in C /\ Done(d)' = Done(d) /\ d \in DOMAIN stages
    BY <2>1 DEF Latest
  <2>7. ASSUME NEW L, LatestLabels(C, L) PROVE LatestLabels(C, L)'
    <3> SUFFICES ASSUME phase' \in {"dispatch", "finish"}, NEW d, Latest(C, d)'
                 PROVE  Labelling(LabelsOf(image[d]), d, Done(d), LabelsFrom(d, L))'
      BY Zenon DEF LatestLabels
    <3>1. Latest(C, d) /\ d \in C /\ Done(d)' = Done(d) /\ d \in DOMAIN stages /\ Entered(d)
      BY <2>6 DEF Latest
    <3>2. PICK m, n, under : m = LabelsOf(image[d]) /\ n = Done(d) /\ under = LabelsFrom(d, L)
      OBVIOUS
    <3>3. phase = "dispatch"
      BY <3>1
    <3>4. Labelling(m, d, n, under)
      BY <2>7, <3>1, <3>2, <3>3 DEF LatestLabels
    <3>5. m = LabelsOf(image[d])' /\ n = Done(d)' /\ under = LabelsFrom(d, L)'
      BY <1>2, <2>3, <3>1, <3>2
    <3>6. Labelling(m, d, n, under)'
      BY <2>3, <3>1, <3>4
    <3> QED BY <3>5, <3>6
  <2>8. \A L : Described(L)'
    BY DEF Described
  <2>9. ASSUME NEW W, LatestHistory(C, W) PROVE LatestHistory(C, W)'
    <3> SUFFICES ASSUME NEW d, Latest(C, d)'
                 PROVE  HistoryOf(image[d].history)' = HistoryFrom(d, W)' \o SubSeq(Lines(d)', 1, Done(d)')
      BY DEF LatestHistory
    <3>1. Latest(C, d) /\ d \in C /\ Done(d)' = Done(d) /\ d \in DOMAIN stages
      BY <2>6
    <3>2. HistoryOf(image[d].history) = HistoryFrom(d, W) \o SubSeq(Lines(d), 1, Done(d))
      BY <2>9, <3>1 DEF LatestHistory
    <3> QED BY <1>1, <1>2, <2>3, <3>1, <3>2
  <2> QED BY <2>2, <2>5, <2>7, <2>8, <2>9
<1>5. \A C : IsChain(C) /\ Separate(C) /\ RootKept(C) =>
          /\ Separate(C)' /\ RootKept(C)'
          /\ \A L : AreLabels(L) /\ LatestLabels(C, L) /\ Described(L) => LatestLabels(C, L)' /\ Described(L)'
          /\ \A W : AreWritten(W) /\ LatestHistory(C, W) => LatestHistory(C, W)'
  BY <1>4
<1> QED BY <1>3, <1>5, HeapSteps

LEMMA LoopKeepsHeap ==
    ASSUME FilesInv, FilesInv', HeapInv, ParseArgument \/ ParseNext \/ ParseStage \/ ResolveNothing \/ DispatchStage
    PROVE  HeapInv'
<1>1. phase # "idle" /\ UNCHANGED <<registry, recipe, image, maps, arrays>>
  BY DEF ParseArgument, ParseNext, ParseStage, ResolveNothing, DispatchStage, AtCmd, AtCommand, PastCommands, result, heap
<1>2. s \in DOMAIN stages /\ Len(stages) \in Nat /\ DOMAIN stages = 1..Len(stages) /\ TypeOK
  BY <1>1, StageType DEF FilesInv, TypeOK
<1>3. CASE ParseArgument \/ ParseNext
  <2>1. phase = "parse" /\ phase' = "parse"
    BY <1>3 DEF ParseArgument, ParseNext, AtCmd, AtCommand
  <2>2. \A d : ~Entered(d) /\ ~Entered(d)' /\ ~Resolved(d) /\ ~Resolved(d)'
    BY <2>1 DEF Entered, Resolved, Late
  <2> QED BY <1>1, <2>1, <2>2, HeapRests
<1>4. CASE ParseStage
  <2>1. phase = "parse" /\ NextStage(1, "resolve") /\ stages' = stages
    BY <1>4 DEF ParseStage, PastCommands
  <2>2. /\ s' \in DOMAIN stages
        /\ \/ s < Len(stages) /\ s' = s + 1 /\ phase' = phase
           \/ s = Len(stages) /\ s' = 1 /\ phase' = "resolve"
    BY <1>1, <1>2, <2>1, NextStageType
  <2>3. \A d \in DOMAIN stages : ~Entered(d) /\ ~Entered(d)' /\ ~Resolved(d) /\ ~Resolved(d)'
    BY <1>2, <2>1, <2>2 DEF Entered, Resolved, Late
  <2> QED BY <1>1, <2>1, <2>2, <2>3, HeapRests
<1>5. CASE ResolveNothing
  <2>1. phase = "resolve" /\ ~FromRegistry(s) /\ NextStage(0, "dispatch") /\ stages' = stages
    BY <1>5 DEF ResolveNothing
  <2>2. /\ s' \in DOMAIN stages /\ k' = 0
        /\ \/ s < Len(stages) /\ s' = s + 1 /\ phase' = phase
           \/ s = Len(stages) /\ s' = 1 /\ phase' = "dispatch"
    BY <1>1, <1>2, <2>1, NextStageType
  <2>3. \A d \in DOMAIN stages : ~Entered(d) /\ ~Entered(d)'
    BY <1>2, <2>1, <2>2 DEF Entered, Late
  <2>4. \A d \in DOMAIN stages : (Resolved(d) => Resolved(d)') /\ (Resolved(d)' => Resolved(d) \/ ~FromRegistry(d))
    BY <1>2, <2>1, <2>2 DEF Resolved, Late
  <2> QED BY <1>1, <2>1, <2>2, <2>3, <2>4, HeapRests
<1>6. CASE DispatchStage
  <2>1. phase = "dispatch" /\ k = Len(stages[s].cmds) + 1 /\ NextStage(0, "finish") /\ stages' = stages
    BY <1>6 DEF DispatchStage, PastCommands
  <2>2. /\ s' \in DOMAIN stages /\ k' = 0
        /\ \/ s < Len(stages) /\ s' = s + 1 /\ phase' = phase
           \/ s = Len(stages) /\ s' = 1 /\ phase' = "finish"
    BY <1>1, <1>2, <2>1, NextStageType
  <2>3. \A d \in DOMAIN stages : Len(stages[d].cmds) \in Nat
    BY StageType DEF FilesInv, TypeOK
  <2>4. \A d \in DOMAIN stages : Entered(d)' <=> Entered(d)
    BY <1>2, <2>1, <2>2, <2>3 DEF Entered, Late
  <2>5. ASSUME NEW d \in DOMAIN stages, Entered(d) PROVE Done(d)' = Done(d)
    <3>1. d \in Nat /\ s \in Nat /\ d <= s
      BY <1>2, <2>1, <2>5 DEF Entered, Late
    <3>2. Done(d) = Len(stages[d].cmds)
      BY <1>2, <2>1, <2>3 DEF Done
    <3>3. ~(phase' = "dispatch" /\ d = s')
      BY <2>1, <2>2, <3>1
    <3>4. Done(d)' = Len(stages[d].cmds)
      BY <2>1, <3>3 DEF Done
    <3> QED BY <3>2, <3>4
  <2>6. \A d \in DOMAIN stages : Resolved(d) /\ Resolved(d)'
    BY <2>1, <2>2 DEF Resolved, Late
  <2> QED BY <1>1, <2>1, <2>2, <2>4, <2>5, <2>6, HeapRests
<1> QED BY <1>3, <1>4, <1>5, <1>6

LEMMA EndKeepsHeap == ASSUME HeapInv, Fail \/ Panic PROVE HeapInv'
<1>1. phase' = "idle" /\ maps' = <<>> /\ arrays' = <<>> /\ registry' = registry
  BY DEF Fail, Panic, Leave
<1>2. \A name \in DOMAIN registry : registry[name].history \in Seq(Line)
  BY DEF HeapInv, HeapTypeOK
<1> QED BY <1>1, <1>2 DEF HeapInv, HeapTypeOK, IsChain

LEMMA BeginKeepsHeap == ASSUME FilesInv, FilesInv', HeapInv, NEW r \in Recipes, Begin(r) PROVE HeapInv'
<1>1. /\ phase' = "parse" /\ stages' = r.stages /\ UNCHANGED <<registry, maps, arrays>>
      /\ image' = [d \in DOMAIN r.stages |-> EmptyImage]
  BY DEF Begin, heap
<1>2. \A d \in DOMAIN stages' : image'[d].labels = 0 /\ image'[d].history = [array |-> 0, len |-> 0]
  BY <1>1 DEF EmptyImage
<1>3. HeapTypeOK'
  <2>1. \A name \in DOMAIN registry' : registry'[name].history \in Seq(Line)
    BY <1>1 DEF HeapInv, HeapTypeOK
  <2>2. arrays' \in Seq(Seq(Line)) /\ maps' \in Seq({maps'[j] : j \in DOMAIN maps'})
    BY <1>1 DEF HeapInv, HeapTypeOK
  <2>3. Len(arrays') \in Nat /\ Len(maps') \in Nat
    BY <2>2
  <2>4. \A d \in DOMAIN stages' : ~Resolved(d)'
    BY <1>1 DEF Resolved, Late
  <2>5. ASSUME NEW d \in DOMAIN stages'
        PROVE  /\ image'[d].labels \in 0..Len(maps')
               /\ image'[d].history = [array |-> image'[d].history.array, len |-> image'[d].history.len]
               /\ image'[d].history.array \in 0..Len(arrays')
               /\ image'[d].history.len \in 0..Len(ArrayOf(image[d].history)')
               /\ image'[d].labels = 0 /\ image'[d].history.array = 0
    BY <1>2, <2>3 DEF ArrayOf
  <2> QED BY <2>1, <2>2, <2>4, <2>5 DEF HeapTypeOK
<1>4. \A d : ~Entered(d)' /\ ~Resolved(d)'
  BY <1>1 DEF Entered, Resolved, Late
<1>5. ASSUME NEW C, IsChain(C)' PROVE Separate(C)'
  BY <1>2, <1>5 DEF IsChain, Separate
<1>6. \A C : RootKept(C)' /\ (\A L : LatestLabels(C, L)') /\ (\A W : LatestHistory(C, W)')
  BY <1>1, <1>4 DEF RootKept, LatestLabels, LatestHistory, Latest
<1>7. \A L : Described(L)'
  BY <1>1 DEF Described
<1> QED BY <1>1, <1>3, <1>5, <1>6, <1>7 DEF HeapInv

LEMMA PushKeepsHeap == ASSUME FilesInv, HeapInv, Push PROVE HeapInv'
<1>1. phase' = "idle" /\ maps' = <<>> /\ arrays' = <<>> /\ phase = "inspect"
  BY DEF Push, Leave
<1>2. PICK new : /\ new.history = HistoryOf(image[t].history)
                 /\ registry' = [name \in DOMAIN registry \cup {recipe.tag} |->
                                    IF name # recipe.tag THEN registry[name] ELSE new]
  BY DEF Push
<1>3. t \in DOMAIN stages
  BY <1>1, TargetType
<1>4. image[t].history.array \in 0..Len(arrays) /\ image[t].history.len \in 0..Len(ArrayOf(image[t].history))
  BY <1>1, <1>3 DEF HeapInv, HeapTypeOK
<1>5. ArrayOf(image[t].history) \in Seq(Line)
  <2>1. arrays \in Seq(Seq(Line))
    BY DEF HeapInv, HeapTypeOK
  <2> QED BY <1>4, <2>1 DEF ArrayOf
<1>6. HistoryOf(image[t].history) \in Seq(Line)
  <2>1. PICK a, n : a = ArrayOf(image[t].history) /\ n = image[t].history.len
    OBVIOUS
  <2>2. SubSeq(a, 1, n) \in Seq(Line)
    BY <1>4, <1>5, <2>1
  <2> QED BY <2>1, <2>2 DEF HistoryOf
<1>7. \A name \in DOMAIN registry' : registry'[name].history \in Seq(Line)
  BY <1>2, <1>6 DEF HeapInv, HeapTypeOK
<1> QED BY <1>1, <1>7 DEF HeapInv, HeapTypeOK, IsChain

LEMMA HeapInitially == Init => HeapInv
<1> SUFFICES ASSUME Init PROVE HeapInv
  OBVIOUS
<1>1. \A name \in DOMAIN registry : registry[name].history \in Seq(Line)
  BY ModelImageAssumption DEF Init
<1>2. phase = "idle" /\ maps = <<>> /\ arrays = <<>>
  BY DEF Init
<1> QED BY <1>1, <1>2 DEF HeapInv, HeapTypeOK, IsChain

(* The heap grows, and is written in the place of one stage *)

Own(q) == Seq({q[j] : j \in DOMAIN q})

LEMMA OwnType ==
    ASSUME NEW q, q \in Own(q)
    PROVE  q \in Seq({q[j] : j \in DOMAIN q}) /\ Len(q) \in Nat /\ DOMAIN q = 1..Len(q)
<1>1. PICK S : S = {q[j] : j \in DOMAIN q}
  OBVIOUS
<1>2. q \in Seq(S)
  BY <1>1 DEF Own
<1>3. Len(q) \in Nat /\ DOMAIN q = 1..Len(q)
  BY <1>2
<1> QED BY <1>3 DEF Own

LEMMA OwnFunction ==
    ASSUME NEW n \in Nat, NEW S, NEW new \in [1..n -> S]
    PROVE  new \in Own(new) /\ Len(new) = n
<1>1. new \in [1..n -> {new[j] : j \in 1..n}] /\ DOMAIN new = 1..n
  OBVIOUS
<1>2. PICK U : U = {new[j] : j \in 1..n}
  OBVIOUS
<1>3. new \in [1..n -> U] /\ U = {new[j] : j \in DOMAIN new}
  BY <1>1, <1>2
<1>4. new \in Seq(U) /\ Len(new) = n
  BY <1>3
<1> QED BY <1>3, <1>4 DEF Own

IsAppend(new, q, x) == new = Append(q, x)
IsExcept(new, q, h, x) == new = [q EXCEPT ![h] = x]

LEMMA OwnAppend ==
    ASSUME NEW q, q \in Own(q), NEW x, NEW new, IsAppend(new, q, x)
    PROVE  /\ new \in Own(new) /\ Len(new) = Len(q) + 1 /\ new[Len(q) + 1] = x
           /\ \A j \in 1..Len(q) : new[j] = q[j]
<1>1. PICK S : S = {q[j] : j \in DOMAIN q}
  OBVIOUS
<1>2. q \in Seq(S) /\ Len(q) \in Nat
  BY <1>1, OwnType
<1>3. q \in Seq(S \cup {x})
  BY <1>2
<1>4. new \in Seq(S \cup {x}) /\ Len(new) = Len(q) + 1 /\ new[Len(q) + 1] = x /\ \A j \in 1..Len(q) : new[j] = q[j]
  BY <1>3, AppendProperties DEF IsAppend
<1>5. new \in [1..(Len(q) + 1) -> S \cup {x}] /\ Len(q) + 1 \in Nat
  BY <1>2, <1>4, LenProperties
<1> QED BY <1>4, <1>5, OwnFunction

LEMMA OwnExcept ==
    ASSUME NEW q, q \in Own(q), NEW x, NEW h \in 1..Len(q), NEW new, IsExcept(new, q, h, x)
    PROVE  /\ new \in Own(new) /\ Len(new) = Len(q) /\ new[h] = x
           /\ \A j \in 1..Len(q) : j # h => new[j] = q[j]
<1>1. PICK S : S = {q[j] : j \in DOMAIN q}
  OBVIOUS
<1>2. q \in Seq(S) /\ Len(q) \in Nat /\ DOMAIN q = 1..Len(q)
  BY <1>1, OwnType
<1>3. new \in [1..Len(q) -> S \cup {x}] /\ new[h] = x /\ \A j \in 1..Len(q) : j # h => new[j] = q[j]
  BY <1>2 DEF IsExcept
<1> QED BY <1>2, <1>3, OwnFunction

\* The array that json.Unmarshal leaves has room for what is in it.
LEMMA RoomIsEnough == ASSUME NEW n \in Nat PROVE Room(n) \in Nat /\ Room(n) >= n
<1> DEFINE F == CHOOSE twice : twice = [e \in 1..n + 1 |-> IF e = 1 THEN 1 ELSE 2 * twice[e - 1]]
           step == [m \in Nat |-> [b \in Nat |-> 2 * b]]
<1>1. \E f : f = [e \in 1..n + 1 |-> IF e = 1 THEN 1 ELSE 2 * f[e - 1]]
  <2>1. step \in [Nat -> [Nat -> Nat]] /\ 1 \in Nat /\ n + 1 \in Nat
    OBVIOUS
  <2>2. PICK f \in [1..n + 1 -> Nat] : Recursive(f, 1, step, n + 1)
    <3> HIDE DEF step
    <3> QED BY <2>1, Recursion
  <2>3. ASSUME NEW e \in 1..n + 1 PROVE f[e] = IF e = 1 THEN 1 ELSE 2 * f[e - 1]
    <3>1. f[e] = IF e = 1 THEN 1 ELSE step[e][f[e - 1]]
      BY <2>2 DEF Recursive
    <3>2. e # 1 => e \in Nat /\ e - 1 \in 1..n + 1
      OBVIOUS
    <3>3. e # 1 => f[e - 1] \in Nat
      BY <2>2, <3>2
    <3>4. e # 1 => step[e][f[e - 1]] = 2 * f[e - 1]
      BY <3>2, <3>3
    <3> QED BY <3>1, <3>4
  <2> QED BY <2>2, <2>3
<1>2. F = [e \in 1..n + 1 |-> IF e = 1 THEN 1 ELSE 2 * F[e - 1]]
  BY <1>1
<1>3. Room(n) = F[CHOOSE e \in 1..n + 1 : F[e] >= n /\ \A f \in 1..n + 1 : F[f] >= n => e <= f]
  BY DEF Room
<1> HIDE DEF F
<1>4. \A e \in 1..n + 1 : F[e] \in Nat /\ F[e] >= e
  <2> DEFINE S == {m \in Nat : m \in 1..n + 1 => F[m] \in Nat /\ F[m] >= m}
  <2>1. 0 \in S
    OBVIOUS
  <2>2. ASSUME NEW m \in S PROVE m + 1 \in S
    <3> SUFFICES ASSUME m + 1 \in 1..n + 1 PROVE F[m + 1] \in Nat /\ F[m + 1] >= m + 1
      OBVIOUS
    <3>1. F[m + 1] = IF m + 1 = 1 THEN 1 ELSE 2 * F[(m + 1) - 1]
      BY <1>2
    <3>2. m # 0 => m \in 1..n + 1
      OBVIOUS
    <3>3. m # 0 => F[m] \in Nat /\ F[m] >= m
      BY <3>2
    <3>4. m # 0 => F[m + 1] = 2 * F[m]
      BY <3>1
    <3>5. m = 0 => F[m + 1] = 1
      BY <3>1
    <3> QED BY <3>3, <3>4, <3>5
  <2>3. S = Nat
    <3>1. S \in SUBSET Nat
      OBVIOUS
    <3> HIDE DEF S
    <3> QED BY <2>1, <2>2, <3>1, Induction
  <2> QED BY <2>3
<1> DEFINE T == {e \in 1..n + 1 : F[e] >= n}
<1>5. T \in SUBSET Nat /\ n + 1 \in T
  BY <1>4
<1>6. PICK m \in T : \A f \in T : m <= f
  <2> HIDE DEF T
  <2> QED BY <1>5, LeastNumber
<1>7. \E e \in 1..n + 1 : F[e] >= n /\ \A f \in 1..n + 1 : F[f] >= n => e <= f
  BY <1>6
<1>8. PICK c : c = CHOOSE e \in 1..n + 1 : F[e] >= n /\ \A f \in 1..n + 1 : F[f] >= n => e <= f
  OBVIOUS
<1>9. c \in 1..n + 1 /\ F[c] >= n
  BY <1>7, <1>8
<1>10. Room(n) = F[c]
  BY <1>3, <1>8
<1> QED BY <1>4, <1>9, <1>10

LEMMA UnmarshalledIs ==
    ASSUME NEW h \in Seq(Line)
    PROVE  /\ Unmarshalled(h) \in Seq(Line) /\ Len(h) \in 0..Len(Unmarshalled(h))
           /\ SubSeq(Unmarshalled(h), 1, Len(h)) = h
<1>1. PICK n \in Nat, r \in Nat : n = Len(h) /\ r = Room(n) /\ r >= n
  BY RoomIsEnough
<1>2. <<>> \in Line
  BY DEF Line
<1> HIDE DEF Line
<1>3. PICK u : u = [j \in 1..r |-> IF j <= n THEN h[j] ELSE <<>>]
  OBVIOUS
<1>4. u \in [1..r -> Line] /\ \A j \in 1..n : u[j] = h[j]
  BY <1>1, <1>2, <1>3
<1>5. u \in Seq(Line) /\ Len(u) = r
  BY <1>4
<1>6. u = Unmarshalled(h)
  BY <1>1, <1>3 DEF Unmarshalled
<1>7. SubSeq(u, 1, n) = h
  <2>1. SubSeq(u, 1, n) \in Seq(Line) /\ Len(SubSeq(u, 1, n)) = n /\ \A j \in 1..n : SubSeq(u, 1, n)[j] = u[j]
    BY <1>1, <1>5
  <2> QED BY <1>1, <1>4, <2>1, SeqEqual
<1> QED BY <1>1, <1>5, <1>6, <1>7

\* A step that writes in the heap for the stage d0, in its map and array or in new ones.
WritesFor(d0) ==
    /\ \A d \in DOMAIN stages : d # d0 => image'[d].labels = image[d].labels /\ image'[d].history = image[d].history
    /\ maps' \in Own(maps)'
    /\ Len(maps) <= Len(maps')
    /\ \A j \in 1..Len(maps) : j # image[d0].labels => maps'[j] = maps[j]
    /\ image'[d0].labels \in {image[d0].labels, Len(maps) + 1} /\ image'[d0].labels <= Len(maps')
    /\ arrays' \in Seq(Seq(Line))
    /\ Len(arrays) <= Len(arrays')
    /\ \A j \in 1..Len(arrays) :
           Len(arrays'[j]) = Len(arrays[j]) /\ (j # image[d0].history.array => arrays'[j] = arrays[j])
    /\ image'[d0].history = [array |-> image'[d0].history.array, len |-> image'[d0].history.len]
    /\ image'[d0].history.array \in {image[d0].history.array, Len(arrays) + 1} /\ image'[d0].history.array <= Len(arrays')
    /\ image'[d0].history.len \in 0..Len(ArrayOf(image[d0].history)')

\* Of an image whose map and array are not those of d0, nothing changes.
LEMMA WritesSpareOthers ==
    ASSUME HeapInv, phase # "idle", NEW d0 \in DOMAIN stages, WritesFor(d0), NEW d \in DOMAIN stages, d # d0
    PROVE  /\ image[d].labels = 0 \/ image[d].labels # image[d0].labels => LabelsOf(image[d])' = LabelsOf(image[d])
           /\ image[d].history.array = 0 \/ image[d].history.array # image[d0].history.array =>
                  HistoryOf(image[d].history)' = HistoryOf(image[d].history)
           /\ Len(ArrayOf(image[d].history)') = Len(ArrayOf(image[d].history))
<1>1. /\ image[d].labels \in 0..Len(maps) /\ image[d].history.array \in 0..Len(arrays)
      /\ image'[d].labels = image[d].labels /\ image'[d].history = image[d].history
  BY DEF HeapInv, HeapTypeOK, WritesFor
<1>2. Len(maps) \in Nat /\ Len(arrays) \in Nat
  BY DEF HeapInv, HeapTypeOK
<1>3. image[d].labels = 0 \/ image[d].labels # image[d0].labels => LabelsOf(image[d])' = LabelsOf(image[d])
  <2> SUFFICES ASSUME image[d].labels = 0 \/ image[d].labels # image[d0].labels
               PROVE  LabelsOf(image[d])' = LabelsOf(image[d])
    OBVIOUS
  <2>1. image[d].labels # 0 => maps'[image[d].labels] = maps[image[d].labels]
    BY <1>1, <1>2 DEF WritesFor
  <2> QED BY <1>1, <2>1 DEF LabelsOf
<1>4. image[d].history.array # 0 =>
          /\ image[d].history.array \in 1..Len(arrays)
          /\ Len(arrays'[image[d].history.array]) = Len(arrays[image[d].history.array])
          /\ image[d].history.array # image[d0].history.array =>
                 arrays'[image[d].history.array] = arrays[image[d].history.array]
  <2>1. \A j \in 1..Len(arrays) :
            Len(arrays'[j]) = Len(arrays[j]) /\ (j # image[d0].history.array => arrays'[j] = arrays[j])
    BY DEF WritesFor
  <2>2. image[d].history.array # 0 => image[d].history.array \in 1..Len(arrays)
    BY <1>1, <1>2
  <2> QED BY <2>1, <2>2
<1>5. image[d].history.array = 0 \/ image[d].history.array # image[d0].history.array =>
          ArrayOf(image[d].history)' = ArrayOf(image[d].history)
  BY <1>1, <1>4 DEF ArrayOf
<1>6. Len(ArrayOf(image[d].history)') = Len(ArrayOf(image[d].history))
  BY <1>1, <1>4 DEF ArrayOf
<1> QED BY <1>1, <1>3, <1>5, <1>6 DEF HistoryOf

LEMMA WritesKeepTypes ==
    ASSUME FilesInv, FilesInv', HeapInv, phase # "idle", phase' # "idle", UNCHANGED <<registry, recipe>>,
           NEW d0 \in DOMAIN stages, WritesFor(d0), Resolved(d0)',
           \A d \in DOMAIN stages :
               /\ Resolved(d) => Resolved(d)'
               /\ Resolved(d)' => Resolved(d) \/ (d = d0 /\ stages[d].base \in DOMAIN registry)
    PROVE  HeapTypeOK'
<1>1. /\ DOMAIN stages' = DOMAIN stages
      /\ \A d \in DOMAIN stages : stages'[d].base = stages[d].base /\ (FromRegistry(d)' <=> FromRegistry(d))
  BY StagesKeepShape
<1>2. maps' \in Seq({maps'[j] : j \in DOMAIN maps'}) /\ arrays' \in Seq(Seq(Line))
  BY DEF WritesFor, Own
<1>3. \A name \in DOMAIN registry : registry[name].history \in Seq(Line)
  BY DEF HeapInv, HeapTypeOK
<1>4. Len(maps) \in Nat /\ Len(arrays) \in Nat /\ Len(maps') \in Nat /\ Len(arrays') \in Nat
  BY <1>2 DEF HeapInv, HeapTypeOK
<1>5. ASSUME NEW d \in DOMAIN stages
      PROVE  /\ image'[d].labels \in 0..Len(maps')
             /\ image'[d].history = [array |-> image'[d].history.array, len |-> image'[d].history.len]
             /\ image'[d].history.array \in 0..Len(arrays')
             /\ image'[d].history.len \in 0..Len(ArrayOf(image[d].history)')
             /\ ~Resolved(d)' => image'[d].labels = 0 /\ image'[d].history.array = 0
             /\ Resolved(d)' /\ FromRegistry(d)' => stages'[d].base \in DOMAIN registry'
  <2>1. /\ image[d].labels \in 0..Len(maps)
        /\ image[d].history = [array |-> image[d].history.array, len |-> image[d].history.len]
        /\ image[d].history.array \in 0..Len(arrays)
        /\ image[d].history.len \in 0..Len(ArrayOf(image[d].history))
        /\ ~Resolved(d) => image[d].labels = 0 /\ image[d].history.array = 0
        /\ Resolved(d) /\ FromRegistry(d) => stages[d].base \in DOMAIN registry
    BY DEF HeapInv, HeapTypeOK
  <2>2. Resolved(d)' /\ FromRegistry(d)' => stages'[d].base \in DOMAIN registry'
    BY <1>1, <2>1
  <2>3. CASE d = d0
    <3>1. /\ image'[d].labels \in {image[d].labels, Len(maps) + 1} /\ image'[d].labels <= Len(maps')
          /\ image'[d].history = [array |-> image'[d].history.array, len |-> image'[d].history.len]
          /\ image'[d].history.array \in {image[d].history.array, Len(arrays) + 1}
          /\ image'[d].history.array <= Len(arrays')
          /\ image'[d].history.len \in 0..Len(ArrayOf(image[d].history)')
      BY <2>3 DEF WritesFor
    <3>2. Len(maps) <= Len(maps') /\ Len(arrays) <= Len(arrays')
      BY DEF WritesFor
    <3>3. image'[d].labels \in 0..Len(maps')
      <4>1. PICK l \in 0..Len(maps) : l = image[d].labels
        BY <2>1
      <4> QED BY <1>4, <3>1, <4>1
    <3>4. image'[d].history.array \in 0..Len(arrays')
      <4>1. PICK l, x, m, n : /\ l = image[d].history.array /\ x = image'[d].history.array
                              /\ m = Len(arrays) /\ n = Len(arrays')
        OBVIOUS
      <4>2. l \in 0..m /\ m \in Nat /\ n \in Nat /\ x \in {l, m + 1} /\ x <= n
        BY <1>4, <2>1, <3>1, <4>1, Zenon
      <4>3. x \in 0..n
        BY <4>2
      <4> QED BY <4>1, <4>3, Zenon
    <3>5. Resolved(d)'
      BY <2>3
    <3> QED BY <2>2, <3>1, <3>3, <3>4, <3>5
  <2>4. CASE d # d0
    <3>1. image'[d].labels = image[d].labels /\ image'[d].history = image[d].history
          /\ Len(maps) <= Len(maps') /\ Len(arrays) <= Len(arrays')
      BY <2>4 DEF WritesFor
    <3>2. Len(ArrayOf(image[d].history)') = Len(ArrayOf(image[d].history))
      BY <2>4, WritesSpareOthers
    <3> QED BY <1>4, <2>1, <2>2, <3>1, <3>2
  <2> QED BY <2>3, <2>4
<1> QED BY <1>1, <1>2, <1>3, <1>5 DEF HeapTypeOK

LEMMA WritesKeepApart ==
    ASSUME FilesInv, FilesInv', HeapInv, phase # "idle", phase' # "idle", UNCHANGED <<registry, recipe>>,
           NEW d0 \in DOMAIN stages, WritesFor(d0), NEW C, IsChain(C), Separate(C)
    PROVE  /\ Separate(C)'
           /\ \A d \in C : d0 \notin C => /\ LabelsOf(image[d])' = LabelsOf(image[d])
                                          /\ HistoryOf(image[d].history)' = HistoryOf(image[d].history)
<1>1. DOMAIN stages' = DOMAIN stages /\ C \subseteq DOMAIN stages
  BY StagesKeepShape DEF IsChain
<1>2. \A d \in DOMAIN stages :
          /\ image[d].labels \in 0..Len(maps) /\ image[d].history.array \in 0..Len(arrays)
          /\ d # d0 => image'[d].labels = image[d].labels /\ image'[d].history = image[d].history
  BY DEF HeapInv, HeapTypeOK, WritesFor
<1>3. Len(maps) \in Nat /\ Len(arrays) \in Nat
  BY DEF HeapInv, HeapTypeOK
<1>4. /\ image'[d0].labels \in {image[d0].labels, Len(maps) + 1}
      /\ image'[d0].history.array \in {image[d0].history.array, Len(arrays) + 1}
  BY DEF WritesFor
<1>5. ASSUME NEW d \in C, NEW e \in DOMAIN stages \ C
      PROVE  /\ image'[d].labels # 0 => image'[d].labels # image'[e].labels
             /\ image'[d].history.array # 0 => image'[d].history.array # image'[e].history.array
  <2>1. /\ image[d].labels # 0 => image[d].labels # image[e].labels
        /\ image[d].history.array # 0 => image[d].history.array # image[e].history.array
        /\ d # e /\ d \in DOMAIN stages
    BY <1>1, <1>5 DEF Separate
  <2>2. PICK n, l, le, l2, le2 : /\ n = Len(maps) /\ l = image[d].labels /\ le = image[e].labels
                                 /\ l2 = image'[d].labels /\ le2 = image'[e].labels
    OBVIOUS
  <2>3. n \in Nat /\ l \in 0..n /\ le \in 0..n /\ (l # 0 => l # le)
    BY <1>1, <1>2, <1>3, <2>1, <2>2
  <2>4. (d = d0 => le2 = le /\ l2 \in {l, n + 1}) /\ (d # d0 => l2 = l /\ le2 \in {le, n + 1})
    BY <1>1, <1>2, <1>4, <2>1, <2>2
  <2>5. l2 # 0 => l2 # le2
    BY <2>3, <2>4
  <2>6. PICK m, a, ae, a2, ae2 : /\ m = Len(arrays) /\ a = image[d].history.array /\ ae = image[e].history.array
                                 /\ a2 = image'[d].history.array /\ ae2 = image'[e].history.array
    OBVIOUS
  <2>7. m \in Nat /\ a \in 0..m /\ ae \in 0..m /\ (a # 0 => a # ae)
    BY <1>1, <1>2, <1>3, <2>1, <2>6
  <2>8. (d = d0 => ae2 = ae /\ a2 \in {a, m + 1}) /\ (d # d0 => a2 = a /\ ae2 \in {ae, m + 1})
    BY <1>1, <1>2, <1>4, <2>1, <2>6
  <2>9. a2 # 0 => a2 # ae2
    BY <2>7, <2>8
  <2> QED BY <2>2, <2>5, <2>6, <2>9
<1>6. Separate(C)'
  BY <1>1, <1>5 DEF Separate
<1>7. ASSUME NEW d \in C, d0 \notin C
      PROVE  LabelsOf(image[d])' = LabelsOf(image[d]) /\ HistoryOf(image[d].history)' = HistoryOf(image[d].history)
  <2>1. /\ image[d].labels # 0 => image[d].labels # image[d0].labels
        /\ image[d].history.array # 0 => image[d].history.array # image[d0].history.array
        /\ d # d0 /\ d \in DOMAIN stages
    BY <1>1, <1>7 DEF Separate
  <2> QED BY <2>1, WritesSpareOthers
<1> QED BY <1>6, <1>7

\* Stages beside the chain are dispatched.
LEMMA ChainRests ==
    ASSUME FilesInv, FilesInv', phase = "dispatch", phase' = "dispatch", UNCHANGED <<registry, recipe>>, s' = s,
           NEW C, IsChain(C), RootKept(C), s \notin C,
           \A d \in C : /\ LabelsOf(image[d])' = LabelsOf(image[d])
                        /\ HistoryOf(image[d].history)' = HistoryOf(image[d].history)
    PROVE  /\ RootKept(C)'
           /\ \A L : LatestLabels(C, L) => LatestLabels(C, L)' /\ Described(L)'
           /\ \A W : LatestHistory(C, W) => LatestHistory(C, W)'
<1>1. C \subseteq DOMAIN stages
  BY DEF IsChain
<1>2. \A d \in C :
          /\ Entered(d)' <=> Entered(d)
          /\ Resolved(d) /\ Resolved(d)'
          /\ Done(d)' = Len(stages'[d].cmds) /\ Done(d) = Len(stages[d].cmds)
  BY DEF Entered, Resolved, Late, Done
<1>3. \A d \in C : BaseOf(d)' = BaseOf(d) /\ Lines(d)' = Lines(d) /\ Done(d)' = Done(d)
  BY <1>1, <1>2, StagesKeepShape
<1>4. /\ \A d \in C : \A L : LabelsFrom(d, L)' = LabelsFrom(d, L)
      /\ \A d \in C : \A W : HistoryFrom(d, W)' = HistoryFrom(d, W)
      /\ \A d \in C : \A m, n, under : Labelling(m, d, n, under)' <=> Labelling(m, d, n, under)
  BY <1>1, ChainStays
<1>5. ASSUME NEW d \in C, BaseOf(d)' = 0, ~Entered(d)'
      PROVE  /\ SameMap(LabelsOf(image[d])', LabelsFrom(d, <<>>)')
             /\ HistoryOf(image[d].history)' = HistoryFrom(d, <<>>)'
  <2>1. SameMap(LabelsOf(image[d]), LabelsFrom(d, <<>>)) /\ HistoryOf(image[d].history) = HistoryFrom(d, <<>>)
    BY <1>2, <1>3, <1>5 DEF RootKept
  <2> QED BY <1>4, <2>1
<1>6. RootKept(C)'
  BY <1>5 DEF RootKept, SameMap
<1>7. \A d : Latest(C, d)' => Latest(C, d) /\ d \in C
  BY <1>2 DEF Latest
<1>8. ASSUME NEW L, LatestLabels(C, L) PROVE LatestLabels(C, L)'
  <2> SUFFICES ASSUME NEW d, Latest(C, d)'
               PROVE  Labelling(LabelsOf(image[d]), d, Done(d), LabelsFrom(d, L))'
    BY Zenon DEF LatestLabels
  <2>1. Latest(C, d) /\ d \in C
    BY <1>7
  <2>2. PICK m, n, under : m = LabelsOf(image[d]) /\ n = Done(d) /\ under = LabelsFrom(d, L)
    OBVIOUS
  <2>3. Labelling(m, d, n, under)
    BY <1>8, <2>1, <2>2 DEF LatestLabels
  <2>4. m = LabelsOf(image[d])' /\ n = Done(d)' /\ under = LabelsFrom(d, L)'
    BY <1>3, <1>4, <2>1, <2>2
  <2>5. Labelling(m, d, n, under)'
    BY <1>4, <2>1, <2>3
  <2> QED BY <2>4, <2>5
<1>9. \A L : Described(L)'
  BY DEF Described
<1>10. ASSUME NEW W, LatestHistory(C, W) PROVE LatestHistory(C, W)'
  <2> SUFFICES ASSUME NEW d, Latest(C, d)'
               PROVE  HistoryOf(image[d].history)' = HistoryFrom(d, W)' \o SubSeq(Lines(d)', 1, Done(d)')
    BY DEF LatestHistory
  <2>1. Latest(C, d) /\ d \in C
    BY <1>7
  <2>2. HistoryOf(image[d].history) = HistoryFrom(d, W) \o SubSeq(Lines(d), 1, Done(d))
    BY <1>10, <2>1 DEF LatestHistory
  <2> QED BY <1>3, <1>4, <2>1, <2>2
<1> QED BY <1>6, <1>8, <1>9, <1>10

\* Only the stage that is dispatched, if any, is the latest of the chain.
LEMMA DispatchedIsLatest ==
    ASSUME FilesInv, phase = "dispatch", NEW C, IsChain(C), s \in C
    PROVE  /\ \A d : k # 0 /\ Latest(C, d) <=> k # 0 /\ d = s
           /\ k # 0 => RootKept(C)
           /\ k = 0 /\ BaseOf(s) # 0 => Latest(C, BaseOf(s)) /\ Done(BaseOf(s)) = Len(stages[BaseOf(s)].cmds)
           /\ \A d \in C : ~(d <= s) => BaseOf(d) # 0
<1>1. Len(stages) \in Nat /\ DOMAIN stages = 1..Len(stages) /\ C \in SUBSET (1..Len(stages))
  BY ChainType
<1>2. \A d \in C : d \in Nat
  BY <1>1
<1>3. \A d \in C : ~(d <= s) => BaseOf(d) # 0
  <2> SUFFICES ASSUME NEW d \in C, ~(d <= s) PROVE BaseOf(d) # 0
    OBVIOUS
  <2>1. s < d
    BY <1>2
  <2> QED BY <2>1, ChainIsLinear
<1>4. \A d \in C : Entered(d) <=> d < s \/ (d = s /\ k # 0)
  BY DEF Entered, Late
<1>5. ASSUME k # 0 PROVE RootKept(C) /\ \A d : Latest(C, d) <=> d = s
  <2>1. \A d \in C : Entered(d) <=> d <= s
    BY <1>2, <1>4, <1>5
  <2>2. RootKept(C)
    BY <1>3, <2>1 DEF RootKept
  <2>3. \A d : Latest(C, d) => d = s
    <3> SUFFICES ASSUME NEW d, Latest(C, d) PROVE d = s
      OBVIOUS
    <3>1. d \in C /\ d <= s /\ s <= d
      BY <1>2, <2>1 DEF Latest
    <3> QED BY <1>2, <3>1
  <2>4. Latest(C, s)
    BY <1>2, <2>1 DEF Latest
  <2> QED BY <2>2, <2>3, <2>4
<1>6. ASSUME k = 0, BaseOf(s) # 0 PROVE Latest(C, BaseOf(s)) /\ Done(BaseOf(s)) = Len(stages[BaseOf(s)].cmds)
  <2>1. BaseOf(s) \in C /\ BaseOf(s) \in 1..(s - 1)
    BY <1>1, <1>6, ChainType
  <2>2. BaseOf(s) < s /\ BaseOf(s) # s
    BY <1>2, <2>1
  <2>3. \A e \in C : Entered(e) => e <= BaseOf(s)
    <3> SUFFICES ASSUME NEW e \in C, Entered(e) PROVE e <= BaseOf(s)
      OBVIOUS
    <3>1. e < s
      BY <1>4, <1>6
    <3> QED BY <3>1, ChainIsLinear
  <2>4. Entered(BaseOf(s))
    BY <1>4, <2>1, <2>2
  <2> QED BY <2>1, <2>2, <2>3, <2>4 DEF Latest, Done
<1> QED BY <1>3, <1>5, <1>6

LEMMA Prolonged ==
    ASSUME NEW S, NEW a \in Seq(S), NEW b \in Seq(S), NEW n \in 1..Len(b)
    PROVE  Append(a \o SubSeq(b, 1, n - 1), b[n]) = a \o SubSeq(b, 1, n)
<1> DEFINE x == Len(a)
<1>1. n \in Nat /\ n - 1 \in Nat /\ n <= Len(b) /\ Len(b) \in Nat /\ x \in Nat
  OBVIOUS
<1>2. PICK p, q : p = SubSeq(b, 1, n - 1) /\ q = SubSeq(b, 1, n)
  OBVIOUS
<1>3. p \in Seq(S) /\ Len(p) = n - 1 /\ \A j \in 1..(n - 1) : p[j] = b[j]
  BY <1>1, <1>2
<1>4. q \in Seq(S) /\ Len(q) = n /\ \A j \in 1..n : q[j] = b[j]
  BY <1>1, <1>2
<1>5. b[n] \in S
  BY <1>1
<1>6. PICK e, l, r : e = a \o p /\ l = Append(e, b[n]) /\ r = a \o q
  OBVIOUS
<1>7. e \in Seq(S) /\ Len(e) = x + (n - 1) /\ \A j \in 1..(x + (n - 1)) : e[j] = IF j <= x THEN a[j] ELSE p[j - x]
  BY <1>2, <1>3, <1>6, ConcatProperties
<1>8. r \in Seq(S) /\ Len(r) = x + n /\ \A j \in 1..(x + n) : r[j] = IF j <= x THEN a[j] ELSE q[j - x]
  BY <1>2, <1>4, <1>6, ConcatProperties
<1>9. l \in Seq(S) /\ Len(l) = (x + (n - 1)) + 1 /\ (\A j \in 1..(x + (n - 1)) : l[j] = e[j]) /\ l[(x + (n - 1)) + 1] = b[n]
  BY <1>5, <1>6, <1>7, AppendProperties
<1> HIDE DEF x
<1>10. ASSUME NEW j \in 1..(x + n) PROVE l[j] = r[j]
  <2>1. CASE j <= x
    <3>1. j \in 1..(x + (n - 1))
      BY <1>1, <2>1
    <3> QED BY <1>7, <1>8, <1>9, <2>1, <3>1
  <2>2. CASE ~(j <= x) /\ j < x + n
    <3>1. j \in 1..(x + (n - 1)) /\ j - x \in 1..(n - 1) /\ j - x \in 1..n
      BY <1>1, <1>2, <2>2
    <3>2. l[j] = e[j] /\ e[j] = p[j - x] /\ p[j - x] = b[j - x]
      BY <1>3, <1>7, <1>9, <2>2, <3>1, Zenon
    <3>3. r[j] = q[j - x] /\ q[j - x] = b[j - x]
      BY <1>4, <1>8, <2>2, <3>1, Zenon
    <3> QED BY <3>2, <3>3, Zenon
  <2>3. CASE j = x + n
    <3>1. ~(j <= x) /\ j - x = n /\ n \in 1..n /\ j = (x + (n - 1)) + 1
      BY <1>1, <1>2, <2>3
    <3> QED BY <1>4, <1>8, <1>9, <3>1
  <2> QED BY <1>1, <1>2, <2>1, <2>2, <2>3
<1>11. Len(l) = Len(r) /\ \A j \in 1..Len(l) : l[j] = r[j]
  BY <1>1, <1>2, <1>8, <1>9, <1>10
<1>12. l = r
  BY <1>8, <1>9, <1>11, SeqEqual
<1> QED BY <1>2, <1>6, <1>12

LEMMA LinesType ==
    ASSUME FilesInv, phase # "idle", NEW d \in DOMAIN stages
    PROVE  /\ Lines(d) \in Seq(Line) /\ Len(Lines(d)) = Len(stages[d].cmds)
           /\ \A j \in DOMAIN stages[d].cmds : Lines(d)[j] = <<stages[d].cmds[j].op, stages[d].name>>
<1>1. Len(stages[d].cmds) \in Nat /\ DOMAIN stages[d].cmds = 1..Len(stages[d].cmds)
  BY LabelsAtType
<1>2. stages[d].name \in Word /\ stages[d].cmds \in Seq(Command)
  BY StageType DEF FilesInv, TypeOK
<1>3. \A j \in DOMAIN stages[d].cmds : stages[d].cmds[j].op \in {"CMD", "LABEL", "FILE"}
  <2>1. \A c \in Command : c.op \in {"CMD", "LABEL", "FILE"}
    BY DEF Command, Cmds
  <2> QED BY <1>2, <2>1
<1>4. ASSUME NEW j \in DOMAIN stages[d].cmds PROVE <<stages[d].cmds[j].op, stages[d].name>> \in Line
  <2>1. PICK o, w : o = stages[d].cmds[j].op /\ w = stages[d].name
    OBVIOUS
  <2>2. o \in {"CMD", "LABEL", "FILE"} \cup Word /\ w \in {"CMD", "LABEL", "FILE"} \cup Word
    BY <1>2, <1>3, <2>1
  <2> QED BY <2>1, <2>2 DEF Line
<1> HIDE DEF Line
<1>5. Lines(d) = [j \in 1..Len(stages[d].cmds) |-> <<stages[d].cmds[j].op, stages[d].name>>]
  BY <1>1 DEF Lines
<1>6. PICK q, n : q = Lines(d) /\ n = Len(stages[d].cmds)
  OBVIOUS
<1>7. \A j \in 1..n : <<stages[d].cmds[j].op, stages[d].name>> \in Line
  BY <1>1, <1>4, <1>6
<1>8. q \in Seq(Line) /\ Len(q) = n
  <2>1. q \in [1..n -> Line] /\ n \in Nat
    BY <1>1, <1>5, <1>6, <1>7
  <2> QED BY <2>1, FunctionIsSeq
<1>9. \A j \in DOMAIN stages[d].cmds : Lines(d)[j] = <<stages[d].cmds[j].op, stages[d].name>>
  BY <1>1, <1>5
<1> QED BY <1>6, <1>8, <1>9

LEMMA HistoryFromType ==
    ASSUME FilesInv, HeapTypeOK, NEW d \in DOMAIN stages, phase = "idle" \/ Resolved(d), NEW W,
           BaseOf(d) # 0 => W[BaseOf(d)] \in Seq(Line)
    PROVE  phase # "idle" => HistoryFrom(d, W) \in Seq(Line)
<1>1. <<>> \in Seq(Line)
  OBVIOUS
<1>2. phase # "idle" /\ FromRegistry(d) => registry[stages[d].base].history \in Seq(Line)
  BY DEF HeapTypeOK
<1> QED BY <1>1, <1>2 DEF HistoryFrom

\* A command of the chain is dispatched.
LEMMA ChainGoesOn ==
    ASSUME FilesInv, FilesInv', HeapTypeOK, phase = "dispatch", phase' = "dispatch", UNCHANGED <<registry, recipe>>, s' = s,
           k \in DOMAIN stages[s].cmds, k' = k + 1, NEW C, IsChain(C), s \in C,
           HistoryOf(image[s].history)' = Append(HistoryOf(image[s].history), Lines(s)[k]),
           NEW c, c = stages[s].cmds[k],
           c.op = "LABEL" => LabelsOf(image[s])' = Over(Only(c.key, c.value), LabelsOf(image[s])),
           c.op # "LABEL" => LabelsOf(image[s])' = LabelsOf(image[s])
    PROVE  /\ RootKept(C)'
           /\ \A L : LatestLabels(C, L) => LatestLabels(C, L)' /\ Described(L)'
           /\ \A W : AreWritten(W) /\ LatestHistory(C, W) => LatestHistory(C, W)'
<1>1. /\ Len(stages) \in Nat /\ DOMAIN stages = 1..Len(stages) /\ C \in SUBSET (1..Len(stages)) /\ s \in DOMAIN stages
      /\ \A d \in DOMAIN stages : BaseOf(d) # 0 => BaseOf(d) \in DOMAIN stages
  BY ChainType
<1>2. Len(stages[s].cmds) \in Nat /\ k \in 1..Len(stages[s].cmds) /\ k # 0 /\ k - 1 \in Nat /\ (k - 1) + 1 = k
  <2>1. Len(stages[s].cmds) \in Nat /\ DOMAIN stages[s].cmds = 1..Len(stages[s].cmds)
    BY <1>1, LabelsAtType
  <2> QED BY <2>1
<1>3. (\A d : Latest(C, d) <=> d = s) /\ \A d \in C : ~(d <= s) => BaseOf(d) # 0
  BY <1>2, DispatchedIsLatest
<1>4. \A d \in C : Entered(d)' <=> d <= s
  <2>1. \A d \in C : d \in Nat
    BY <1>1
  <2>2. k' # 0
    BY <1>2
  <2>3. \A d \in C : Entered(d)' <=> d < s \/ d = s
    BY <2>2 DEF Entered, Late
  <2> QED BY <2>1, <2>3
<1>5. \A d \in C : BaseOf(d)' = BaseOf(d)
  BY <1>1, StagesKeepShape
<1>6. RootKept(C)'
  BY <1>3, <1>4, <1>5 DEF RootKept
<1>7. \A d : Latest(C, d)' => d = s
  <2> SUFFICES ASSUME NEW d, Latest(C, d)' PROVE d = s
    OBVIOUS
  <2>1. d \in C /\ d <= s /\ s <= d
    BY <1>1, <1>4 DEF Latest
  <2> QED BY <1>1, <2>1
<1>8. Done(s) = k - 1 /\ Done(s)' = k
  BY <1>2 DEF Done
<1>9. ASSUME NEW L, LatestLabels(C, L) PROVE LatestLabels(C, L)'
  <2> SUFFICES Labelling(LabelsOf(image[s]), s, Done(s), LabelsFrom(s, L))'
    BY <1>7, Zenon DEF LatestLabels
  <2>1. PICK m, new, under : m = LabelsOf(image[s]) /\ new = LabelsOf(image[s])' /\ under = LabelsFrom(s, L)
    OBVIOUS
  <2>2. Labelling(m, s, k - 1, under)
    BY <1>3, <1>8, <1>9, <2>1 DEF LatestLabels
  <2>3. k \in LabelsAt(s) <=> c.op = "LABEL"
    BY DEF LabelsAt
  <2>4. PICK n \in Nat : n = k - 1 /\ n + 1 = k
    BY <1>2
  <2>5. CASE c.op = "LABEL"
    <3>1. Labelling(Over(Only(c.key, c.value), m), s, n + 1, under)
      BY <1>1, <2>2, <2>3, <2>4, <2>5, LabellingGoesOn
    <3> QED BY <1>1, <1>8, <2>1, <2>4, <2>5, <3>1, ChainStays
  <2>6. CASE c.op # "LABEL"
    <3>1. Labelling(m, s, n + 1, under)
      BY <1>1, <2>2, <2>3, <2>4, <2>6, LabellingSkips
    <3> QED BY <1>1, <1>8, <2>1, <2>4, <2>6, <3>1, ChainStays
  <2> QED BY <2>5, <2>6
<1>10. \A L : Described(L)'
  BY DEF Described
<1>11. ASSUME NEW W, AreWritten(W), LatestHistory(C, W) PROVE LatestHistory(C, W)'
  <2>1. PICK f, g, h : f = HistoryFrom(s, W) /\ g = Lines(s) /\ h = HistoryOf(image[s].history)
    OBVIOUS
  <2>2. h = f \o SubSeq(g, 1, k - 1)
    BY <1>3, <1>8, <1>11, <2>1 DEF LatestHistory
  <2>3. f \in Seq(Line)
    <3>1. W \in [DOMAIN stages -> Seq(Line)]
      BY <1>11 DEF AreWritten
    <3>2. BaseOf(s) # 0 => W[BaseOf(s)] \in Seq(Line)
      BY <1>1, <3>1
    <3>3. Resolved(s)
      BY DEF Resolved
    <3> QED BY <1>1, <2>1, <3>2, <3>3, HistoryFromType
  <2>4. g \in Seq(Line) /\ k \in 1..Len(g)
    BY <1>1, <1>2, <2>1, LinesType
  <2>5. Append(h, g[k]) = f \o SubSeq(g, 1, k)
    BY <2>2, <2>3, <2>4, Prolonged
  <2>6. f = HistoryFrom(s, W)' /\ g = Lines(s)'
    <3>1. Lines(s)' = Lines(s)
      BY <1>1, StagesKeepShape
    <3>2. HistoryFrom(s, W)' = HistoryFrom(s, W)
      BY <1>1, ChainStays
    <3> QED BY <2>1, <3>1, <3>2
  <2>7. HistoryOf(image[s].history)' = HistoryFrom(s, W)' \o SubSeq(Lines(s)', 1, Done(s)')
    BY <1>8, <2>1, <2>5, <2>6
  <2> QED BY <1>7, <2>7 DEF LatestHistory
<1> QED BY <1>6, <1>9, <1>10, <1>11

(* A command of a stage writes its label and its line *)

\* b has e behind the first n of a.
Follows(a, b, n, e) ==
    /\ a \in Seq(Line) /\ b \in Seq(Line) /\ n \in Nat /\ e \in Line
    /\ n <= Len(a) /\ n + 1 <= Len(b) /\ b[n + 1] = e
    /\ \A j \in 1..n : b[j] = a[j]

Grows(a, b, n, e) == SubSeq(b, 1, n + 1) = Append(SubSeq(a, 1, n), e)

LEMMA GrowsByOne ==
    ASSUME NEW a, NEW b, NEW n, NEW e, Follows(a, b, n, e)
    PROVE  Grows(a, b, n, e)
<1> DEFINE S == Line
<1>0. /\ a \in Seq(S) /\ b \in Seq(S) /\ n \in Nat /\ e \in S
      /\ n <= Len(a) /\ n + 1 <= Len(b) /\ b[n + 1] = e
      /\ \A j \in 1..n : b[j] = a[j]
  BY DEF Follows
<1> HIDE DEF S
<1>1. PICK p, q : p = SubSeq(a, 1, n) /\ q = SubSeq(b, 1, n + 1)
  OBVIOUS
<1>2. p \in Seq(S) /\ Len(p) = n /\ \A j \in 1..n : p[j] = a[j]
  BY <1>0, <1>1
<1>3. q \in Seq(S) /\ Len(q) = n + 1 /\ \A j \in 1..(n + 1) : q[j] = b[j]
  BY <1>0, <1>1
<1>4. PICK r : r = Append(p, e)
  OBVIOUS
<1>5. r \in Seq(S) /\ Len(r) = n + 1 /\ (\A j \in 1..n : r[j] = p[j]) /\ r[n + 1] = e
  BY <1>0, <1>2, <1>4, AppendProperties
<1>6. \A j \in 1..(n + 1) : q[j] = r[j]
  <2> SUFFICES ASSUME NEW j \in 1..(n + 1) PROVE q[j] = r[j]
    OBVIOUS
  <2>1. q[j] = b[j]
    BY <1>3
  <2>2. CASE j = n + 1
    BY <1>0, <1>5, <2>1, <2>2, Zenon
  <2>3. CASE j \in 1..n
    BY <1>0, <1>2, <1>5, <2>1, <2>3, Zenon
  <2>4. j = n + 1 \/ j \in 1..n
    BY <1>0
  <2> QED BY <2>2, <2>3, <2>4
<1>7. q = r
  BY <1>3, <1>5, <1>6, SeqEqual
<1> QED BY <1>1, <1>4, <1>7 DEF Grows

LEMMA GrownIs ==
    ASSUME NEW a \in Seq(Line), NEW e \in Line
    PROVE  /\ Grown(a, e) \in Seq(Line) /\ Len(a) + 1 <= Len(Grown(a, e))
           /\ (\A j \in 1..Len(a) : Grown(a, e)[j] = a[j]) /\ Grown(a, e)[Len(a) + 1] = e
<1>1. <<>> \in Line
  BY DEF Line
<1> HIDE DEF Line
<1>2. PICK n : n = IF a = <<>> THEN 1 ELSE 2 * Len(a)
  OBVIOUS
<1>3. n \in Nat /\ Len(a) \in Nat /\ Len(a) + 1 <= n
  BY <1>2
<1>4. PICK g : g = [j \in 1..n |-> IF j <= Len(a) THEN a[j] ELSE IF j = Len(a) + 1 THEN e ELSE <<>>]
  OBVIOUS
<1>5. g \in [1..n -> Line]
  BY <1>1, <1>3, <1>4
<1>6. g \in Seq(Line) /\ Len(g) = n
  BY <1>3, <1>5, FunctionIsSeq
<1>7. (\A j \in 1..Len(a) : g[j] = a[j]) /\ g[Len(a) + 1] = e
  BY <1>3, <1>4
<1>8. g = Grown(a, e)
  BY <1>2, <1>4 DEF Grown
<1> QED BY <1>3, <1>6, <1>7, <1>8

LEMMA Committed ==
    ASSUME FilesInv, HeapTypeOK, phase # "idle", NEW d0 \in DOMAIN stages, NEW img, IsImage(img),
           img.history = image[d0].history, NEW e \in Line, CommitToHistory(d0, img, e)
    PROVE  /\ arrays' \in Seq(Seq(Line)) /\ Len(arrays) <= Len(arrays')
           /\ \A j \in 1..Len(arrays) :
                  Len(arrays'[j]) = Len(arrays[j]) /\ (j # image[d0].history.array => arrays'[j] = arrays[j])
           /\ image'[d0].history = [array |-> image'[d0].history.array, len |-> image'[d0].history.len]
           /\ image'[d0].history.array \in {image[d0].history.array, Len(arrays) + 1}
           /\ image'[d0].history.array <= Len(arrays')
           /\ image'[d0].history.len \in 0..Len(ArrayOf(image[d0].history)')
           /\ image'[d0].labels = img.labels
           /\ \A d \in DOMAIN stages : d # d0 => image'[d] = image[d]
           /\ HistoryOf(image[d0].history)' = Append(HistoryOf(image[d0].history), e)
<1>1. PICK h, a, n : h = image[d0].history /\ a = h.array /\ n = h.len
  OBVIOUS
<1>2. /\ arrays \in Seq(Seq(Line)) /\ Len(arrays) \in Nat
      /\ h = [array |-> a, len |-> n] /\ a \in 0..Len(arrays) /\ n \in 0..Len(ArrayOf(h))
  <2>1. arrays \in Seq(Seq(Line))
    BY DEF HeapTypeOK
  <2>2. Len(arrays) \in Nat
    BY <2>1
  <2>3. /\ image[d0].history = [array |-> image[d0].history.array, len |-> image[d0].history.len]
        /\ image[d0].history.array \in 0..Len(arrays)
        /\ image[d0].history.len \in 0..Len(ArrayOf(image[d0].history))
    BY DEF HeapTypeOK
  <2> QED BY <1>1, <2>1, <2>2, <2>3
<1>3. PICK was : was = ArrayOf(h)
  OBVIOUS
<1>4. was \in Seq(Line) /\ Len(was) \in Nat /\ (a # 0 => a \in 1..Len(arrays) /\ was = arrays[a]) /\ (a = 0 => was = <<>>)
  <2>1. a # 0 => a \in 1..Len(arrays)
    BY <1>2
  <2>2. was = IF a = 0 THEN <<>> ELSE arrays[a]
    BY <1>1, <1>3 DEF ArrayOf
  <2>3. was \in Seq(Line)
    BY <1>2, <2>1, <2>2
  <2> QED BY <2>1, <2>2, <2>3
<1>5. n \in Nat /\ n <= Len(was)
  BY <1>2, <1>3, <1>4
<1>6. image = [d \in DOMAIN stages |-> image[d]]
  BY DEF FilesInv, TypeOK
<1>7. PICK lb, cm, fs, sz : img = [labels |-> lb, history |-> h, cmd |-> cm, files |-> fs, size |-> sz]
  <2>1. img = [labels |-> img.labels, history |-> img.history, cmd |-> img.cmd, files |-> img.files, size |-> img.size]
    BY Zenon DEF IsImage
  <2> QED BY <1>1, <2>1
<1>8. img.labels = lb /\ img.history = h
  BY <1>7
<1>9. CASE n < Len(was)
  <2>1. a \in 1..Len(arrays) /\ was = arrays[a] /\ n + 1 \in 1..Len(was)
    BY <1>4, <1>5, <1>9
  <2>2. arrays' = [arrays EXCEPT ![a][n + 1] = e] /\ image' = [image EXCEPT ![d0] = [img EXCEPT !.history.len = n + 1]]
    BY <1>1, <1>3, <1>8, <1>9 DEF CommitToHistory
  <2>3. PICK new : new = [was EXCEPT ![n + 1] = e]
    OBVIOUS
  <2>4. new \in Seq(Line) /\ Len(new) = Len(was) /\ new[n + 1] = e /\ \A j \in 1..n : new[j] = was[j]
    BY <1>4, <1>5, <2>1, <2>3
  <2>5. arrays' = [arrays EXCEPT ![a] = new]
    BY <1>2, <2>1, <2>2, <2>3
  <2>6. /\ arrays' \in Seq(Seq(Line)) /\ Len(arrays') = Len(arrays) /\ arrays'[a] = new
        /\ \A j \in 1..Len(arrays) : j # a => arrays'[j] = arrays[j]
    BY <1>2, <2>1, <2>4, <2>5
  <2>7. PICK im : im = [labels |-> lb, history |-> [array |-> a, len |-> n + 1], cmd |-> cm, files |-> fs, size |-> sz]
    OBVIOUS
  <2>8. [img EXCEPT !.history.len = n + 1] = im
    BY <1>2, <1>7, <2>7
  <2>9. image'[d0] = im /\ \A d \in DOMAIN stages : d # d0 => image'[d] = image[d]
    BY <1>6, <2>2, <2>8
  <2>10. im.labels = lb /\ im.history = [array |-> a, len |-> n + 1]
    BY <2>7
  <2>11. image'[d0].labels = lb /\ image'[d0].history = [array |-> a, len |-> n + 1]
    BY <2>9, <2>10
  <2>12. ArrayOf(image[d0].history)' = new
    BY <2>1, <2>6, <2>11 DEF ArrayOf
  <2>13. HistoryOf(image[d0].history)' = SubSeq(new, 1, n + 1) /\ HistoryOf(image[d0].history) = SubSeq(was, 1, n)
    <3>1. image'[d0].history.len = n + 1
      BY <2>11
    <3>2. HistoryOf(image[d0].history)' = SubSeq(new, 1, n + 1)
      BY <2>12, <3>1 DEF HistoryOf
    <3>3. HistoryOf(image[d0].history) = SubSeq(was, 1, n)
      BY <1>1, <1>3 DEF HistoryOf
    <3> QED BY <3>2, <3>3
  <2>14. SubSeq(new, 1, n + 1) = Append(SubSeq(was, 1, n), e)
    <3>1. n + 1 <= Len(new)
      BY <1>4, <1>5, <1>9, <2>4
    <3>2. /\ was \in Seq(Line) /\ new \in Seq(Line) /\ n \in Nat /\ e \in Line
          /\ n <= Len(was) /\ n + 1 <= Len(new) /\ new[n + 1] = e
      BY <1>4, <1>5, <2>4, <3>1
    <3>3. Follows(was, new, n, e)
      BY <2>4, <3>2, Zenon DEF Follows
    <3>4. Grows(was, new, n, e)
      BY <3>3, GrowsByOne, Zenon
    <3> QED BY <3>4, Zenon DEF Grows
  <2>15. \A j \in 1..Len(arrays) : Len(arrays'[j]) = Len(arrays[j])
    BY <2>1, <2>4, <2>6
  <2>16. image'[d0].history.array = a /\ image'[d0].history.len = n + 1
    BY <2>11
  <2>17. a <= Len(arrays') /\ n + 1 \in 0..Len(new)
    BY <1>2, <1>4, <1>5, <2>1, <2>4, <2>6
  <2>18. h = image[d0].history
    BY <1>1
  <2>19. HistoryOf(image[d0].history)' = Append(HistoryOf(image[d0].history), e)
    BY <2>13, <2>14
  <2>20. image[d0].history.array = a
    BY <1>1
  <2> QED BY <1>2, <1>8, <2>6, <2>9, <2>11, <2>12, <2>15, <2>16, <2>17, <2>19, <2>20
<1>10. CASE ~(n < Len(was))
  <2>1. n = Len(was)
    BY <1>4, <1>5, <1>10
  <2>2. PICK new, b : new = Grown(was, e) /\ b = Len(arrays) + 1
    OBVIOUS
  <2>3. /\ arrays' = Append(arrays, new)
        /\ image' = [image EXCEPT ![d0] = [img EXCEPT !.history = [array |-> b, len |-> n + 1]]]
    BY <1>1, <1>3, <1>8, <1>10, <2>2 DEF CommitToHistory
  <2>4. new \in Seq(Line) /\ n + 1 <= Len(new) /\ new[n + 1] = e /\ \A j \in 1..n : new[j] = was[j]
    BY <1>4, <2>1, <2>2, GrownIs
  <2>5. /\ arrays' \in Seq(Seq(Line)) /\ Len(arrays') = b /\ arrays'[b] = new
        /\ \A j \in 1..Len(arrays) : arrays'[j] = arrays[j]
    BY <1>2, <2>2, <2>3, <2>4
  <2>6. PICK im : im = [labels |-> lb, history |-> [array |-> b, len |-> n + 1], cmd |-> cm, files |-> fs, size |-> sz]
    OBVIOUS
  <2>7. [img EXCEPT !.history = [array |-> b, len |-> n + 1]] = im
    BY <1>7, <2>6
  <2>8. image'[d0] = im /\ \A d \in DOMAIN stages : d # d0 => image'[d] = image[d]
    BY <1>6, <2>3, <2>7
  <2>9. im.labels = lb /\ im.history = [array |-> b, len |-> n + 1]
    BY <2>6
  <2>10. image'[d0].labels = lb /\ image'[d0].history = [array |-> b, len |-> n + 1]
    BY <2>8, <2>9
  <2>11. b # 0 /\ b \in Nat
    BY <1>2, <2>2
  <2>12. ArrayOf(image[d0].history)' = new
    BY <2>5, <2>10, <2>11 DEF ArrayOf
  <2>13. HistoryOf(image[d0].history)' = SubSeq(new, 1, n + 1) /\ HistoryOf(image[d0].history) = SubSeq(was, 1, n)
    <3>1. image'[d0].history.len = n + 1
      BY <2>10
    <3>2. HistoryOf(image[d0].history)' = SubSeq(new, 1, n + 1)
      BY <2>12, <3>1 DEF HistoryOf
    <3>3. HistoryOf(image[d0].history) = SubSeq(was, 1, n)
      BY <1>1, <1>3 DEF HistoryOf
    <3> QED BY <3>2, <3>3
  <2>14. SubSeq(new, 1, n + 1) = Append(SubSeq(was, 1, n), e)
    <3>1. /\ was \in Seq(Line) /\ new \in Seq(Line) /\ n \in Nat /\ e \in Line
          /\ n <= Len(was) /\ n + 1 <= Len(new) /\ new[n + 1] = e
      BY <1>4, <1>5, <2>4
    <3>2. Follows(was, new, n, e)
      BY <2>4, <3>1, Zenon DEF Follows
    <3>3. Grows(was, new, n, e)
      BY <3>2, GrowsByOne, Zenon
    <3> QED BY <3>3, Zenon DEF Grows
  <2>15. \A j \in 1..Len(arrays) : Len(arrays'[j]) = Len(arrays[j])
    BY <2>5
  <2>16. image'[d0].history.array = b /\ image'[d0].history.len = n + 1
    BY <2>10
  <2>17. Len(arrays) <= Len(arrays') /\ b <= Len(arrays') /\ n + 1 \in 0..Len(new)
    BY <1>2, <1>5, <2>2, <2>4, <2>5, <2>11
  <2>18. HistoryOf(image[d0].history)' = Append(HistoryOf(image[d0].history), e)
    BY <2>13, <2>14
  <2> QED BY <1>8, <2>2, <2>5, <2>8, <2>10, <2>12, <2>15, <2>16, <2>17, <2>18
<1> QED BY <1>9, <1>10

LEMMA LabelsWritten ==
    ASSUME HeapTypeOK, phase # "idle", NEW d0 \in DOMAIN stages, NEW new, NEW ref,
           ref = IF image[d0].labels = 0 THEN Len(maps) + 1 ELSE image[d0].labels,
           image[d0].labels = 0 => IsAppend(maps', maps, new),
           image[d0].labels # 0 => IsExcept(maps', maps, ref, new),
           image'[d0].labels = ref
    PROVE  /\ maps' \in Own(maps)' /\ Len(maps) <= Len(maps')
           /\ \A j \in 1..Len(maps) : j # image[d0].labels => maps'[j] = maps[j]
           /\ image'[d0].labels \in {image[d0].labels, Len(maps) + 1} /\ image'[d0].labels <= Len(maps')
           /\ image'[d0].labels # 0
           /\ LabelsOf(image[d0])' = new
<1>1. maps \in Own(maps)
  BY DEF HeapTypeOK, Own
<1>2. Len(maps) \in Nat
  BY <1>1, OwnType
<1>3. image[d0].labels \in 0..Len(maps)
  BY DEF HeapTypeOK
<1>4. CASE image[d0].labels = 0
  <2>1. IsAppend(maps', maps, new) /\ ref = Len(maps) + 1
    BY <1>4
  <2>2. maps' \in Own(maps') /\ Len(maps') = Len(maps) + 1 /\ maps'[Len(maps) + 1] = new /\ \A j \in 1..Len(maps) : maps'[j] = maps[j]
    BY <1>1, <2>1, OwnAppend
  <2>3. ref # 0 /\ maps'[ref] = new /\ Len(maps) <= Len(maps') /\ ref <= Len(maps')
    BY <1>2, <2>1, <2>2
  <2>4. LabelsOf(image[d0])' = new
    BY <2>3 DEF LabelsOf
  <2> QED BY <2>1, <2>2, <2>3, <2>4 DEF Own
<1>5. CASE image[d0].labels # 0
  <2>1. IsExcept(maps', maps, ref, new) /\ ref = image[d0].labels /\ ref \in 1..Len(maps)
    BY <1>2, <1>3, <1>5
  <2>2. maps' \in Own(maps') /\ Len(maps') = Len(maps) /\ maps'[ref] = new /\ \A j \in 1..Len(maps) : j # ref => maps'[j] = maps[j]
    <3>1. ref \in 1..Len(maps)
      BY <2>1
    <3>2. IsExcept(maps', maps, ref, new)
      BY <2>1
    <3>3. \A q, x, h, more : q \in Own(q) /\ h \in 1..Len(q) /\ IsExcept(more, q, h, x) =>
              /\ more \in Own(more) /\ Len(more) = Len(q) /\ more[h] = x
              /\ \A j \in 1..Len(q) : j # h => more[j] = q[j]
      BY OwnExcept
    <3> QED BY <1>1, <3>1, <3>2, <3>3
  <2>3. ref # 0 /\ Len(maps) <= Len(maps') /\ ref <= Len(maps')
    BY <1>2, <2>1, <2>2
  <2>4. LabelsOf(image[d0])' = new
    BY <2>2, <2>3 DEF LabelsOf
  <2> QED BY <2>1, <2>2, <2>3, <2>4 DEF Own
<1> QED BY <1>4, <1>5

LEMMA CommandKeepsHeap ==
    ASSUME FilesInv, FilesInv', HeapInv, phase = "dispatch", phase' = "dispatch", UNCHANGED <<registry, recipe>>, s' = s,
           k \in DOMAIN stages[s].cmds, k' = k + 1, WritesFor(s),
           HistoryOf(image[s].history)' = Append(HistoryOf(image[s].history), Lines(s)[k]),
           NEW c, c = stages[s].cmds[k],
           c.op = "LABEL" => LabelsOf(image[s])' = Over(Only(c.key, c.value), LabelsOf(image[s])),
           c.op # "LABEL" => LabelsOf(image[s])' = LabelsOf(image[s])
    PROVE  HeapInv'
<1>1. s \in DOMAIN stages
  BY DEF FilesInv, TypeOK
<1>2. \A d : Resolved(d) /\ Resolved(d)'
  BY DEF Resolved
<1>3. HeapTypeOK'
  BY <1>1, <1>2, WritesKeepTypes
<1>4. HeapTypeOK
  BY DEF HeapInv
<1>5. ASSUME NEW C, IsChain(C), Separate(C), RootKept(C)
      PROVE  /\ Separate(C)' /\ RootKept(C)'
             /\ \A L : AreLabels(L) /\ LatestLabels(C, L) /\ Described(L) => LatestLabels(C, L)' /\ Described(L)'
             /\ \A W : AreWritten(W) /\ LatestHistory(C, W) => LatestHistory(C, W)'
  <2>1. Separate(C)'
    BY <1>1, <1>5, WritesKeepApart
  <2>2. CASE s \in C
    BY <1>4, <1>5, <2>1, <2>2, ChainGoesOn
  <2>3. CASE s \notin C
    <3>1. \A d \in C : /\ LabelsOf(image[d])' = LabelsOf(image[d])
                       /\ HistoryOf(image[d].history)' = HistoryOf(image[d].history)
      BY <1>1, <1>5, <2>3, WritesKeepApart
    <3> QED BY <1>5, <2>1, <2>3, <3>1, ChainRests
  <2> QED BY <2>2, <2>3
<1>6. \A C : IsChain(C) /\ Separate(C) /\ RootKept(C) =>
          /\ Separate(C)' /\ RootKept(C)'
          /\ \A L : AreLabels(L) /\ LatestLabels(C, L) /\ Described(L) => LatestLabels(C, L)' /\ Described(L)'
          /\ \A W : AreWritten(W) /\ LatestHistory(C, W) => LatestHistory(C, W)'
  BY <1>5
<1> QED BY <1>3, <1>6, HeapSteps

LEMMA DispatchKeepsHeap ==
    ASSUME FilesInv, FilesInv', HeapInv, DispatchLabel \/ DispatchFile \/ DispatchCmd
    PROVE  HeapInv'
<1>1. /\ phase = "dispatch" /\ phase' = "dispatch" /\ UNCHANGED <<registry, recipe>> /\ s' = s
      /\ s \in DOMAIN stages /\ k \in DOMAIN stages[s].cmds /\ k' = k + 1
  BY DEF DispatchLabel, DispatchFile, DispatchCmd, AtCmd, AtCommand
<1>2. PICK c, name, ref : c = stages[s].cmds[k] /\ name = stages[s].name /\ ref = IF image[s].labels = 0 THEN Len(maps) + 1 ELSE image[s].labels
  OBVIOUS
<1>3. PICK img : /\ img = IF DispatchLabel THEN [image[s] EXCEPT !.labels = ref] ELSE image[s]
                 /\ CommitToHistory(s, img, <<c.op, name>>)
                 /\ DispatchLabel <=> c.op = "LABEL"
                 /\ DispatchLabel => maps' = IF image[s].labels = 0 THEN Append(maps, Only(c.key, c.value))
                                             ELSE [maps EXCEPT ![ref] = Over(Only(c.key, c.value), @)]
                 /\ ~DispatchLabel => maps' = maps
  <2>1. CASE DispatchLabel
    <3>1. c.op = "LABEL" /\ CommitToHistory(s, [image[s] EXCEPT !.labels = ref], <<"LABEL", name>>)
          /\ maps' = IF image[s].labels = 0 THEN Append(maps, Only(c.key, c.value))
                     ELSE [maps EXCEPT ![ref] = Over(Only(c.key, c.value), @)]
      BY <1>2, <2>1 DEF DispatchLabel
    <3> QED BY <2>1, <3>1
  <2>2. CASE ~DispatchLabel /\ DispatchFile
    <3>1. c.op = "FILE" /\ CommitToHistory(s, image[s], <<"FILE", name>>) /\ maps' = maps
      BY <1>2, <2>2 DEF DispatchFile
    <3> QED BY <2>2, <3>1
  <2>3. CASE ~DispatchLabel /\ DispatchCmd
    <3>1. c.op = "CMD" /\ CommitToHistory(s, image[s], <<"CMD", name>>) /\ maps' = maps
      BY <1>2, <2>3 DEF DispatchCmd, AtCmd
    <3> QED BY <2>3, <3>1
  <2> QED BY <2>1, <2>2, <2>3
<1>4. IsImage(image[s]) /\ HeapTypeOK
  BY <1>1 DEF FilesInv, TypeOK, HeapInv
<1>5. IsImage(img) /\ img.history = image[s].history /\ img.labels = IF DispatchLabel THEN ref ELSE image[s].labels
  <2>1. CASE DispatchLabel
    <3>1. img = [image[s] EXCEPT !.labels = ref]
      BY <1>3, <2>1
    <3>2. IsImage(img) /\ img.history = image[s].history /\ img.labels = ref
      BY <1>4, <3>1, ImageFields
    <3> QED BY <2>1, <3>2
  <2>2. CASE ~DispatchLabel
    BY <1>3, <1>4, <2>2
  <2> QED BY <2>1, <2>2
<1>6. <<c.op, name>> = Lines(s)[k] /\ Lines(s)[k] \in Line
  <2>1. k \in 1..Len(Lines(s)) /\ Lines(s) \in Seq(Line)
    <3>1. DOMAIN stages[s].cmds = 1..Len(stages[s].cmds)
      BY <1>1, LabelsAtType
    <3> QED BY <1>1, <3>1, LinesType
  <2> QED BY <1>1, <1>2, <2>1, LinesType
<1>7. PICK e \in Line : e = Lines(s)[k] /\ CommitToHistory(s, img, e)
  BY <1>3, <1>6
<1>8. /\ arrays' \in Seq(Seq(Line)) /\ Len(arrays) <= Len(arrays')
      /\ \A j \in 1..Len(arrays) :
             Len(arrays'[j]) = Len(arrays[j]) /\ (j # image[s].history.array => arrays'[j] = arrays[j])
      /\ image'[s].history = [array |-> image'[s].history.array, len |-> image'[s].history.len]
      /\ image'[s].history.array \in {image[s].history.array, Len(arrays) + 1}
      /\ image'[s].history.array <= Len(arrays')
      /\ image'[s].history.len \in 0..Len(ArrayOf(image[s].history)')
      /\ image'[s].labels = img.labels
      /\ \A d \in DOMAIN stages : d # s => image'[d] = image[d]
      /\ HistoryOf(image[s].history)' = Append(HistoryOf(image[s].history), e)
  BY <1>1, <1>4, <1>5, <1>7, Committed
<1>9. HistoryOf(image[s].history)' = Append(HistoryOf(image[s].history), Lines(s)[k])
  BY <1>7, <1>8
<1>10. /\ maps' \in Own(maps)' /\ Len(maps) <= Len(maps')
       /\ \A j \in 1..Len(maps) : j # image[s].labels => maps'[j] = maps[j]
       /\ image'[s].labels \in {image[s].labels, Len(maps) + 1} /\ image'[s].labels <= Len(maps')
       /\ c.op = "LABEL" => LabelsOf(image[s])' = Over(Only(c.key, c.value), LabelsOf(image[s]))
       /\ c.op # "LABEL" => LabelsOf(image[s])' = LabelsOf(image[s])
  <2>1. CASE DispatchLabel
    <3>1. PICK new : new = Over(Only(c.key, c.value), LabelsOf(image[s]))
      OBVIOUS
    <3>2. image'[s].labels = ref
      BY <1>5, <1>8, <2>1
    <3>3. image[s].labels = 0 => new = Only(c.key, c.value)
      <4> SUFFICES ASSUME image[s].labels = 0 PROVE Over(Only(c.key, c.value), LabelsOf(image[s])) = Only(c.key, c.value)
        BY <3>1
      <4>1. LabelsOf(image[s]) = NoLabels /\ DOMAIN NoLabels = {}
        BY DEF LabelsOf, NoLabels
      <4> QED BY <4>1 DEF Over, Only
    <3>4. image[s].labels # 0 => LabelsOf(image[s]) = maps[ref]
      BY <1>2 DEF LabelsOf
    <3>5. /\ image[s].labels = 0 => IsAppend(maps', maps, new)
          /\ image[s].labels # 0 => IsExcept(maps', maps, ref, new)
      BY <1>3, <2>1, <3>1, <3>3, <3>4 DEF IsAppend, IsExcept
    <3>6. /\ maps' \in Own(maps)' /\ Len(maps) <= Len(maps')
          /\ \A j \in 1..Len(maps) : j # image[s].labels => maps'[j] = maps[j]
          /\ image'[s].labels \in {image[s].labels, Len(maps) + 1} /\ image'[s].labels <= Len(maps')
          /\ LabelsOf(image[s])' = new
      BY <1>1, <1>2, <1>4, <3>2, <3>5, LabelsWritten
    <3> QED BY <1>3, <2>1, <3>1, <3>6
  <2>2. CASE ~DispatchLabel
    <3>1. maps' = maps /\ image'[s].labels = image[s].labels /\ c.op # "LABEL"
      BY <1>3, <1>5, <1>8, <2>2
    <3>2. maps \in Own(maps) /\ image[s].labels \in 0..Len(maps)
      BY <1>1, <1>4 DEF HeapTypeOK, Own
    <3>3. Len(maps) \in Nat
      BY <3>2, OwnType
    <3>4. LabelsOf(image[s])' = LabelsOf(image[s])
      BY <1>1, <3>1 DEF LabelsOf
    <3>5. maps' \in Own(maps)'
      BY <3>1, <3>2
    <3> QED BY <3>1, <3>2, <3>3, <3>4, <3>5
  <2> QED BY <2>1, <2>2
<1>11. WritesFor(s)
  <2>1. \A d \in DOMAIN stages : d # s => image'[d].labels = image[d].labels /\ image'[d].history = image[d].history
    BY <1>8
  <2> QED BY <1>8, <1>10, <2>1 DEF WritesFor
<1> QED BY <1>1, <1>2, <1>9, <1>10, <1>11, CommandKeepsHeap

(* A stage gets an image from the registry *)

LEMMA ResolvedHeap ==
    ASSUME FilesInv, HeapTypeOK, phase # "idle", NEW d0 \in DOMAIN stages,
           image[d0].labels = 0, image[d0].history.array = 0,
           NEW img, img.history \in Seq(Line), NEW ref, NEW array,
           ref = IF img.labels = NoLabels THEN 0 ELSE Len(maps) + 1,
           array = IF img.history = <<>> THEN 0 ELSE Len(arrays) + 1,
           ref = 0 => maps' = maps, ref # 0 => IsAppend(maps', maps, img.labels),
           array = 0 => arrays' = arrays, array # 0 => IsAppend(arrays', arrays, Unmarshalled(img.history)),
           image'[d0].labels = ref, image'[d0].history = [array |-> array, len |-> Len(img.history)],
           \A d \in DOMAIN stages : d # d0 => image'[d] = image[d]
    PROVE  WritesFor(d0) /\ LabelsOf(image[d0])' = img.labels /\ HistoryOf(image[d0].history)' = img.history
<1>1. maps \in Own(maps) /\ arrays \in Seq(Seq(Line)) /\ Len(arrays) \in Nat
  <2>1. arrays \in Seq(Seq(Line))
    BY DEF HeapTypeOK
  <2> QED BY <2>1 DEF HeapTypeOK, Own
<1>2. Len(maps) \in Nat
  BY <1>1, OwnType
<1>3. /\ maps' \in Own(maps)' /\ Len(maps) <= Len(maps')
      /\ \A j \in 1..Len(maps) : maps'[j] = maps[j]
      /\ ref \in {0, Len(maps) + 1} /\ ref <= Len(maps')
      /\ LabelsOf(image[d0])' = img.labels
  <2>1. CASE img.labels = NoLabels
    <3>1. ref = 0 /\ maps' = maps
      BY <2>1
    <3>2. LabelsOf(image[d0])' = NoLabels
      BY <3>1 DEF LabelsOf
    <3> QED BY <1>1, <1>2, <2>1, <3>1, <3>2
  <2>2. CASE img.labels # NoLabels
    <3>1. ref = Len(maps) + 1 /\ ref # 0 /\ image'[d0].labels = ref
      BY <1>2, <2>2
    <3>2. ref = IF image[d0].labels = 0 THEN Len(maps) + 1 ELSE image[d0].labels
      BY <3>1
    <3>3. IsAppend(maps', maps, img.labels)
      BY <3>1
    <3>4. /\ maps' \in Own(maps)' /\ Len(maps) <= Len(maps')
          /\ \A j \in 1..Len(maps) : j # image[d0].labels => maps'[j] = maps[j]
          /\ image'[d0].labels <= Len(maps')
          /\ LabelsOf(image[d0])' = img.labels
      BY <3>1, <3>2, <3>3, LabelsWritten
    <3>5. \A j \in 1..Len(maps) : maps'[j] = maps[j]
      BY <1>2, <3>4
    <3> QED BY <3>1, <3>4, <3>5
  <2> QED BY <2>1, <2>2
<1>4. PICK h, n : h = img.history /\ n = Len(h) /\ h \in Seq(Line) /\ n \in Nat
  <2>1. Len(img.history) \in Nat
    OBVIOUS
  <2> QED BY <2>1
<1>5. /\ image'[d0].history.array = array /\ image'[d0].history.len = n
      /\ image'[d0].history = [array |-> image'[d0].history.array, len |-> image'[d0].history.len]
  BY <1>4
<1>6. /\ arrays' \in Seq(Seq(Line)) /\ Len(arrays) <= Len(arrays')
      /\ \A j \in 1..Len(arrays) : arrays'[j] = arrays[j]
      /\ array \in {0, Len(arrays) + 1} /\ array <= Len(arrays')
      /\ n \in 0..Len(ArrayOf(image[d0].history)')
      /\ HistoryOf(image[d0].history)' = h
  <2>1. CASE h = <<>>
    <3>1. array = 0 /\ arrays' = arrays /\ n = 0
      BY <1>4, <2>1
    <3>2. ArrayOf(image[d0].history)' = <<>>
      BY <1>5, <3>1 DEF ArrayOf
    <3>3. HistoryOf(image[d0].history)' = SubSeq(<<>>, 1, 0)
      BY <1>5, <3>1, <3>2 DEF HistoryOf
    <3>4. SubSeq(<<>>, 1, 0) = <<>> /\ Len(<<>>) = 0
      OBVIOUS
    <3> QED BY <1>1, <2>1, <3>1, <3>2, <3>3, <3>4
  <2>2. CASE h # <<>>
    <3>1. array = Len(arrays) + 1 /\ array # 0
      BY <1>1, <1>4, <2>2
    <3>2. PICK u : u = Unmarshalled(h)
      OBVIOUS
    <3>3. u \in Seq(Line) /\ n \in 0..Len(u) /\ SubSeq(u, 1, n) = h
      BY <1>4, <3>2, UnmarshalledIs
    <3>4. arrays' = Append(arrays, u)
      BY <1>4, <3>1, <3>2 DEF IsAppend
    <3>5. /\ arrays' \in Seq(Seq(Line)) /\ Len(arrays') = Len(arrays) + 1 /\ arrays'[Len(arrays) + 1] = u
          /\ \A j \in 1..Len(arrays) : arrays'[j] = arrays[j]
      BY <1>1, <3>3, <3>4, AppendProperties
    <3>6. ArrayOf(image[d0].history)' = u
      BY <1>5, <3>1, <3>5 DEF ArrayOf
    <3>7. HistoryOf(image[d0].history)' = SubSeq(u, 1, n)
      BY <1>5, <3>6 DEF HistoryOf
    <3>8. n \in 0..Len(ArrayOf(image[d0].history)') /\ HistoryOf(image[d0].history)' = h
      BY <3>3, <3>6, <3>7
    <3>9. Len(arrays) <= Len(arrays') /\ array <= Len(arrays')
      BY <1>1, <3>1, <3>5
    <3> QED BY <3>1, <3>5, <3>8, <3>9
  <2> QED BY <2>1, <2>2
<1>7. /\ \A d \in DOMAIN stages : d # d0 => image'[d].labels = image[d].labels /\ image'[d].history = image[d].history
      /\ \A j \in 1..Len(arrays) :
             Len(arrays'[j]) = Len(arrays[j]) /\ (j # image[d0].history.array => arrays'[j] = arrays[j])
  BY <1>6
<1>8. WritesFor(d0)
  BY <1>3, <1>5, <1>6, <1>7 DEF WritesFor
<1> QED BY <1>3, <1>4, <1>6, <1>8

LEMMA ResolveImageKeepsHeap == ASSUME FilesInv, FilesInv', HeapInv, ResolveImage PROVE HeapInv'
<1>1. /\ phase = "resolve" /\ UNCHANGED <<registry, recipe, stages>> /\ NextStage(0, "dispatch")
      /\ FromRegistry(s) /\ stages[s].base \in DOMAIN registry
  BY DEF ResolveImage
<1>2. PICK d0 \in DOMAIN stages : d0 = s
  BY <1>1 DEF FilesInv, TypeOK
<1>3. PICK img, ref, array :
          /\ img = registry[stages[d0].base]
          /\ ref = IF img.labels = NoLabels THEN 0 ELSE Len(maps) + 1
          /\ array = IF img.history = <<>> THEN 0 ELSE Len(arrays) + 1
          /\ maps' = IF ref = 0 THEN maps ELSE Append(maps, img.labels)
          /\ arrays' = IF array = 0 THEN arrays ELSE Append(arrays, Unmarshalled(img.history))
          /\ image' = [image EXCEPT ![d0] =
                 [labels |-> ref, history |-> [array |-> array, len |-> Len(img.history)],
                  cmd |-> img.cmd, files |-> img.files, size |-> img.size]]
  BY <1>2 DEF ResolveImage
<1>4. /\ s' \in DOMAIN stages /\ k' = 0 /\ Len(stages) \in Nat /\ DOMAIN stages = 1..Len(stages)
      /\ \/ s < Len(stages) /\ s' = s + 1 /\ phase' = "resolve"
         \/ s = Len(stages) /\ s' = 1 /\ phase' = "dispatch"
  <2>1. s' \in DOMAIN stages /\ k' = 0
        /\ \/ s < Len(stages) /\ s' = s + 1 /\ phase' = "resolve"
           \/ s = Len(stages) /\ s' = 1 /\ phase' = "dispatch"
    BY <1>1, NextStageType DEF FilesInv
  <2>2. stages \in Stages
    BY <1>1 DEF FilesInv, TypeOK
  <2> QED BY <2>1, <2>2, StageType
<1>5. /\ ~Resolved(d0) /\ Resolved(d0)'
      /\ \A d \in DOMAIN stages : (Resolved(d) => Resolved(d)') /\ (Resolved(d)' => Resolved(d) \/ d = d0)
      /\ \A d \in DOMAIN stages : ~Entered(d) /\ ~Entered(d)'
  <2>1. \A d \in DOMAIN stages : d \in Nat /\ (Resolved(d) <=> d < s)
    BY <1>1, <1>4 DEF Resolved, Late
  <2>2. \A d \in DOMAIN stages : Resolved(d)' <=> d <= s
    BY <1>2, <1>4 DEF Resolved, Late
  <2>3. \A d \in DOMAIN stages : ~Entered(d) /\ ~Entered(d)'
    BY <1>1, <1>4 DEF Entered, Late
  <2> QED BY <1>2, <2>1, <2>2, <2>3
<1>6. /\ HeapTypeOK /\ img.history \in Seq(Line)
      /\ image[d0].labels = 0 /\ image[d0].history.array = 0
  <2>1. HeapTypeOK
    BY DEF HeapInv
  <2> QED BY <1>1, <1>2, <1>3, <1>5, <2>1 DEF HeapTypeOK
<1>7. /\ image'[d0] = [labels |-> ref, history |-> [array |-> array, len |-> Len(img.history)],
                       cmd |-> img.cmd, files |-> img.files, size |-> img.size]
      /\ \A d \in DOMAIN stages : d # d0 => image'[d] = image[d]
  <2>1. image = [d \in DOMAIN stages |-> image[d]]
    BY <1>1 DEF FilesInv, TypeOK
  <2> QED BY <1>3, <2>1
<1>8. WritesFor(d0) /\ LabelsOf(image[d0])' = img.labels /\ HistoryOf(image[d0].history)' = img.history
  <2>1. image'[d0].labels = ref /\ image'[d0].history = [array |-> array, len |-> Len(img.history)]
    BY <1>7
  <2>2. /\ ref = 0 => maps' = maps
        /\ ref # 0 => IsAppend(maps', maps, img.labels)
        /\ array = 0 => arrays' = arrays
        /\ array # 0 => IsAppend(arrays', arrays, Unmarshalled(img.history))
    BY <1>3 DEF IsAppend
  <2>3. /\ ref = IF img.labels = NoLabels THEN 0 ELSE Len(maps) + 1
        /\ array = IF img.history = <<>> THEN 0 ELSE Len(arrays) + 1
    BY <1>3
  <2> QED BY <1>1, <1>6, <1>7, <2>1, <2>2, <2>3, ResolvedHeap
<1>9. HeapTypeOK'
  <2>1. \A d \in DOMAIN stages :
            /\ Resolved(d) => Resolved(d)'
            /\ Resolved(d)' => Resolved(d) \/ (d = d0 /\ stages[d].base \in DOMAIN registry)
    BY <1>1, <1>2, <1>5
  <2> QED BY <1>1, <1>4, <1>5, <1>8, <2>1, WritesKeepTypes
<1>10. ASSUME NEW C, IsChain(C), Separate(C), RootKept(C)
       PROVE  /\ Separate(C)' /\ RootKept(C)'
              /\ \A L : LatestLabels(C, L)' /\ Described(L)'
              /\ \A W : LatestHistory(C, W)'
  <2>1. Separate(C)'
    BY <1>1, <1>4, <1>8, <1>10, WritesKeepApart
  <2>2. C \subseteq DOMAIN stages
    BY <1>10 DEF IsChain
  <2>3. ASSUME NEW d \in C, BaseOf(d)' = 0, Resolved(d)'
        PROVE  /\ SameMap(LabelsOf(image[d])', LabelsFrom(d, <<>>)')
               /\ HistoryOf(image[d].history)' = HistoryFrom(d, <<>>)'
    <3>1. BaseOf(d) = 0 /\ d \in DOMAIN stages
      BY <1>1, <1>4, <2>2, <2>3, StagesKeepShape
    <3>2. LabelsFrom(d, <<>>)' = LabelsFrom(d, <<>>) /\ HistoryFrom(d, <<>>)' = HistoryFrom(d, <<>>)
      BY <1>1, <1>4, <3>1, ChainStays
    <3>3. CASE d = d0
      <4>1. LabelsFrom(d, <<>>) = img.labels /\ HistoryFrom(d, <<>>) = img.history
        BY <1>1, <1>2, <1>3, <3>1, <3>3 DEF LabelsFrom, HistoryFrom
      <4> QED BY <1>8, <3>2, <3>3, <4>1 DEF SameMap
    <3>4. CASE d # d0
      <4>1. /\ LabelsOf(image[d])' = LabelsOf(image[d])
            /\ HistoryOf(image[d].history)' = HistoryOf(image[d].history)
        BY <1>1, <1>6, <1>8, <3>1, <3>4, WritesSpareOthers
      <4>2. SameMap(LabelsOf(image[d]), LabelsFrom(d, <<>>)) /\ HistoryOf(image[d].history) = HistoryFrom(d, <<>>)
        BY <1>5, <1>10, <2>3, <3>1, <3>4 DEF RootKept
      <4> QED BY <3>2, <4>1, <4>2
    <3> QED BY <3>3, <3>4
  <2>4. RootKept(C)'
    BY <2>3 DEF RootKept, SameMap
  <2>5. \A d : ~Latest(C, d)'
    BY <1>5, <2>2 DEF Latest
  <2>6. \A L : LatestLabels(C, L)'
    BY <2>5 DEF LatestLabels
  <2>7. \A W : LatestHistory(C, W)'
    BY <2>5 DEF LatestHistory
  <2>8. \A L : Described(L)'
    BY <1>4 DEF Described
  <2> QED BY <2>1, <2>4, <2>6, <2>7, <2>8
<1>11. \A C : IsChain(C) /\ Separate(C) /\ RootKept(C) =>
          /\ Separate(C)' /\ RootKept(C)'
          /\ \A L : AreLabels(L) /\ LatestLabels(C, L) /\ Described(L) => LatestLabels(C, L)' /\ Described(L)'
          /\ \A W : AreWritten(W) /\ LatestHistory(C, W) => LatestHistory(C, W)'
  BY <1>10
<1> QED BY <1>1, <1>4, <1>9, <1>11, HeapSteps

(* A stage takes over the references of its base *)

LEMMA WholeSeq ==
    ASSUME NEW S, NEW q \in Seq(S)
    PROVE  SubSeq(q, 1, Len(q)) = q /\ q \o SubSeq(q, 1, 0) = q
<1>1. PICK r : r = SubSeq(q, 1, Len(q))
  OBVIOUS
<1>2. r \in Seq(S) /\ Len(r) = Len(q) /\ \A j \in 1..Len(q) : r[j] = q[j]
  BY <1>1
<1>3. r = q
  BY <1>2, SeqEqual
<1>4. SubSeq(q, 1, 0) = <<>>
  BY SubSeqEmpty
<1>5. q \o <<>> = q
  BY ConcatEmptySeq
<1> QED BY <1>1, <1>3, <1>4, <1>5

\* What a stage of the chain has when it is entered.
LEMMA EnteredWith ==
    ASSUME FilesInv, HeapTypeOK, phase = "dispatch", k = 0, NEW C, IsChain(C), s \in C, RootKept(C),
           NEW b, b = IF BaseOf(s) = 0 THEN s ELSE BaseOf(s)
    PROVE  /\ \A L : AreLabels(L) /\ LatestLabels(C, L) => SameMap(LabelsOf(image[b]), LabelsFrom(s, L))
           /\ \A W : AreWritten(W) /\ LatestHistory(C, W) =>
                  HistoryOf(image[b].history) = HistoryFrom(s, W) /\ HistoryFrom(s, W) \in Seq(Line)
<1>1. /\ Len(stages) \in Nat /\ DOMAIN stages = 1..Len(stages) /\ C \in SUBSET (1..Len(stages)) /\ s \in DOMAIN stages
      /\ \A d \in DOMAIN stages : BaseOf(d) # 0 => BaseOf(d) \in DOMAIN stages
  BY ChainType
<1>2. ASSUME NEW W, AreWritten(W) PROVE \A d \in DOMAIN stages : W[d] \in Seq(Line) /\ HistoryFrom(d, W) \in Seq(Line)
  <2>1. W \in [DOMAIN stages -> Seq(Line)]
    BY <1>2 DEF AreWritten
  <2>2. \A d \in DOMAIN stages : BaseOf(d) # 0 => W[BaseOf(d)] \in Seq(Line)
    BY <1>1, <2>1
  <2>3. \A d : Resolved(d)
    BY DEF Resolved
  <2> QED BY <2>1, <2>2, <2>3, HistoryFromType
<1>3. CASE BaseOf(s) = 0
  <2>1. ~Entered(s) /\ Resolved(s)
    BY <1>1 DEF Entered, Resolved, Late
  <2>2. SameMap(LabelsOf(image[b]), LabelsFrom(s, <<>>)) /\ HistoryOf(image[b].history) = HistoryFrom(s, <<>>)
    BY <1>3, <2>1 DEF RootKept
  <2>3. /\ \A L : LabelsFrom(s, L) = LabelsFrom(s, <<>>)
        /\ \A W : HistoryFrom(s, W) = HistoryFrom(s, <<>>)
    BY <1>3 DEF LabelsFrom, HistoryFrom
  <2>4. \A L : SameMap(LabelsOf(image[b]), LabelsFrom(s, L))
    BY <2>2, <2>3
  <2>5. \A W : HistoryOf(image[b].history) = HistoryFrom(s, W)
    BY <2>2, <2>3
  <2> QED BY <1>1, <1>2, <2>4, <2>5
<1>4. CASE BaseOf(s) # 0
  <2>1. b = BaseOf(s) /\ b \in DOMAIN stages /\ Latest(C, b) /\ Done(b) = Len(stages[b].cmds)
    BY <1>1, <1>4, DispatchedIsLatest
  <2>2. /\ \A L : LabelsFrom(s, L) = L[b]
        /\ \A W : HistoryFrom(s, W) = W[b]
    BY <1>4, <2>1 DEF LabelsFrom, HistoryFrom
  <2>3. ASSUME NEW L, AreLabels(L), LatestLabels(C, L) PROVE SameMap(LabelsOf(image[b]), L[b])
    <3>1. Labelling(LabelsOf(image[b]), b, Done(b), LabelsFrom(b, L))
      BY <2>1, <2>3 DEF LatestLabels
    <3>2. Labelling(L[b], b, Len(stages[b].cmds), LabelsFrom(b, L))
      BY <2>1, <2>3 DEF AreLabels
    <3>3. SameMap(LabelsFrom(b, L), LabelsFrom(b, L))
      BY DEF SameMap
    <3> QED BY <2>1, <3>1, <3>2, <3>3, LabellingIsOne
  <2>4. ASSUME NEW W, AreWritten(W), LatestHistory(C, W)
        PROVE  HistoryOf(image[b].history) = W[b] /\ W[b] \in Seq(Line)
    <3>1. HistoryOf(image[b].history) = HistoryFrom(b, W) \o SubSeq(Lines(b), 1, Done(b))
      BY <2>1, <2>4 DEF LatestHistory
    <3>2. Lines(b) \in Seq(Line) /\ Len(Lines(b)) = Done(b)
      BY <2>1, LinesType
    <3>3. SubSeq(Lines(b), 1, Done(b)) = Lines(b)
      BY <3>2, WholeSeq
    <3>4. W[b] = HistoryFrom(b, W) \o Lines(b) /\ W[b] \in Seq(Line)
      BY <1>2, <2>1, <2>4 DEF AreWritten
    <3> QED BY <3>1, <3>3, <3>4
  <2>5. ASSUME NEW L, AreLabels(L), LatestLabels(C, L) PROVE SameMap(LabelsOf(image[b]), LabelsFrom(s, L))
    BY <2>2, <2>3, <2>5
  <2>6. ASSUME NEW W, AreWritten(W), LatestHistory(C, W)
        PROVE  HistoryOf(image[b].history) = HistoryFrom(s, W) /\ HistoryFrom(s, W) \in Seq(Line)
    BY <2>2, <2>4, <2>6
  <2> QED BY <2>5, <2>6
<1> QED BY <1>3, <1>4

LEMMA EnterKeepsHeap == ASSUME FilesInv, FilesInv', HeapInv, Enter PROVE HeapInv'
<1>1. /\ phase = "dispatch" /\ phase' = "dispatch" /\ k = 0 /\ k' = 1
      /\ UNCHANGED <<registry, recipe, stages, s, maps, arrays>>
  BY DEF Enter, heap
<1>2. PICK b : b = IF BaseOf(s) = 0 THEN s ELSE BaseOf(s)
  OBVIOUS
<1>3. s \in DOMAIN stages /\ b \in DOMAIN stages /\ Len(stages) \in Nat /\ DOMAIN stages = 1..Len(stages)
  <2>1. s \in DOMAIN stages /\ Len(stages) \in Nat /\ DOMAIN stages = 1..Len(stages)
    BY <1>1, StageType DEF FilesInv, TypeOK
  <2>2. BaseOf(s) # 0 => BaseOf(s) \in 1..(s - 1)
    BY <2>1, BaseOfType
  <2> QED BY <1>2, <2>1, <2>2
<1>4. \A d \in DOMAIN stages : image'[d] = image[IF d = s THEN b ELSE d]
  <2>1. image = [d \in DOMAIN stages |-> image[d]]
    BY <1>1 DEF FilesInv, TypeOK
  <2>2. image' = IF BaseOf(s) = 0 THEN image ELSE [image EXCEPT ![s] = image[BaseOf(s)]]
    BY DEF Enter
  <2> QED BY <1>2, <1>3, <2>1, <2>2
<1>5. \A d \in DOMAIN stages :
          /\ LabelsOf(image[d])' = LabelsOf(image[IF d = s THEN b ELSE d])
          /\ ArrayOf(image[d].history)' = ArrayOf(image[IF d = s THEN b ELSE d].history)
          /\ HistoryOf(image[d].history)' = HistoryOf(image[IF d = s THEN b ELSE d].history)
  <2> SUFFICES ASSUME NEW d \in DOMAIN stages, NEW e, e = IF d = s THEN b ELSE d
               PROVE  /\ LabelsOf(image[d])' = LabelsOf(image[e])
                      /\ ArrayOf(image[d].history)' = ArrayOf(image[e].history)
                      /\ HistoryOf(image[d].history)' = HistoryOf(image[e].history)
    OBVIOUS
  <2>1. image'[d] = image[e] /\ maps' = maps /\ arrays' = arrays
    BY <1>1, <1>4
  <2>2. LabelsOf(image[d])' = LabelsOf(image[e])
    BY <2>1 DEF LabelsOf
  <2>3. ArrayOf(image[d].history)' = ArrayOf(image[e].history)
    BY <2>1 DEF ArrayOf
  <2> QED BY <2>1, <2>2, <2>3 DEF HistoryOf
<1>6. \A d : Resolved(d) /\ Resolved(d)'
  BY <1>1 DEF Resolved
<1>7. HeapTypeOK
  BY DEF HeapInv
<1>8. HeapTypeOK'
  <2>1. \A name \in DOMAIN registry' : registry'[name].history \in Seq(Line)
    BY <1>1, <1>7 DEF HeapTypeOK
  <2>2. arrays' \in Seq(Seq(Line)) /\ maps' \in Seq({maps'[j] : j \in DOMAIN maps'})
    BY <1>1, <1>7 DEF HeapTypeOK
  <2>3. ASSUME NEW d \in DOMAIN stages'
        PROVE  /\ image'[d].labels \in 0..Len(maps')
               /\ image'[d].history = [array |-> image'[d].history.array, len |-> image'[d].history.len]
               /\ image'[d].history.array \in 0..Len(arrays')
               /\ image'[d].history.len \in 0..Len(ArrayOf(image[d].history)')
    <3>1. PICK e \in DOMAIN stages : e = (IF d = s THEN b ELSE d) /\ image'[d] = image[e]
      BY <1>1, <1>3, <1>4
    <3>2. ArrayOf(image[d].history)' = ArrayOf(image[e].history)
      BY <1>1, <1>5, <3>1
    <3>3. /\ image[e].labels \in 0..Len(maps)
          /\ image[e].history = [array |-> image[e].history.array, len |-> image[e].history.len]
          /\ image[e].history.array \in 0..Len(arrays)
          /\ image[e].history.len \in 0..Len(ArrayOf(image[e].history))
      BY <1>1, <1>7 DEF HeapTypeOK
    <3> QED BY <1>1, <3>1, <3>2, <3>3
  <2>4. ASSUME NEW d \in DOMAIN stages', FromRegistry(d)' PROVE stages'[d].base \in DOMAIN registry'
    <3>1. d \in DOMAIN stages /\ FromRegistry(d)
      BY <1>1, <2>4, StagesKeepShape
    <3> QED BY <1>1, <1>6, <1>7, <3>1 DEF HeapTypeOK
  <2> QED BY <1>6, <2>1, <2>2, <2>3, <2>4 DEF HeapTypeOK
<1>9. ASSUME NEW C, IsChain(C), Separate(C), RootKept(C)
      PROVE  /\ Separate(C)' /\ RootKept(C)'
             /\ \A L : AreLabels(L) /\ LatestLabels(C, L) /\ Described(L) => LatestLabels(C, L)' /\ Described(L)'
             /\ \A W : AreWritten(W) /\ LatestHistory(C, W) => LatestHistory(C, W)'
  <2>1. /\ C \subseteq DOMAIN stages /\ (b \in C <=> s \in C)
        /\ \A d \in C : d \in Nat /\ BaseOf(d)' = BaseOf(d)
    <3>1. C \subseteq DOMAIN stages /\ (BaseOf(s) # 0 => (BaseOf(s) \in C <=> s \in C))
      BY <1>3, <1>9, ChainType DEF IsChain
    <3>2. \A d \in DOMAIN stages : d \in Nat /\ BaseOf(d)' = BaseOf(d)
      BY <1>1, <1>3, StagesKeepShape
    <3> QED BY <1>2, <3>1, <3>2
  <2>2. Separate(C)'
    <3>1. ASSUME NEW d \in C, NEW e \in DOMAIN stages' \ C
          PROVE  /\ image'[d].labels # 0 => image'[d].labels # image'[e].labels
                 /\ image'[d].history.array # 0 => image'[d].history.array # image'[e].history.array
      <4>1. PICK x \in C : x = IF d = s THEN b ELSE d
        BY <2>1
      <4>2. PICK y \in DOMAIN stages \ C : y = IF e = s THEN b ELSE e
        BY <1>1, <1>3, <2>1
      <4>3. image'[d] = image[x] /\ image'[e] = image[y]
        BY <1>1, <1>4, <2>1, <4>1, <4>2
      <4> QED BY <1>9, <4>3 DEF Separate
    <3> QED BY <3>1 DEF Separate
  <2>3. CASE s \notin C
    <3>1. \A d \in C : /\ LabelsOf(image[d])' = LabelsOf(image[d])
                       /\ HistoryOf(image[d].history)' = HistoryOf(image[d].history)
      <4> SUFFICES ASSUME NEW d \in C
                   PROVE  /\ LabelsOf(image[d])' = LabelsOf(image[d])
                          /\ HistoryOf(image[d].history)' = HistoryOf(image[d].history)
        OBVIOUS
      <4>1. d # s /\ d \in DOMAIN stages
        BY <2>1, <2>3
      <4> QED BY <1>5, <4>1
    <3> QED BY <1>1, <1>9, <2>2, <2>3, <3>1, ChainRests
  <2>4. CASE s \in C
    <3>1. \A d \in C : Entered(d)' <=> d <= s
      BY <1>1, <2>1, <2>4 DEF Entered, Late
    <3>2. RootKept(C)'
      <4>1. \A d \in C : ~(d <= s) => BaseOf(d) # 0
        BY <1>1, <1>9, <2>4, DispatchedIsLatest
      <4> QED BY <2>1, <3>1, <4>1 DEF RootKept
    <3>3. \A d : Latest(C, d)' => d = s
      <4> SUFFICES ASSUME NEW d, Latest(C, d)' PROVE d = s
        OBVIOUS
      <4>1. d \in C /\ d <= s /\ s <= d
        BY <2>1, <2>4, <3>1 DEF Latest
      <4> QED BY <2>1, <2>4, <4>1
    <3>4. Done(s)' = 0
      BY <1>1 DEF Done
    <3>5. /\ LabelsOf(image[s])' = LabelsOf(image[b])
          /\ HistoryOf(image[s].history)' = HistoryOf(image[b].history)
      BY <1>1, <1>3, <1>5
    <3>6. ASSUME NEW L, AreLabels(L), LatestLabels(C, L) PROVE LatestLabels(C, L)'
      <4> SUFFICES Labelling(LabelsOf(image[s]), s, Done(s), LabelsFrom(s, L))'
        BY <1>1, <3>3, Zenon DEF LatestLabels
      <4>1. PICK m, under : m = LabelsOf(image[b]) /\ under = LabelsFrom(s, L)
        OBVIOUS
      <4>2. SameMap(m, under)
        BY <1>1, <1>2, <1>7, <1>9, <2>4, <3>6, <4>1, EnteredWith
      <4>3. Labelling(m, s, 0, under)
        BY <1>1, <1>3, <4>2, LabellingBegins
      <4>4. Labelling(m, s, 0, under)'
        BY <1>1, <1>3, <4>3, ChainStays
      <4>5. under = LabelsFrom(s, L)'
        BY <1>1, <1>3, <4>1, ChainStays
      <4> QED BY <3>4, <3>5, <4>1, <4>4, <4>5
    <3>7. \A L : Described(L)'
      BY <1>1 DEF Described
    <3>8. ASSUME NEW W, AreWritten(W), LatestHistory(C, W) PROVE LatestHistory(C, W)'
      <4>1. PICK f : f = HistoryFrom(s, W)
        OBVIOUS
      <4>2. HistoryOf(image[b].history) = f /\ f \in Seq(Line)
        BY <1>1, <1>2, <1>7, <1>9, <2>4, <3>8, <4>1, EnteredWith
      <4>3. f = HistoryFrom(s, W)'
        BY <1>1, <1>3, <4>1, ChainStays
      <4>4. f = f \o SubSeq(Lines(s)', 1, 0)
        <5>1. SubSeq(Lines(s)', 1, 0) = <<>>
          BY SubSeqEmpty
        <5> QED BY <4>2, <5>1, ConcatEmptySeq
      <4>5. HistoryOf(image[s].history)' = HistoryFrom(s, W)' \o SubSeq(Lines(s)', 1, Done(s)')
        BY <3>4, <3>5, <4>2, <4>3, <4>4
      <4> QED BY <1>1, <3>3, <4>5 DEF LatestHistory
    <3> QED BY <2>2, <3>2, <3>6, <3>7, <3>8
  <2> QED BY <2>3, <2>4
<1>10. \A C : IsChain(C) /\ Separate(C) /\ RootKept(C) =>
          /\ Separate(C)' /\ RootKept(C)'
          /\ \A L : AreLabels(L) /\ LatestLabels(C, L) /\ Described(L) => LatestLabels(C, L)' /\ Described(L)'
          /\ \A W : AreWritten(W) /\ LatestHistory(C, W) => LatestHistory(C, W)'
  BY <1>9
<1> QED BY <1>1, <1>8, <1>10, HeapSteps

(* The labels of the target at the end of a build *)

LEMMA LabelsOnly ==
    ASSUME HeapTypeOK, phase # "idle", NEW d0 \in DOMAIN stages, arrays' = arrays,
           \A d \in DOMAIN stages : image'[d].history = image[d].history /\ (d # d0 => image'[d].labels = image[d].labels),
           maps' \in Own(maps)', Len(maps) <= Len(maps'),
           \A j \in 1..Len(maps) : j # image[d0].labels => maps'[j] = maps[j],
           image'[d0].labels \in {image[d0].labels, Len(maps) + 1}, image'[d0].labels <= Len(maps')
    PROVE  WritesFor(d0)
<1>1. arrays \in Seq(Seq(Line)) /\ Len(arrays) \in Nat
  BY DEF HeapTypeOK
<1>2. /\ image[d0].history = [array |-> image[d0].history.array, len |-> image[d0].history.len]
      /\ image[d0].history.array \in 0..Len(arrays)
      /\ image[d0].history.len \in 0..Len(ArrayOf(image[d0].history))
  BY DEF HeapTypeOK
<1>3. ArrayOf(image[d0].history)' = ArrayOf(image[d0].history)
  BY DEF ArrayOf
<1>4. /\ arrays' \in Seq(Seq(Line)) /\ Len(arrays) <= Len(arrays')
      /\ \A j \in 1..Len(arrays) :
             Len(arrays'[j]) = Len(arrays[j]) /\ (j # image[d0].history.array => arrays'[j] = arrays[j])
      /\ image'[d0].history = [array |-> image'[d0].history.array, len |-> image'[d0].history.len]
      /\ image'[d0].history.array \in {image[d0].history.array, Len(arrays) + 1} /\ image'[d0].history.array <= Len(arrays')
      /\ image'[d0].history.len \in 0..Len(ArrayOf(image[d0].history)')
  BY <1>1, <1>2, <1>3
<1> QED BY <1>4 DEF WritesFor

LEMMA TargetKeepsHeap ==
    ASSUME FilesInv, FilesInv', HeapInv, phase \in Late, phase' \in {"describe", "inspect"},
           UNCHANGED <<registry, recipe, arrays>>, NEW d0 \in DOMAIN stages, d0 = t, WritesFor(d0),
           \A d \in DOMAIN stages : image'[d].history = image[d].history,
           phase' = "inspect" => image'[d0].labels # 0,
           \A L, C : IsChain(C) /\ AreLabels(L) /\ LatestLabels(C, L) /\ Described(L) => Described(L)'
    PROVE  HeapInv'
<1>1. phase # "idle" /\ phase' # "idle" /\ \A d : Resolved(d) /\ Resolved(d)' /\ Entered(d) /\ Entered(d)'
  BY DEF Late, Resolved, Entered
<1>2. HeapTypeOK'
  BY <1>1, WritesKeepTypes
<1>3. phase' = "inspect" => image'[t].labels # 0
  OBVIOUS
<1>4. /\ \A d \in DOMAIN stages : HistoryOf(image[d].history)' = HistoryOf(image[d].history)
      /\ \A d : Done(d) = Len(stages[d].cmds) /\ Done(d)' = Len(stages'[d].cmds)
  <2>1. \A d \in DOMAIN stages : HistoryOf(image[d].history)' = HistoryOf(image[d].history)
    BY DEF HistoryOf, ArrayOf
  <2>2. phase # "dispatch" /\ phase' # "dispatch"
    BY DEF Late
  <2> QED BY <2>1, <2>2 DEF Done
<1>5. \A d \in DOMAIN stages : Lines(d)' = Lines(d) /\ Done(d)' = Done(d)
  BY <1>1, <1>4, StagesKeepShape
<1>6. ASSUME NEW C, IsChain(C), Separate(C), RootKept(C)
      PROVE  /\ Separate(C)' /\ RootKept(C)'
             /\ \A L : AreLabels(L) /\ LatestLabels(C, L) /\ Described(L) => LatestLabels(C, L)' /\ Described(L)'
             /\ \A W : AreWritten(W) /\ LatestHistory(C, W) => LatestHistory(C, W)'
  <2>1. Separate(C)'
    BY <1>1, <1>6, WritesKeepApart
  <2>2. RootKept(C)'
    BY <1>1 DEF RootKept
  <2>3. \A L : LatestLabels(C, L)'
    BY DEF LatestLabels
  <2>4. C \subseteq DOMAIN stages
    BY <1>6 DEF IsChain
  <2>5. ASSUME NEW W, LatestHistory(C, W) PROVE LatestHistory(C, W)'
    <3> SUFFICES ASSUME NEW d, Latest(C, d)'
                 PROVE  HistoryOf(image[d].history)' = HistoryFrom(d, W)' \o SubSeq(Lines(d)', 1, Done(d)')
      BY DEF LatestHistory
    <3>1. Latest(C, d) /\ d \in DOMAIN stages
      BY <1>1, <2>4 DEF Latest
    <3>2. HistoryOf(image[d].history) = HistoryFrom(d, W) \o SubSeq(Lines(d), 1, Done(d))
      BY <2>5, <3>1 DEF LatestHistory
    <3>3. HistoryFrom(d, W)' = HistoryFrom(d, W)
      BY <1>1, <3>1, ChainStays
    <3> QED BY <1>4, <1>5, <3>1, <3>2, <3>3
  <2>6. \A L : AreLabels(L) /\ LatestLabels(C, L) /\ Described(L) => Described(L)'
    BY <1>6
  <2> QED BY <2>1, <2>2, <2>3, <2>5, <2>6
<1>7. \A C : IsChain(C) /\ Separate(C) /\ RootKept(C) =>
          /\ Separate(C)' /\ RootKept(C)'
          /\ \A L : AreLabels(L) /\ LatestLabels(C, L) /\ Described(L) => LatestLabels(C, L)' /\ Described(L)'
          /\ \A W : AreWritten(W) /\ LatestHistory(C, W) => LatestHistory(C, W)'
  BY <1>6
<1> QED BY <1>1, <1>2, <1>3, <1>7, HeapSteps

\* The target is the latest stage of its chain.
LEMMA LabelsOfTarget ==
    ASSUME FilesInv, phase = "finish", NEW C, IsChain(C), NEW L, AreLabels(L), LatestLabels(C, L)
    PROVE  SameMap(LabelsOf(image[t]), L[t])
<1>1. t \in C /\ t \in DOMAIN stages /\ \A d \in C : d <= t
  BY TargetIsLast DEF IsChain
<1>2. Latest(C, t) /\ Done(t) = Len(stages[t].cmds)
  BY <1>1 DEF Latest, Entered, Late, Done
<1>3. Labelling(LabelsOf(image[t]), t, Done(t), LabelsFrom(t, L))
  BY <1>2 DEF LatestLabels
<1>4. Labelling(L[t], t, Len(stages[t].cmds), LabelsFrom(t, L))
  BY <1>1 DEF AreLabels
<1>5. SameMap(LabelsFrom(t, L), LabelsFrom(t, L))
  BY DEF SameMap
<1> QED BY <1>1, <1>2, <1>3, <1>4, <1>5, LabellingIsOne

LEMMA FinishKeepsHeap == ASSUME FilesInv, FilesInv', HeapInv, Finish PROVE HeapInv'
<1>1. phase = "finish" /\ phase' = "describe" /\ UNCHANGED <<registry, recipe, stages, arrays>> /\ t' = t
  BY DEF Finish, t
<1>2. PICK d0 \in DOMAIN stages : d0 = t
  BY <1>1, TargetType
<1>3. HeapTypeOK /\ maps \in Own(maps)
  BY DEF HeapInv, HeapTypeOK, Own
<1>4. Len(maps) \in Nat
  BY <1>3, OwnType
<1>5. image[d0].labels \in 0..Len(maps)
  BY <1>1, <1>3 DEF HeapTypeOK
<1>6. image = [d \in DOMAIN stages |-> image[d]] /\ IsImage(image[d0])
  BY <1>1 DEF FilesInv, TypeOK
<1>7. PICK new : new = IF recipe.labels = NoLabels THEN LabelsOf(image[d0])
                       ELSE IF image[d0].labels = 0 THEN recipe.labels ELSE Over(recipe.labels, LabelsOf(image[d0]))
  OBVIOUS
<1>8. /\ maps' \in Own(maps)' /\ Len(maps) <= Len(maps')
      /\ \A j \in 1..Len(maps) : j # image[d0].labels => maps'[j] = maps[j]
      /\ image'[d0].labels \in {image[d0].labels, Len(maps) + 1} /\ image'[d0].labels <= Len(maps')
      /\ \A d \in DOMAIN stages : image'[d].history = image[d].history /\ (d # d0 => image'[d].labels = image[d].labels)
      /\ LabelsOf(image[d0])' = new
  <2>1. CASE recipe.labels = NoLabels
    <3>1. maps' = maps /\ image' = image
      BY <2>1 DEF Finish
    <3>2. LabelsOf(image[d0])' = LabelsOf(image[d0])
      BY <3>1 DEF LabelsOf
    <3>3. maps' \in Own(maps)'
      BY <1>3, <3>1
    <3> QED BY <1>4, <1>5, <1>7, <2>1, <3>1, <3>2, <3>3
  <2>2. CASE recipe.labels # NoLabels
    <3>1. PICK ref, im :
              /\ ref = IF image[d0].labels = 0 THEN Len(maps) + 1 ELSE image[d0].labels
              /\ maps' = IF image[d0].labels = 0 THEN Append(maps, recipe.labels)
                         ELSE [maps EXCEPT ![ref] = Over(recipe.labels, @)]
              /\ im = [image[d0] EXCEPT !.labels = ref] /\ image' = [image EXCEPT ![d0] = im]
      BY <1>2, <2>2 DEF Finish
    <3>2. im.history = image[d0].history /\ im.labels = ref
      BY <1>6, <3>1, ImageFields
    <3>3. image'[d0] = im /\ \A d \in DOMAIN stages : d # d0 => image'[d] = image[d]
      BY <1>6, <3>1
    <3>4. image[d0].labels # 0 => LabelsOf(image[d0]) = maps[ref]
      BY <3>1 DEF LabelsOf
    <3>5. /\ image[d0].labels = 0 => IsAppend(maps', maps, new)
          /\ image[d0].labels # 0 => IsExcept(maps', maps, ref, new)
      BY <1>7, <2>2, <3>1, <3>4 DEF IsAppend, IsExcept
    <3>6. /\ maps' \in Own(maps)' /\ Len(maps) <= Len(maps')
          /\ \A j \in 1..Len(maps) : j # image[d0].labels => maps'[j] = maps[j]
          /\ image'[d0].labels \in {image[d0].labels, Len(maps) + 1} /\ image'[d0].labels <= Len(maps')
          /\ LabelsOf(image[d0])' = new
      <4>1. ref = IF image[d0].labels = 0 THEN Len(maps) + 1 ELSE image[d0].labels
        BY <3>1
      <4>2. image'[d0].labels = ref
        BY <3>2, <3>3
      <4> QED BY <1>1, <1>3, <3>5, <4>1, <4>2, LabelsWritten
    <3>7. \A d \in DOMAIN stages : image'[d].history = image[d].history /\ (d # d0 => image'[d].labels = image[d].labels)
      BY <3>2, <3>3
    <3> QED BY <3>6, <3>7
  <2> QED BY <2>1, <2>2
<1>9. WritesFor(d0)
  BY <1>1, <1>3, <1>8, LabelsOnly
<1>10. DOMAIN NoLabels = {} /\ (image[d0].labels = 0 => LabelsOf(image[d0]) = NoLabels)
  BY DEF NoLabels, LabelsOf
<1>11. ASSUME NEW L, NEW C, IsChain(C), AreLabels(L), LatestLabels(C, L) PROVE Described(L)'
  <2>1. PICK o, l : o = LabelsOf(image[d0]) /\ l = L[d0]
    OBVIOUS
  <2>2. DOMAIN o = DOMAIN l /\ \A key \in DOMAIN o : o[key] = l[key]
    <3>1. SameMap(o, l)
      BY <1>1, <1>2, <1>11, <2>1, LabelsOfTarget
    <3> QED BY <3>1 DEF SameMap
  <2>3. PICK asked, r : asked = Over(recipe.labels, l) /\ r = recipe.labels
    OBVIOUS
  <2>4. \A key : /\ key \in DOMAIN asked <=> key \in DOMAIN r \/ key \in DOMAIN l
                 /\ key \in DOMAIN r => asked[key] = r[key]
                 /\ key \in DOMAIN l /\ key \notin DOMAIN r => asked[key] = l[key]
    BY <2>3, OverType
  <2>5. \A key : /\ key \in DOMAIN new <=> key \in DOMAIN r \/ key \in DOMAIN o
                 /\ key \in DOMAIN r => new[key] = r[key]
                 /\ key \in DOMAIN o /\ key \notin DOMAIN r => new[key] = o[key]
    <3>1. CASE r = NoLabels
      BY <1>7, <1>10, <2>1, <2>3, <3>1
    <3>2. CASE r # NoLabels /\ image[d0].labels = 0
      BY <1>7, <1>10, <2>1, <2>3, <3>2
    <3>3. CASE r # NoLabels /\ image[d0].labels # 0
      <4>1. new = Over(r, o)
        BY <1>7, <2>1, <2>3, <3>3
      <4> QED BY <4>1, OverType
    <3> QED BY <3>1, <3>2, <3>3
  <2>6. /\ \A key \in DOMAIN asked : key \in DOMAIN new /\ new[key] = asked[key]
        /\ \A key \in DOMAIN new : key \in DOMAIN asked
    BY <2>2, <2>4, <2>5
  <2>7. asked = Over(recipe'.labels, L[t']) /\ LabelsOf(image[t])' = new
    BY <1>1, <1>2, <1>8, <2>1, <2>3
  <2> QED BY <2>6, <2>7 DEF Described
<1> QED BY <1>1, <1>2, <1>8, <1>9, <1>11, TargetKeepsHeap DEF Late

LEMMA SetLabelIs ==
    ASSUME NEW m, NEW key, NEW v
    PROVE  /\ \A x \in DOMAIN m : x \in DOMAIN SetLabel(m, key, v) /\ SetLabel(m, key, v)[x] = m[x]
           /\ \A x \in DOMAIN SetLabel(m, key, v) : x \in DOMAIN m \/ x = key
<1>1. DOMAIN Only(key, v) = {key}
  BY OnlyType
<1> QED BY <1>1 DEF SetLabel, Over

\* The builder adds labels of its own, and changes none.
LEMMA DescribedGoesOn ==
    ASSUME FilesInv, recipe' = recipe, phase \in {"describe", "inspect"}, phase' = "inspect",
           \A key \in DOMAIN LabelsOf(image[t]) : key \in DOMAIN LabelsOf(image[t])' /\ LabelsOf(image[t])'[key] = LabelsOf(image[t])[key],
           \A key \in DOMAIN LabelsOf(image[t])' : key \in DOMAIN LabelsOf(image[t]) \/ key \in {"base.name", "architecture"}
    PROVE  \A L, C : IsChain(C) /\ AreLabels(L) /\ LatestLabels(C, L) /\ Described(L) => Described(L)'
<1> SUFFICES ASSUME NEW L, Described(L) PROVE Described(L)'
  OBVIOUS
<1>1. PICK asked, old : asked = Over(recipe.labels, L[t]) /\ old = LabelsOf(image[t])
  OBVIOUS
<1>2. PICK new : new = LabelsOf(image[t])'
  OBVIOUS
<1>3. /\ \A key \in DOMAIN asked : key \in DOMAIN old /\ old[key] = asked[key]
      /\ \A key \in DOMAIN old : key \in DOMAIN asked \/ key \in {"base.name", "architecture"}
  BY <1>1 DEF Described
<1>4. /\ \A key \in DOMAIN old : key \in DOMAIN new /\ new[key] = old[key]
      /\ \A key \in DOMAIN new : key \in DOMAIN old \/ key \in {"base.name", "architecture"}
  BY <1>1, <1>2
<1>5. /\ \A key \in DOMAIN asked : key \in DOMAIN new /\ new[key] = asked[key]
      /\ \A key \in DOMAIN new : key \in DOMAIN asked \/ key \in {"base.name", "architecture"}
  BY <1>3, <1>4
<1>6. asked = Over(recipe.labels, L[t])' /\ t' = t
  BY <1>1 DEF t
<1> QED BY <1>2, <1>5, <1>6 DEF Described

LEMMA ImageParts ==
    ASSUME NEW img, IsImage(img), NEW l, NEW c, NEW fs, NEW sz
    PROVE  /\ [img EXCEPT !.labels = l, !.cmd = c, !.size = sz].labels = l
           /\ [img EXCEPT !.labels = l, !.cmd = c, !.size = sz].history = img.history
           /\ [img EXCEPT !.size = sz, !.files = fs].labels = img.labels
           /\ [img EXCEPT !.size = sz, !.files = fs].history = img.history
<1>1. PICK lb, hs, cm, f0, z0 : img = [labels |-> lb, history |-> hs, cmd |-> cm, files |-> f0, size |-> z0]
  BY Zenon DEF IsImage
<1>2. PICK new : new = [labels |-> l, history |-> hs, cmd |-> c, files |-> f0, size |-> sz]
  OBVIOUS
<1>3. [img EXCEPT !.labels = l, !.cmd = c, !.size = sz] = new
  <2>1. PICK u : u = [img EXCEPT !.labels = l]
    OBVIOUS
  <2>2. u = [labels |-> l, history |-> hs, cmd |-> cm, files |-> f0, size |-> z0]
    BY <1>1, <2>1
  <2>3. PICK v : v = [u EXCEPT !.cmd = c]
    OBVIOUS
  <2>4. v = [labels |-> l, history |-> hs, cmd |-> c, files |-> f0, size |-> z0]
    BY <2>2, <2>3
  <2>5. [v EXCEPT !.size = sz] = [labels |-> l, history |-> hs, cmd |-> c, files |-> f0, size |-> sz]
    BY <2>4
  <2> QED BY <1>2, <2>1, <2>3, <2>5
<1>4. PICK more : more = [labels |-> lb, history |-> hs, cmd |-> cm, files |-> fs, size |-> sz]
  OBVIOUS
<1>5. [img EXCEPT !.size = sz, !.files = fs] = more
  <2>1. PICK u : u = [img EXCEPT !.size = sz]
    OBVIOUS
  <2>2. u = [labels |-> lb, history |-> hs, cmd |-> cm, files |-> f0, size |-> sz]
    BY <1>1, <2>1
  <2>3. [u EXCEPT !.files = fs] = [labels |-> lb, history |-> hs, cmd |-> cm, files |-> fs, size |-> sz]
    BY <2>2
  <2> QED BY <1>4, <2>1, <2>3
<1>6. new.labels = l /\ new.history = hs /\ more.labels = lb /\ more.history = hs /\ img.labels = lb /\ img.history = hs
  BY <1>1, <1>2, <1>4
<1> QED BY <1>3, <1>5, <1>6

LEMMA DescribeKeepsHeap == ASSUME FilesInv, FilesInv', HeapInv, Describe PROVE HeapInv'
<1>1. phase = "describe" /\ phase' = "inspect" /\ UNCHANGED <<registry, recipe, stages, arrays>> /\ t' = t
  BY DEF Describe, t
<1>2. PICK d0 \in DOMAIN stages : d0 = t
  BY <1>1, TargetType
<1>3. HeapTypeOK
  BY DEF HeapInv
<1>4. image = [d \in DOMAIN stages |-> image[d]] /\ IsImage(image[d0])
  BY <1>1 DEF FilesInv, TypeOK
<1>5. PICK ref, new, cmd, size :
          /\ ref = IF image[d0].labels = 0 THEN Len(maps) + 1 ELSE image[d0].labels
          /\ new = IF stages[d0].base = "scratch" THEN LabelsOf(image[d0])
                   ELSE SetLabel(LabelsOf(image[d0]), "base.name", stages[d0].base)
          /\ maps' = IF image[d0].labels = 0 THEN Append(maps, new) ELSE [maps EXCEPT ![ref] = new]
          /\ image' = [image EXCEPT ![d0] = [@ EXCEPT !.labels = ref, !.cmd = cmd, !.size = size]]
  BY <1>2 DEF Describe
<1>6. PICK im : im = [image[d0] EXCEPT !.labels = ref, !.cmd = cmd, !.size = size]
  OBVIOUS
<1>7. im.labels = ref /\ im.history = image[d0].history
  <2>1. PICK old : old = image[d0] /\ IsImage(old)
    BY <1>4
  <2>2. im = [old EXCEPT !.labels = ref, !.cmd = cmd, !.size = size]
    BY <1>6, <2>1
  <2>3. im.labels = ref /\ im.history = old.history
    BY <2>1, <2>2, ImageParts
  <2> QED BY <2>1, <2>3
<1>8. image'[d0] = im /\ \A d \in DOMAIN stages : d # d0 => image'[d] = image[d]
  BY <1>4, <1>5, <1>6
<1>9. /\ maps' \in Own(maps)' /\ Len(maps) <= Len(maps')
      /\ \A j \in 1..Len(maps) : j # image[d0].labels => maps'[j] = maps[j]
      /\ image'[d0].labels \in {image[d0].labels, Len(maps) + 1} /\ image'[d0].labels <= Len(maps')
      /\ image'[d0].labels # 0
      /\ LabelsOf(image[d0])' = new
  <2>1. /\ image[d0].labels = 0 => IsAppend(maps', maps, new)
        /\ image[d0].labels # 0 => IsExcept(maps', maps, ref, new)
    BY <1>5 DEF IsAppend, IsExcept
  <2>2. ref = IF image[d0].labels = 0 THEN Len(maps) + 1 ELSE image[d0].labels
    BY <1>5
  <2>3. image'[d0].labels = ref
    BY <1>7, <1>8
  <2> QED BY <1>1, <1>3, <2>1, <2>2, <2>3, LabelsWritten
<1>10. \A d \in DOMAIN stages : image'[d].history = image[d].history /\ (d # d0 => image'[d].labels = image[d].labels)
  BY <1>7, <1>8
<1>11. WritesFor(d0)
  BY <1>1, <1>3, <1>9, <1>10, LabelsOnly
<1>12. PICK o : o = LabelsOf(image[d0])
  OBVIOUS
<1>13. /\ \A key \in DOMAIN o : key \in DOMAIN new /\ new[key] = o[key]
       /\ \A key \in DOMAIN new : key \in DOMAIN o \/ key \in {"base.name", "architecture"}
  <2>1. CASE stages[d0].base = "scratch"
    BY <1>5, <1>12, <2>1
  <2>2. CASE stages[d0].base # "scratch"
    BY <1>5, <1>12, <2>2, SetLabelIs
  <2> QED BY <2>1, <2>2
<1>14. LabelsOf(image[t])' = new /\ LabelsOf(image[t]) = o
  BY <1>1, <1>2, <1>9, <1>12
<1>15. \A L, C : IsChain(C) /\ AreLabels(L) /\ LatestLabels(C, L) /\ Described(L) => Described(L)'
  BY <1>1, <1>13, <1>14, DescribedGoesOn
<1> QED BY <1>1, <1>2, <1>9, <1>10, <1>11, <1>15, TargetKeepsHeap DEF Late

LEMMA InspectKeepsHeap == ASSUME FilesInv, FilesInv', HeapInv, Inspect PROVE HeapInv'
<1>1. phase = "inspect" /\ phase' = "inspect" /\ UNCHANGED <<registry, recipe, stages, arrays>> /\ t' = t
  BY DEF Inspect, t
<1>2. PICK d0 \in DOMAIN stages : d0 = t
  BY <1>1, TargetType
<1>3. HeapTypeOK /\ maps \in Own(maps) /\ image[d0].labels # 0
  BY <1>1, <1>2 DEF HeapInv, HeapTypeOK, Own
<1>4. Len(maps) \in Nat
  BY <1>3, OwnType
<1>5. image[d0].labels \in 0..Len(maps)
  BY <1>1, <1>3 DEF HeapTypeOK
<1>6. image = [d \in DOMAIN stages |-> image[d]] /\ IsImage(image[d0])
  BY <1>1 DEF FilesInv, TypeOK
<1>7. PICK v, fs, sz, model :
          /\ image' = [image EXCEPT ![d0] = [image[d0] EXCEPT !.size = sz, !.files = fs]]
          /\ maps' = IF model THEN [maps EXCEPT ![image[d0].labels] = SetLabel(@, "architecture", v)] ELSE maps
  BY <1>2 DEF Inspect
<1>8. PICK im : im = [image[d0] EXCEPT !.size = sz, !.files = fs]
  OBVIOUS
<1>9. im.labels = image[d0].labels /\ im.history = image[d0].history
  <2>1. PICK old : old = image[d0] /\ IsImage(old)
    BY <1>6
  <2>2. im = [old EXCEPT !.size = sz, !.files = fs]
    BY <1>8, <2>1
  <2>3. im.labels = old.labels /\ im.history = old.history
    BY <2>1, <2>2, ImageParts
  <2> QED BY <2>1, <2>3
<1>10. image'[d0] = im /\ \A d \in DOMAIN stages : d # d0 => image'[d] = image[d]
  BY <1>6, <1>7, <1>8
<1>11. \A d \in DOMAIN stages : image'[d].history = image[d].history /\ (d # d0 => image'[d].labels = image[d].labels)
  BY <1>9, <1>10
<1>12. PICK o : o = LabelsOf(image[d0])
  OBVIOUS
<1>13. o = maps[image[d0].labels]
  BY <1>3, <1>12 DEF LabelsOf
<1>14. PICK new : new = IF model THEN SetLabel(o, "architecture", v) ELSE o
  OBVIOUS
<1>15. /\ maps' \in Own(maps)' /\ Len(maps) <= Len(maps')
       /\ \A j \in 1..Len(maps) : j # image[d0].labels => maps'[j] = maps[j]
       /\ image'[d0].labels \in {image[d0].labels, Len(maps) + 1} /\ image'[d0].labels <= Len(maps')
       /\ image'[d0].labels # 0
       /\ LabelsOf(image[d0])' = new
  <2>1. PICK ref : ref = image[d0].labels
    OBVIOUS
  <2>2. ref # 0 /\ image'[d0].labels = ref /\ ref \in 1..Len(maps)
    BY <1>3, <1>4, <1>5, <1>9, <1>10, <2>1
  <2>3. CASE model
    <3>1. IsExcept(maps', maps, ref, new)
      BY <1>7, <1>13, <1>14, <2>1, <2>3 DEF IsExcept
    <3>2. ref = IF image[d0].labels = 0 THEN Len(maps) + 1 ELSE image[d0].labels
      BY <2>1, <2>2
    <3> QED BY <1>1, <1>3, <2>1, <2>2, <3>1, <3>2, LabelsWritten
  <2>4. CASE ~model
    <3>1. maps' = maps /\ new = o
      BY <1>7, <1>14, <2>4
    <3>2. LabelsOf(image[d0])' = o
      BY <1>13, <2>1, <2>2, <3>1 DEF LabelsOf
    <3>3. maps' \in Own(maps)'
      BY <1>3, <3>1
    <3> QED BY <1>4, <2>1, <2>2, <3>1, <3>2, <3>3
  <2> QED BY <2>3, <2>4
<1>16. WritesFor(d0)
  BY <1>1, <1>3, <1>11, <1>15, LabelsOnly
<1>17. /\ \A key \in DOMAIN o : key \in DOMAIN new /\ new[key] = o[key]
       /\ \A key \in DOMAIN new : key \in DOMAIN o \/ key \in {"base.name", "architecture"}
  BY <1>14, SetLabelIs
<1>18. LabelsOf(image[t])' = new /\ LabelsOf(image[t]) = o
  BY <1>1, <1>2, <1>12, <1>15
<1>19. \A L, C : IsChain(C) /\ AreLabels(L) /\ LatestLabels(C, L) /\ Described(L) => Described(L)'
  BY <1>1, <1>17, <1>18, DescribedGoesOn
<1> QED BY <1>1, <1>2, <1>11, <1>15, <1>16, <1>19, TargetKeepsHeap DEF Late

LEMMA HeapStutters ==
    ASSUME FilesInv, FilesInv', HeapInv, UNCHANGED <<registry, phase, recipe, stages, s, k, image, maps, arrays>>
    PROVE  HeapInv'
<1>1. CASE phase = "idle"
  <2>1. HeapTypeOK'
    BY <1>1 DEF HeapInv, HeapTypeOK
  <2> QED BY <1>1, <2>1 DEF HeapInv, IsChain
<1>2. CASE phase # "idle"
  <2>1. /\ \A d \in DOMAIN stages : BaseOf(d)' = BaseOf(d) /\ (FromRegistry(d)' <=> FromRegistry(d)) /\ Lines(d)' = Lines(d)
        /\ DOMAIN stages' = DOMAIN stages /\ t' = t
    BY <1>2, StagesKeepShape
  <2>2. /\ \A d : (Entered(d)' <=> Entered(d)) /\ (Resolved(d)' <=> Resolved(d)) /\ Done(d)' = Done(d)
        /\ \A d : ArrayOf(image[d].history)' = ArrayOf(image[d].history)
        /\ \A d : LabelsOf(image[d])' = LabelsOf(image[d])
        /\ \A d : HistoryOf(image[d].history)' = HistoryOf(image[d].history)
    BY DEF Entered, Resolved, Done, ArrayOf, LabelsOf, HistoryOf
  <2>3. HeapTypeOK'
    BY <2>1, <2>2 DEF HeapInv, HeapTypeOK
  <2>4. ASSUME NEW C, IsChain(C), Separate(C), RootKept(C)
        PROVE  /\ Separate(C)' /\ RootKept(C)'
               /\ \A L : AreLabels(L) /\ LatestLabels(C, L) /\ Described(L) => LatestLabels(C, L)' /\ Described(L)'
               /\ \A W : AreWritten(W) /\ LatestHistory(C, W) => LatestHistory(C, W)'
    <3>1. C \subseteq DOMAIN stages
      BY <2>4 DEF IsChain
    <3>2. Separate(C)'
      BY <2>4 DEF Separate
    <3>3. /\ \A d \in C : \A L : LabelsFrom(d, L)' = LabelsFrom(d, L)
          /\ \A d \in C : \A W : HistoryFrom(d, W)' = HistoryFrom(d, W)
          /\ \A d \in C : \A m, n, under : Labelling(m, d, n, under)' <=> Labelling(m, d, n, under)
      BY <1>2, <3>1, ChainStays
    <3>4. ASSUME NEW d \in C, BaseOf(d)' = 0, Resolved(d)', ~Entered(d)'
          PROVE  /\ SameMap(LabelsOf(image[d])', LabelsFrom(d, <<>>)')
                 /\ HistoryOf(image[d].history)' = HistoryFrom(d, <<>>)'
      <4>1. SameMap(LabelsOf(image[d]), LabelsFrom(d, <<>>)) /\ HistoryOf(image[d].history) = HistoryFrom(d, <<>>)
        BY <2>1, <2>2, <2>4, <3>1, <3>4 DEF RootKept
      <4> QED BY <2>2, <3>3, <4>1
    <3>5. RootKept(C)'
      BY <3>4 DEF RootKept, SameMap
    <3>6. \A d : Latest(C, d)' => Latest(C, d) /\ d \in C /\ d \in DOMAIN stages
      BY <2>2, <3>1 DEF Latest
    <3>7. ASSUME NEW L, LatestLabels(C, L) PROVE LatestLabels(C, L)'
      <4> SUFFICES ASSUME phase \in {"dispatch", "finish"}, NEW d, Latest(C, d)'
                   PROVE  Labelling(LabelsOf(image[d]), d, Done(d), LabelsFrom(d, L))'
        BY Zenon DEF LatestLabels
      <4>1. PICK m, n, under : m = LabelsOf(image[d]) /\ n = Done(d) /\ under = LabelsFrom(d, L)
        OBVIOUS
      <4>2. Labelling(m, d, n, under)
        BY <3>6, <3>7, <4>1 DEF LatestLabels
      <4>3. m = LabelsOf(image[d])' /\ n = Done(d)' /\ under = LabelsFrom(d, L)'
        BY <2>2, <3>3, <3>6, <4>1
      <4>4. Labelling(m, d, n, under)'
        BY <3>3, <3>6, <4>2
      <4> QED BY <4>3, <4>4
    <3>8. \A L : Described(L) => Described(L)'
      BY <2>1 DEF Described, LabelsOf
    <3>9. ASSUME NEW W, LatestHistory(C, W) PROVE LatestHistory(C, W)'
      <4> SUFFICES ASSUME NEW d, Latest(C, d)'
                   PROVE  HistoryOf(image[d].history)' = HistoryFrom(d, W)' \o SubSeq(Lines(d)', 1, Done(d)')
        BY DEF LatestHistory
      <4>1. HistoryOf(image[d].history) = HistoryFrom(d, W) \o SubSeq(Lines(d), 1, Done(d))
        BY <3>6, <3>9 DEF LatestHistory
      <4> QED BY <2>1, <2>2, <3>3, <3>6, <4>1
    <3> QED BY <3>2, <3>5, <3>7, <3>8, <3>9
  <2>5. \A C : IsChain(C) /\ Separate(C) /\ RootKept(C) =>
            /\ Separate(C)' /\ RootKept(C)'
            /\ \A L : AreLabels(L) /\ LatestLabels(C, L) /\ Described(L) => LatestLabels(C, L)' /\ Described(L)'
            /\ \A W : AreWritten(W) /\ LatestHistory(C, W) => LatestHistory(C, W)'
    BY <2>4
  <2>6. phase' = "inspect" => image'[t].labels # 0
    BY DEF HeapInv
  <2> QED BY <1>2, <2>3, <2>5, <2>6, HeapSteps
<1> QED BY <1>1, <1>2

LEMMA HeapStays == FilesInv /\ HeapInv /\ [Next]_vars => FilesInv' /\ HeapInv'
<1> SUFFICES ASSUME FilesInv, HeapInv, [Next]_vars PROVE FilesInv' /\ HeapInv'
  OBVIOUS
<1>1. FilesInv'
  BY FilesStay
<1>2. ASSUME NEW r \in Recipes, Begin(r) PROVE HeapInv'
  BY <1>1, <1>2, BeginKeepsHeap
<1>3. CASE ParseRefused \/ ResolveFails \/ DispatchCmdFails \/ ExpandPanics \/ LintError \/ InspectFails
  <2>1. Fail \/ Panic
    BY <1>3 DEF ParseRefused, ResolveFails, DispatchCmdFails, ExpandPanics, LintError, InspectFails
  <2> QED BY <1>1, <2>1, EndKeepsHeap
<1>4. CASE ParseArgument \/ ParseNext \/ ParseStage \/ ResolveNothing \/ DispatchStage
  BY <1>1, <1>4, LoopKeepsHeap
<1>5. CASE ResolveImage
  BY <1>1, <1>5, ResolveImageKeepsHeap
<1>6. CASE Enter
  BY <1>1, <1>6, EnterKeepsHeap
<1>7. CASE DispatchLabel \/ DispatchFile \/ DispatchCmd
  BY <1>1, <1>7, DispatchKeepsHeap
<1>8. CASE Finish
  BY <1>1, <1>8, FinishKeepsHeap
<1>9. CASE Describe
  BY <1>1, <1>9, DescribeKeepsHeap
<1>10. CASE Inspect
  BY <1>1, <1>10, InspectKeepsHeap
<1>11. CASE Push
  BY <1>1, <1>11, PushKeepsHeap
<1>12. CASE UNCHANGED vars
  <2>1. UNCHANGED <<registry, phase, recipe, stages, s, k, image, maps, arrays>>
    BY <1>12 DEF vars, result, heap
  <2> QED BY <1>1, <2>1, HeapStutters
<1> QED BY <1>1, <1>2, <1>3, <1>4, <1>5, <1>6, <1>7, <1>8, <1>9, <1>10, <1>11, <1>12 DEF Next

LEMMA HeapHolds == Spec => [](FilesInv /\ HeapInv)
BY FilesInitially, HeapInitially, HeapStays, PTL DEF Spec

(* What the properties ask for *)

\* The labels that each stage ends with.
LEMMA LabelledIs ==
    ASSUME FilesInv, phase # "idle"
    PROVE  \E L : /\ L = [d \in 1..Len(stages) |-> Over(OwnLabels(d), LabelsFrom(d, L))]
                  /\ \A d0 : Labelled(d0) = L[d0]
<1> DEFINE N == Len(stages)
           P(d, f) == Over(OwnLabels(d), IF BaseOf(d) # 0 THEN f[BaseOf(d)]
                                         ELSE IF FromRegistry(d) THEN registry[stages[d].base].labels ELSE NoLabels)
           S == {n \in Nat : n <= N => \E f : f = [d \in 1..n |-> P(d, f)]}
           F == CHOOSE f : f = [d \in 1..N |-> P(d, f)]
<1>1. N \in Nat /\ DOMAIN stages = 1..N
  BY StageType DEF FilesInv, TypeOK
<1>2. \A d \in 1..N : BaseOf(d) # 0 => BaseOf(d) \in 1..(d - 1)
  BY <1>1, BaseOfType
<1>3. ASSUME NEW d, NEW f, NEW g, BaseOf(d) # 0 => f[BaseOf(d)] = g[BaseOf(d)] PROVE P(d, f) = P(d, g)
  BY <1>3, Zenon
<1>4. 0 \in S
  <2>1. PICK f : f = [d \in 1..0 |-> 0]
    OBVIOUS
  <2>2. f = [d \in 1..0 |-> P(d, f)]
    <3> HIDE DEF P
    <3> QED BY <2>1
  <2> HIDE DEF P
  <2> QED BY <2>2
<1>5. ASSUME NEW n \in S PROVE n + 1 \in S
  <2> HIDE DEF P
  <2> SUFFICES ASSUME n + 1 <= N PROVE \E f : f = [d \in 1..n + 1 |-> P(d, f)]
    OBVIOUS
  <2>1. n \in Nat /\ n <= N
    BY <1>1
  <2>2. PICK f : f = [d \in 1..n |-> P(d, f)]
    BY <2>1
  <2> DEFINE g == [d \in 1..n + 1 |-> IF d <= n THEN f[d] ELSE P(d, f)]
  <2>3. ASSUME NEW d \in 1..n + 1 PROVE g[d] = P(d, g)
    <3>1. d \in 1..N
      BY <1>1, <2>1
    <3>2. BaseOf(d) # 0 => f[BaseOf(d)] = g[BaseOf(d)]
      BY <1>2, <2>1, <3>1
    <3>3. P(d, f) = P(d, g)
      BY <1>3, <3>2
    <3>4. g[d] = P(d, f)
      BY <2>1, <2>2
    <3> QED BY <3>3, <3>4
  <2>4. g = [d \in 1..n + 1 |-> g[d]]
    OBVIOUS
  <2> HIDE DEF g
  <2>5. g = [d \in 1..n + 1 |-> P(d, g)]
    BY <2>3, <2>4, Zenon
  <2> QED BY <2>5
<1>6. \E f : f = [d \in 1..N |-> P(d, f)]
  <2>1. S \in SUBSET Nat
    <3> HIDE DEF P
    <3> QED OBVIOUS
  <2> HIDE DEF S, P
  <2>2. S = Nat
    BY <1>4, <1>5, <2>1, Induction
  <2> QED BY <1>1, <2>2 DEF S
<1>7. F = [d \in 1..N |-> P(d, F)]
  <2> HIDE DEF P
  <2> QED BY <1>6, Zenon
<1>8. \A d0 : Labelled(d0) = F[d0]
  BY Zenon DEF Labelled
<1>9. F = [d \in 1..Len(stages) |-> Over(OwnLabels(d), LabelsFrom(d, F))]
  <2> HIDE DEF F
  <2> QED BY <1>7, Zenon DEF LabelsFrom
<1> QED BY <1>8, <1>9, Zenon

\* The history that each stage ends with.
LEMMA WrittenIs ==
    ASSUME FilesInv, phase # "idle"
    PROVE  \E W : /\ W = [d \in 1..Len(stages) |-> HistoryFrom(d, W) \o Lines(d)]
                  /\ \A d0 : Written(d0) = W[d0]
<1> DEFINE N == Len(stages)
           P(d, f) == (IF BaseOf(d) # 0 THEN f[BaseOf(d)]
                       ELSE IF FromRegistry(d) THEN registry[stages[d].base].history ELSE <<>>)
                      \o [j \in DOMAIN stages[d].cmds |-> <<stages[d].cmds[j].op, stages[d].name>>]
           S == {n \in Nat : n <= N => \E f : f = [d \in 1..n |-> P(d, f)]}
           F == CHOOSE f : f = [d \in 1..N |-> P(d, f)]
<1>1. N \in Nat /\ DOMAIN stages = 1..N
  BY StageType DEF FilesInv, TypeOK
<1>2. \A d \in 1..N : BaseOf(d) # 0 => BaseOf(d) \in 1..(d - 1)
  BY <1>1, BaseOfType
<1>3. ASSUME NEW d, NEW f, NEW g, BaseOf(d) # 0 => f[BaseOf(d)] = g[BaseOf(d)] PROVE P(d, f) = P(d, g)
  BY <1>3, Zenon
<1>4. 0 \in S
  <2>1. PICK f : f = [d \in 1..0 |-> 0]
    OBVIOUS
  <2>2. f = [d \in 1..0 |-> P(d, f)]
    <3> HIDE DEF P
    <3> QED BY <2>1
  <2> HIDE DEF P
  <2> QED BY <2>2
<1>5. ASSUME NEW n \in S PROVE n + 1 \in S
  <2> HIDE DEF P
  <2> SUFFICES ASSUME n + 1 <= N PROVE \E f : f = [d \in 1..n + 1 |-> P(d, f)]
    OBVIOUS
  <2>1. n \in Nat /\ n <= N
    BY <1>1
  <2>2. PICK f : f = [d \in 1..n |-> P(d, f)]
    BY <2>1
  <2> DEFINE g == [d \in 1..n + 1 |-> IF d <= n THEN f[d] ELSE P(d, f)]
  <2>3. ASSUME NEW d \in 1..n + 1 PROVE g[d] = P(d, g)
    <3>1. d \in 1..N
      BY <1>1, <2>1
    <3>2. BaseOf(d) # 0 => f[BaseOf(d)] = g[BaseOf(d)]
      BY <1>2, <2>1, <3>1
    <3>3. P(d, f) = P(d, g)
      BY <1>3, <3>2
    <3>4. g[d] = P(d, f)
      BY <2>1, <2>2
    <3> QED BY <3>3, <3>4
  <2>4. g = [d \in 1..n + 1 |-> g[d]]
    OBVIOUS
  <2> HIDE DEF g
  <2>5. g = [d \in 1..n + 1 |-> P(d, g)]
    BY <2>3, <2>4, Zenon
  <2> QED BY <2>5
<1>6. \E f : f = [d \in 1..N |-> P(d, f)]
  <2>1. S \in SUBSET Nat
    <3> HIDE DEF P
    <3> QED OBVIOUS
  <2> HIDE DEF S, P
  <2>2. S = Nat
    BY <1>4, <1>5, <2>1, Induction
  <2> QED BY <1>1, <2>2 DEF S
<1>7. F = [d \in 1..N |-> P(d, F)]
  <2> HIDE DEF P
  <2> QED BY <1>6, Zenon
<1>8. \A d0 : Written(d0) = F[d0]
  BY Zenon DEF Written
<1>9. F = [d \in 1..Len(stages) |-> HistoryFrom(d, F) \o Lines(d)]
  <2> HIDE DEF F
  <2> QED BY <1>7, Zenon DEF HistoryFrom, Lines
<1> QED BY <1>8, <1>9, Zenon

\* The last of the commands that set a label gives its value.
LEMMA OwnLabelsAre ==
    ASSUME FilesInv, phase # "idle", NEW d \in DOMAIN stages
    PROVE  /\ \A key : key \in DOMAIN OwnLabels(d) <=> \E j \in LabelsAt(d) : stages[d].cmds[j].key = key
           /\ \A j : IsLast(d, Len(stages[d].cmds), j) => OwnLabels(d)[stages[d].cmds[j].key] = stages[d].cmds[j].value
<1> DEFINE Keys == {stages[d].cmds[j].key : j \in LabelsAt(d)}
           Q(key, j) == /\ stages[d].cmds[j].key = key
                        /\ \A h \in LabelsAt(d) : stages[d].cmds[h].key = key => h <= j
<1>1. OwnLabels(d) = [key \in Keys |-> stages[d].cmds[CHOOSE j \in LabelsAt(d) : Q(key, j)].value]
  BY DEF OwnLabels
<1>2. LabelsAt(d) \subseteq Nat /\ LabelsUpTo(d, Len(stages[d].cmds)) = LabelsAt(d)
  BY LabelsAtType
<1>3. DOMAIN OwnLabels(d) = Keys
  <2> HIDE DEF Keys, Q
  <2> QED BY <1>1
<1>4. ASSUME NEW j, IsLast(d, Len(stages[d].cmds), j)
      PROVE  OwnLabels(d)[stages[d].cmds[j].key] = stages[d].cmds[j].value
  <2> DEFINE key == stages[d].cmds[j].key
             c == CHOOSE h \in LabelsAt(d) : Q(key, h)
  <2>1. j \in LabelsAt(d) /\ Q(key, j)
    BY <1>2, <1>4 DEF IsLast
  <2>2. c \in LabelsAt(d) /\ Q(key, c)
    <3> HIDE DEF Q, key
    <3> QED BY <2>1, Zenon
  <2>3. c = j
    <3>1. c <= j /\ j <= c
      <4> HIDE DEF c
      <4> QED BY <2>1, <2>2
    <3>2. c \in Nat /\ j \in Nat
      BY <1>2, <2>1, <2>2, Zenon
    <3> HIDE DEF c
    <3> QED BY <3>1, <3>2
  <2>4. key \in Keys
    BY <2>1
  <2>5. OwnLabels(d)[key] = stages[d].cmds[c].value
    <3> HIDE DEF Q, Keys, key
    <3> QED BY <1>1, <2>4, Zenon
  <2> HIDE DEF c
  <2> QED BY <2>3, <2>5
<1> QED BY <1>3, <1>4

LEMMA LabelledAreLabels ==
    ASSUME FilesInv, phase # "idle", NEW L, L = [d \in 1..Len(stages) |-> Over(OwnLabels(d), LabelsFrom(d, L))]
    PROVE  AreLabels(L)
<1> SUFFICES ASSUME NEW d \in DOMAIN stages PROVE Labelling(L[d], d, Len(stages[d].cmds), LabelsFrom(d, L))
  BY DEF AreLabels
<1>1. DOMAIN stages = 1..Len(stages)
  BY StageType DEF FilesInv, TypeOK
<1>2. PICK m, o, under, n : /\ m = L[d] /\ o = OwnLabels(d) /\ under = LabelsFrom(d, L)
                            /\ n = Len(stages[d].cmds)
  OBVIOUS
<1>3. m = Over(o, under)
  BY <1>1, <1>2, Zenon
<1>4. \A key : /\ key \in DOMAIN m <=> key \in DOMAIN o \/ key \in DOMAIN under
               /\ key \in DOMAIN o => m[key] = o[key]
               /\ key \in DOMAIN under /\ key \notin DOMAIN o => m[key] = under[key]
  BY <1>3, OverType
<1>5. LabelsUpTo(d, n) = LabelsAt(d)
  BY <1>2, LabelsAtType
<1>6. /\ \A key : key \in DOMAIN o <=> \E j \in LabelsUpTo(d, n) : stages[d].cmds[j].key = key
      /\ \A j : IsLast(d, n, j) => o[stages[d].cmds[j].key] = stages[d].cmds[j].value
  <2>1. /\ \A key : key \in DOMAIN o <=> \E j \in LabelsAt(d) : stages[d].cmds[j].key = key
        /\ \A j : IsLast(d, n, j) => o[stages[d].cmds[j].key] = stages[d].cmds[j].value
    BY <1>2, OwnLabelsAre
  <2> QED BY <1>5, <2>1
<1>7. ASSUME NEW j, IsLast(d, n, j) PROVE m[stages[d].cmds[j].key] = stages[d].cmds[j].value
  <2>1. j \in LabelsUpTo(d, n)
    BY <1>7 DEF IsLast
  <2> QED BY <1>4, <1>6, <1>7, <2>1, Zenon
<1>8. \A key : key \in DOMAIN m <=> key \in DOMAIN under \/ \E j \in LabelsUpTo(d, n) : stages[d].cmds[j].key = key
  BY <1>4, <1>6, Zenon
<1>9. \A key \in DOMAIN under :
          (\A j \in LabelsUpTo(d, n) : stages[d].cmds[j].key # key) => m[key] = under[key]
  BY <1>4, <1>6, Zenon
<1>10. Labelling(m, d, n, under)
  BY <1>7, <1>8, <1>9, Zenon DEF Labelling
<1> QED BY <1>2, <1>10

LEMMA WrittenAreWritten ==
    ASSUME FilesInv, HeapTypeOK, phase # "idle", \A d \in DOMAIN stages : Resolved(d),
           NEW W, W = [d \in 1..Len(stages) |-> HistoryFrom(d, W) \o Lines(d)]
    PROVE  AreWritten(W)
<1> DEFINE N == Len(stages)
           Bad == {d \in 1..N : W[d] \notin Seq(Line)}
<1> HIDE DEF Line
<1>1. N \in Nat /\ DOMAIN stages = 1..N
  BY StageType DEF FilesInv, TypeOK
<1>2. \A d \in 1..N : BaseOf(d) # 0 => BaseOf(d) \in 1..(d - 1)
  BY <1>1, BaseOfType
<1>3. \A d \in 1..N : W[d] = HistoryFrom(d, W) \o Lines(d)
  BY Zenon
<1>4. Bad = {}
  <2> SUFFICES ASSUME Bad # {} PROVE FALSE
    OBVIOUS
  <2>1. PICK d \in Bad : \A e \in Bad : d <= e
    <3>1. Bad \in SUBSET Nat
      BY <1>1
    <3> HIDE DEF Bad
    <3> QED BY <3>1, LeastNumber
  <2>2. d \in 1..N /\ W[d] \notin Seq(Line)
    BY <2>1
  <2>3. BaseOf(d) # 0 => W[BaseOf(d)] \in Seq(Line)
    <3> SUFFICES ASSUME BaseOf(d) # 0, W[BaseOf(d)] \notin Seq(Line) PROVE FALSE
      OBVIOUS
    <3>1. BaseOf(d) \in 1..(d - 1) /\ BaseOf(d) \in 1..N
      BY <1>1, <1>2, <2>2
    <3>2. BaseOf(d) \in Bad
      BY <3>1
    <3>3. d <= BaseOf(d)
      BY <2>1, <3>2
    <3> QED BY <2>2, <3>1, <3>3
  <2>4. HistoryFrom(d, W) \in Seq(Line)
    BY <1>1, <2>2, <2>3, HistoryFromType
  <2>5. Lines(d) \in Seq(Line)
    BY <1>1, <2>2, LinesType
  <2>6. HistoryFrom(d, W) \o Lines(d) \in Seq(Line)
    BY <2>4, <2>5
  <2> QED BY <1>3, <2>2, <2>6
<1>5. \A d \in 1..N : W[d] \in Seq(Line)
  BY <1>4
<1>6. W \in [DOMAIN stages -> Seq(Line)]
  <2>1. W = [d \in 1..N |-> W[d]]
    BY <1>3, Zenon
  <2> QED BY <1>1, <1>5, <2>1, Zenon
<1> QED BY <1>1, <1>3, <1>6, Zenon DEF AreWritten

\* The stages that the target is made from are a chain, when no other starts from them.
LEMMA ChainIs ==
    ASSUME FilesInv, phase # "idle", Alone
    PROVE  IsChain(ChainOf(t))
<1> DEFINE N == Len(stages)
           d0 == t
           P(d, f) == d = d0 \/ \E e \in (d + 1)..N : BaseOf(e) = d /\ f[e]
           F == CHOOSE f : f = [d \in 1..N |-> P(d, f)]
           Closed(S) == d0 \in S /\ \A e \in S : BaseOf(e) # 0 => BaseOf(e) \in S
           Up == {d \in 1..N : \A S \in SUBSET (1..N) : Closed(S) => d \in S}
<1>1. N \in Nat /\ DOMAIN stages = 1..N
  BY StageType DEF FilesInv, TypeOK
<1>2. d0 \in 1..N
  BY <1>1, TargetType
<1>3. \A e \in 1..N : BaseOf(e) # 0 => BaseOf(e) \in 1..(e - 1) /\ BaseOf(e) \in 1..N
  <2>1. \A e \in 1..N : BaseOf(e) # 0 => BaseOf(e) \in 1..(e - 1)
    BY <1>1, BaseOfType
  <2> QED BY <1>1, <2>1
<1> HIDE DEF d0, N
<1>4. Up \in SUBSET (1..N) /\ d0 \in Up
  BY <1>2
<1>5. \A e \in Up : BaseOf(e) # 0 => BaseOf(e) \in Up
  BY <1>3
<1>6. ASSUME NEW d \in Up, d # d0 PROVE \E e \in (d + 1)..N : BaseOf(e) = d /\ e \in Up
  <2> SUFFICES ASSUME \A e \in (d + 1)..N : ~(BaseOf(e) = d /\ e \in Up) PROVE FALSE
    OBVIOUS
  <2> DEFINE T == Up \ {d}
  <2>1. ASSUME NEW e \in T, BaseOf(e) # 0 PROVE BaseOf(e) \in T
    <3>1. BaseOf(e) \in Up /\ e \in Up /\ e \in 1..N /\ d \in 1..N
      BY <1>4, <1>5, <2>1
    <3> HIDE DEF Up
    <3>2. BaseOf(e) # d
      <4> SUFFICES ASSUME BaseOf(e) = d PROVE FALSE
        OBVIOUS
      <4>1. e \in (d + 1)..N
        BY <1>1, <1>3, <2>1, <3>1
      <4> QED BY <3>1, <4>1
    <3> QED BY <3>1, <3>2
  <2>2. T \in SUBSET (1..N) /\ d0 \in T /\ d \notin T
    BY <1>4, <1>6
  <2>3. \A S \in SUBSET (1..N) : Closed(S) => d \in S
    BY <1>6
  <2> HIDE DEF T, Up
  <2> QED BY <2>1, <2>2, <2>3
<1>7. ASSUME NEW d \in 1..N, NEW e \in (d + 1)..N, BaseOf(e) = d, e \in Up PROVE d \in Up
  <2>1. d # 0
    BY <1>1
  <2> HIDE DEF Up
  <2> QED BY <1>5, <1>7, <2>1
<1> HIDE DEF Up
<1>8. \E f : f = [d \in 1..N |-> P(d, f)]
  <2> DEFINE g == [d \in 1..N |-> d \in Up]
  <2>1. ASSUME NEW d \in 1..N PROVE g[d] = P(d, g)
    <3>1. \A e \in (d + 1)..N : e \in 1..N
      BY <1>1
    <3>2. d \in Up <=> d = d0 \/ \E e \in (d + 1)..N : BaseOf(e) = d /\ e \in Up
      BY <1>4, <1>6, <1>7, Zenon
    <3>3. P(d, g) <=> d = d0 \/ \E e \in (d + 1)..N : BaseOf(e) = d /\ e \in Up
      <4>1. \A e \in (d + 1)..N : g[e] <=> e \in Up
        BY <3>1, Zenon
      <4> HIDE DEF g
      <4> QED BY <4>1, Zenon
    <3>4. g[d] = (d \in Up)
      BY Zenon
    <3>5. P(d, g) = (d \in Up)
      <4> HIDE DEF g
      <4>1. P(d, g) <=> d \in Up
        BY <3>2, <3>3, Zenon
      <4> QED BY <4>1
    <3> HIDE DEF g, P
    <3> QED BY <3>4, <3>5, Zenon
  <2>2. g = [d \in 1..N |-> g[d]]
    BY Zenon
  <2> HIDE DEF g, P
  <2>3. g = [d \in 1..N |-> P(d, g)]
    BY <2>1, <2>2, Zenon
  <2> QED BY <2>3
<1>9. F = [d \in 1..N |-> P(d, F)]
  <2> HIDE DEF P
  <2> QED BY <1>8, Zenon
<1>10. ChainOf(t) = {d \in 1..N : F[d]}
  BY Zenon DEF ChainOf, d0, N
<1> HIDE DEF F
<1>11. PICK C : C = ChainOf(t)
  OBVIOUS
<1>12. \A d : d \in C <=> d \in 1..N /\ (d = d0 \/ \E e \in (d + 1)..N : BaseOf(e) = d /\ F[e])
  <2>1. \A d \in 1..N : F[d] = P(d, F)
    <3> HIDE DEF P
    <3> QED BY <1>9, Zenon
  <2> QED BY <1>10, <1>11, <2>1, Zenon
<1>13. \A d : d \in C <=> d \in 1..N /\ F[d]
  BY <1>10, <1>11, Zenon
<1>14. C \subseteq 1..N /\ d0 \in C
  BY <1>2, <1>12, Zenon
<1>15. ASSUME NEW d \in C, BaseOf(d) # 0 PROVE BaseOf(d) \in C
  <2>1. PICK b : b = BaseOf(d)
    OBVIOUS
  <2>2. b \in 1..N /\ d \in 1..N /\ d \in (b + 1)..N
    BY <1>1, <1>3, <1>14, <1>15, <2>1
  <2>3. F[d]
    BY <1>13, Zenon
  <2> QED BY <1>12, <2>1, <2>2, <2>3, Zenon
<1>16. ASSUME NEW d \in C, d # d0 PROVE \E e \in C : BaseOf(e) = d
  <2>1. PICK e \in (d + 1)..N : BaseOf(e) = d /\ F[e]
    BY <1>12, <1>16, Zenon
  <2>2. e \in 1..N
    BY <1>1, <1>14
  <2> QED BY <1>13, <2>1, <2>2, Zenon
<1>17. \A d \in DOMAIN stages : BaseOf(d) \in C => d \in C
  BY <1>11 DEF Alone
<1>18. IsChain(C)
  BY <1>1, <1>14, <1>15, <1>16, <1>17, Zenon DEF IsChain, d0, N
<1> QED BY <1>11, <1>18

\* "All labels can be overridden" (README): the image that is pushed has the
\* labels of the options over those of LABEL, these over those of the base
\* image, and beside them only what the builder finds, whatever the recipe is,
\* as long as no stage beside the chain of the target starts from a stage of it.
THEOREM LabelsPrevailHolds == Spec => []LabelsPrevail
<1>1. FilesInv /\ HeapInv => LabelsPrevail
  <2> SUFFICES ASSUME FilesInv, HeapInv, Built, Alone PROVE LabelsAreRight
    BY DEF LabelsPrevail
  <2>1. phase = "inspect" /\ phase # "idle"
    BY DEF Built
  <2>2. IsChain(ChainOf(t))
    BY <2>1, ChainIs
  <2>3. PICK L : /\ L = [d \in 1..Len(stages) |-> Over(OwnLabels(d), LabelsFrom(d, L))]
                 /\ \A d0 : Labelled(d0) = L[d0]
    BY <2>1, LabelledIs
  <2>4. AreLabels(L)
    BY <2>1, <2>3, LabelledAreLabels
  <2>5. Described(L)
    BY <2>2, <2>4, Zenon DEF HeapInv
  <2>6. Labelled(t) = L[t]
    BY <2>3, Zenon
  <2>7. PICK asked, labels : asked = Over(recipe.labels, L[t]) /\ labels = LabelsOf(image[t])
    OBVIOUS
  <2>8. /\ \A key \in DOMAIN asked : key \in DOMAIN labels /\ labels[key] = asked[key]
        /\ \A key \in DOMAIN labels : key \in DOMAIN asked \/ (phase = "inspect" /\ key \in {"base.name", "architecture"})
    BY <2>1, <2>5, <2>7, Zenon DEF Described
  <2>9. DOMAIN labels \subseteq DOMAIN asked \cup {"base.name", "architecture"}
    BY <2>8
  <2> QED BY <2>6, <2>7, <2>8, <2>9, Zenon DEF LabelsAreRight
<1> QED BY <1>1, HeapHolds, PTL

\* The history of the image that is pushed is that of the base image and then
\* a line per instruction of the chain of stages, in order, however often the
\* arrays that hold it are shared and grow, as long as no stage beside the
\* chain starts from a stage of it.
THEOREM HistoryIsWholeHolds == Spec => []HistoryIsWhole
<1>1. FilesInv /\ HeapInv => HistoryIsWhole
  <2> SUFFICES ASSUME FilesInv, HeapInv, Built, Alone PROVE HistoryIsRight
    BY DEF HistoryIsWhole
  <2>1. phase = "inspect" /\ phase # "idle" /\ HeapTypeOK
    BY DEF Built, HeapInv
  <2>2. PICK C : C = ChainOf(t) /\ IsChain(C)
    BY <2>1, ChainIs
  <2>3. PICK W : /\ W = [d \in 1..Len(stages) |-> HistoryFrom(d, W) \o Lines(d)]
                 /\ \A d0 : Written(d0) = W[d0]
    BY <2>1, WrittenIs
  <2>4. \A d \in DOMAIN stages : Resolved(d)
    BY <2>1 DEF Resolved, Late
  <2>5. AreWritten(W)
    BY <2>1, <2>3, <2>4, WrittenAreWritten
  <2>6. LatestHistory(C, W)
    BY <2>2, <2>5, Zenon DEF HeapInv
  <2>7. t \in C /\ t \in DOMAIN stages /\ \A d \in C : d <= t
    BY <2>2, TargetIsLast DEF IsChain
  <2>8. Latest(C, t) /\ Done(t) = Len(stages[t].cmds)
    BY <2>1, <2>7 DEF Latest, Entered, Late, Done
  <2>9. HistoryOf(image[t].history) = HistoryFrom(t, W) \o SubSeq(Lines(t), 1, Len(stages[t].cmds))
    BY <2>6, <2>8, Zenon DEF LatestHistory
  <2>10. Lines(t) \in Seq(Line) /\ Len(Lines(t)) = Len(stages[t].cmds)
    BY <2>1, <2>7, LinesType
  <2>11. SubSeq(Lines(t), 1, Len(stages[t].cmds)) = Lines(t)
    BY <2>10, WholeSeq, Zenon
  <2>12. W[t] = HistoryFrom(t, W) \o Lines(t)
    BY <2>5, <2>7, Zenon DEF AreWritten
  <2> QED BY <2>3, <2>9, <2>11, <2>12, Zenon DEF HistoryIsRight
<1> QED BY <1>1, HeapHolds, PTL
=============================================================================
