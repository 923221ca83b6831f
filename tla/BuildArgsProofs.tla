-------------------------- MODULE BuildArgsProofs --------------------------
(***************************************************************************)
(* The values that are given with a build prevail over every default, and  *)
(* the global arguments have one value in all stages, for every recipe:    *)
(* any number of global arguments, of stages and of their arguments.  The  *)
(* outline of a target has all that it and its bases use.                  *)
(***************************************************************************)
EXTENDS BuildArgs, Integers, TLAPS, WellFoundedInduction, FiniteSetTheorems

(***************************************************************************)
(* Numbers.  The induction theorems of the library have an operator as a   *)
(* parameter; the least element of a set of numbers has not.               *)
(***************************************************************************)

LEMMA LeastNumber ==
    ASSUME NEW T \in SUBSET Nat, T # {}
    PROVE  \E m \in T : \A t \in T : m <= t
<1> DEFINE R == {p \in Nat \X Nat : p[1] < p[2]}
<1>1. IsWellFoundedOn(R, Nat)
  BY NatLessThanWellFounded, Zenon DEF OpToRel
<1>2. \E x \in T : \A y \in T : <<y, x>> \notin R
  <2> HIDE DEF R
  <2> QED BY <1>1, WFMin, Zenon
<1>3. PICK x \in T : \A y \in T : <<y, x>> \notin R
  BY <1>2
<1>4. \A y \in T : ~(y < x)
  BY <1>3
<1> QED BY <1>3, <1>4

LEMMA Induction ==
    ASSUME NEW S \in SUBSET Nat, 0 \in S, \A n \in S : n + 1 \in S
    PROVE  S = Nat
<1> SUFFICES ASSUME Nat \ S # {} PROVE FALSE
  OBVIOUS
<1>1. PICK m \in Nat \ S : \A x \in Nat \ S : m <= x
  BY LeastNumber
<1>2. m # 0 /\ m - 1 \in Nat
  BY <1>1
<1>3. m - 1 \in S
  BY <1>1, <1>2
<1> QED BY <1>1, <1>3

LEMMA GreatestNumber ==
    ASSUME NEW n \in Nat, NEW T \in SUBSET (1..n), T # {}
    PROVE  \E m \in T : \A t \in T : t <= m
<1> DEFINE D == {n - x : x \in T}
<1>1. D \in SUBSET Nat /\ D # {}
  <2>1. \A x \in T : n - x \in Nat
    OBVIOUS
  <2> QED BY <2>1
<1>2. PICK d \in D : \A x \in D : d <= x
  BY <1>1, LeastNumber
<1>3. PICK m \in T : d = n - m
  BY <1>2
<1>4. ASSUME NEW t \in T PROVE t <= m
  <2>1. n - t \in D
    OBVIOUS
  <2>2. d <= n - t
    BY <1>2, <2>1
  <2> QED BY <1>3, <2>2
<1> QED BY <1>3, <1>4

(***************************************************************************)
(* The environment that arguments make                                     *)
(***************************************************************************)

Value == STRING \cup {"", Nil}
MetaArg == [key : Key, value : Value]

\* The arguments whose key has a value among some have this one.
Agree(args, values) ==
    \A i \in 1..Len(args) : args[i].key \in DOMAIN values => args[i].value = values[args[i].key]

LEMMA EnvDomain == \A args : DOMAIN ArgsToEnvs(args) = {args[i].key : i \in 1..Len(args)}
BY DEF ArgsToEnvs

\* The value of a key is that of an argument that has it.
LEMMA EnvValue ==
    ASSUME NEW args \in Seq(MetaArg), NEW k \in DOMAIN ArgsToEnvs(args)
    PROVE  \E i \in 1..Len(args) : args[i].key = k /\ ArgsToEnvs(args)[k] = args[i].value
<1> DEFINE T == {i \in 1..Len(args) : args[i].key = k}
           Last(i) == args[i].key = k /\ \A j \in i + 1..Len(args) : args[j].key # k
<1>1. T # {} /\ T \in SUBSET (1..Len(args)) /\ Len(args) \in Nat
  <2>1. \E i \in 1..Len(args) : k = args[i].key
    <3>1. k \in {args[i].key : i \in 1..Len(args)}
      BY EnvDomain, Zenon
    <3> QED BY <3>1, Zenon
  <2> QED BY <2>1
<1>2. PICK m \in T : \A t \in T : t <= m
  BY <1>1, GreatestNumber
<1>3. m \in 1..Len(args) /\ Last(m)
  BY <1>1, <1>2
<1>4. ArgsToEnvs(args)[k] = LET i == CHOOSE i \in 1..Len(args) : Last(i) IN args[i].value
  BY EnvDomain DEF ArgsToEnvs
<1>5. (CHOOSE i \in 1..Len(args) : Last(i)) \in 1..Len(args) /\ Last(CHOOSE i \in 1..Len(args) : Last(i))
  <2> HIDE DEF Last
  <2> QED BY <1>3
<1> QED BY <1>4, <1>5

LEMMA EnvAgrees ==
    ASSUME NEW args \in Seq(MetaArg), NEW values, Agree(args, values)
    PROVE  \A k \in DOMAIN ArgsToEnvs(args) \cap DOMAIN values : ArgsToEnvs(args)[k] = values[k]
BY EnvValue DEF Agree

\* A word is expanded to a value.
LEMMA Expansion ==
    ASSUME NEW args \in Seq(MetaArg), NEW word \in Word
    PROVE  Expand(word, MetaArgsToEnvs(args)) \in Value
<1> DEFINE e == MetaArgsToEnvs(args)
<1>1. \A k \in DOMAIN e : e[k] \in Value
  <2>1. ASSUME NEW k \in DOMAIN ArgsToEnvs(args) PROVE ArgsToEnvs(args)[k] \in Value
    <3>1. PICK i \in 1..Len(args) : ArgsToEnvs(args)[k] = args[i].value
      BY EnvValue
    <3>2. args[i] \in MetaArg
      OBVIOUS
    <3> QED BY <3>1, <3>2 DEF MetaArg
  <2> QED BY <2>1 DEF MetaArgsToEnvs, Value
<1> HIDE DEF e
<1>2. word.of \in Value
  BY DEF Word, Value
<1>3. Expand(word, e) \in Value
  BY <1>1, <1>2 DEF Expand, Value
<1> QED BY <1>3 DEF e

(***************************************************************************)
(* The global arguments                                                    *)
(***************************************************************************)

\* The loop over the global arguments goes through these.
Built(f, start, values) ==
    \A n \in 0..Len(recipe.globals) :
        f[n] = IF n = 0 THEN [args |-> start, all |-> [k \in {} |-> {}], failed |-> FALSE]
               ELSE AddMetaArg(f[n - 1], recipe.globals[n], values)

LEMMA BuiltExists ==
    ASSUME NEW start, NEW values, recipe.globals \in Seq(Arg)
    PROVE  \E f : Built(f, start, values) /\ BuildMetaArgs(start, values) = f[Len(recipe.globals)]
<1> DEFINE N == Len(recipe.globals)
           first == [args |-> start, all |-> [k \in {} |-> {}], failed |-> FALSE]
           add(b, n) == AddMetaArg(b, recipe.globals[n], values)
           Upto(f, n) == f = [m \in 0..n |-> IF m = 0 THEN first ELSE add(f[m - 1], m)]
           S == {n \in Nat : \E f : Upto(f, n)}
<1> HIDE DEF first, add
<1>1. 0 \in S
  <2>1. Upto([m \in 0..0 |-> first], 0)
    OBVIOUS
  <2> QED BY <2>1
<1>2. ASSUME NEW n \in S PROVE n + 1 \in S
  <2>1. PICK f : Upto(f, n)
    OBVIOUS
  <2> DEFINE g == [m \in 0..n + 1 |-> IF m = n + 1 THEN add(f[n], n + 1) ELSE f[m]]
  <2>2. \A m \in 0..n + 1 : g[m] = IF m = 0 THEN first ELSE add(g[m - 1], m)
    BY <2>1
  <2>3. Upto(g, n + 1)
    <3>1. g = [m \in 0..n + 1 |-> g[m]]
      OBVIOUS
    <3> HIDE DEF g
    <3> QED BY <2>2, <3>1
  <2>4. n + 1 \in Nat
    OBVIOUS
  <2>5. \E h : Upto(h, n + 1)
    BY <2>3
  <2> HIDE DEF Upto
  <2> QED BY <2>4, <2>5, Zenon
<1>3. N \in S
  <2>1. S = Nat
    <3> HIDE DEF S
    <3>1. S \in SUBSET Nat
      BY DEF S
    <3> QED BY <1>1, <1>2, <3>1, Induction
  <2> QED BY <2>1
<1>4. \E f : Upto(f, N)
  BY <1>3
<1> DEFINE F == CHOOSE f : Upto(f, N)
<1>5. Upto(F, N)
  BY <1>4, Zenon
<1>6. BuildMetaArgs(start, values) = F[N]
  BY Zenon DEF BuildMetaArgs, first, add
<1>7. Built(F, start, values)
  <2> HIDE DEF F
  <2> QED BY <1>5 DEF Built, first, add
<1> QED BY <1>6, <1>7, Zenon

\* What an outline keeps of arguments: the keys that each depends on.
Dependencies == UNION {[K -> SUBSET Key] : K \in SUBSET Key}

GlobalKeys == {recipe.globals[i].key : i \in 1..Len(recipe.globals)}
OnlyGlobals(m) == \A k \in DOMAIN m : m[k] # {} => k \in GlobalKeys

LEMMA MapsOfKeys ==
    ASSUME NEW m \in Dependencies
    PROVE  DOMAIN m \subseteq Key /\ m = [k \in DOMAIN m |-> m[k]] /\ \A k \in DOMAIN m : m[k] \subseteq Key
<1>1. PICK K \in SUBSET Key : m \in [K -> SUBSET Key]
  BY DEF Dependencies
<1> QED BY <1>1

LEMMA OneMoreKey ==
    ASSUME NEW m \in Dependencies, NEW k \in Key, NEW D \in SUBSET Key
    PROVE  /\ Over([x \in {k} |-> D], m) \in Dependencies
           /\ OnlyGlobals(m) /\ (D # {} => k \in GlobalKeys) => OnlyGlobals(Over([x \in {k} |-> D], m))
<1> DEFINE o == Over([x \in {k} |-> D], m)
<1>1. o = [x \in {k} \cup DOMAIN m |-> IF x = k THEN D ELSE m[x]]
  BY DEF Over
<1>2. {k} \cup DOMAIN m \in SUBSET Key /\ \A x \in DOMAIN m : m[x] \in SUBSET Key
  BY MapsOfKeys
<1> HIDE DEF o
<1>3. o \in [{k} \cup DOMAIN m -> SUBSET Key]
  BY <1>1, <1>2
<1>4. o \in Dependencies
  BY <1>2, <1>3 DEF Dependencies
<1>5. ASSUME OnlyGlobals(m), D # {} => k \in GlobalKeys, NEW x \in DOMAIN o, o[x] # {} PROVE x \in GlobalKeys
  BY <1>1, <1>5 DEF OnlyGlobals
<1> QED BY <1>4, <1>5 DEF o, OnlyGlobals

\* The keys of an environment.
LEMMA EnvKeys ==
    ASSUME NEW args \in Seq(MetaArg)
    PROVE  DOMAIN MetaArgsToEnvs(args) \subseteq Key
<1>1. \A i \in 1..Len(args) : args[i].key \in Key
  <2>1. \A i \in 1..Len(args) : args[i] \in MetaArg
    OBVIOUS
  <2> QED BY <2>1 DEF MetaArg
<1>2. DOMAIN MetaArgsToEnvs(args) = {args[i].key : i \in 1..Len(args)}
  BY EnvDomain, Zenon DEF MetaArgsToEnvs
<1> QED BY <1>1, <1>2

\* What the loop keeps: well formed arguments that agree with the values, as
\* long as those it starts with do, and no failure but of a default that counts.
Kept(b, start, values) ==
    /\ b.args \in Seq(MetaArg)
    /\ Len(b.args) >= Len(start)
    /\ Agree(start, values) => Agree(b.args, values)
    /\ b.failed => \E n \in 1..Len(recipe.globals) : recipe.globals[n].key \notin DOMAIN values
    /\ b.all \in Dependencies /\ OnlyGlobals(b.all)

LEMMA AddKeeps ==
    ASSUME NEW start \in Seq(MetaArg), NEW values, \A k \in DOMAIN values : values[k] \in Value,
           recipe.globals \in Seq(Arg), NEW n \in 1..Len(recipe.globals),
           NEW b, Kept(b, start, values)
    PROVE  Kept(AddMetaArg(b, recipe.globals[n], values), start, values)
<1> DEFINE a == recipe.globals[n]
           e == MetaArgsToEnvs(b.args)
           value == IF a.key \in DOMAIN values THEN values[a.key]
                    ELSE IF a.default.kind = "none" THEN Nil ELSE Expand(a.default, e)
           next == AddMetaArg(b, a, values)
<1>1. a \in Arg /\ b.args \in Seq(MetaArg)
  BY DEF Kept
<1>2. value \in Value
  <2>1. Nil \in Value
    BY DEF Value
  <2>2. Expand(a.default, e) \in Value
    BY <1>1, Expansion DEF Arg
  <2> QED BY <2>1, <2>2
<1> DEFINE deps == IF a.key \in DOMAIN values \/ a.default.kind = "none" THEN {} ELSE Matched(a.default, e)
           new == [key |-> a.key, value |-> value]
<1>3. new \in MetaArg
  BY <1>1, <1>2 DEF MetaArg, Arg
<1>4. /\ next.args = Append(b.args, new)
      /\ next.failed = (b.failed \/ ~(a.key \in DOMAIN values \/ Expands(a.default, e)))
      /\ next.all = Over([k \in {a.key} |-> deps], b.all)
  BY DEF AddMetaArg
<1>5. new.key \in DOMAIN values => new.value = values[new.key]
  OBVIOUS
<1>6. deps \in SUBSET Key /\ a.key \in Key /\ a.key \in GlobalKeys
  BY <1>1, EnvKeys DEF Matched, Arg, GlobalKeys
<1> HIDE DEF new, next, e, deps
<1>7. next.all \in Dependencies /\ OnlyGlobals(next.all)
  BY <1>4, <1>6, OneMoreKey DEF Kept
<1>8. next.args \in Seq(MetaArg) /\ Len(next.args) >= Len(start)
  BY <1>1, <1>3, <1>4 DEF Kept
<1>9. Agree(start, values) => Agree(next.args, values)
  BY <1>1, <1>3, <1>4, <1>5 DEF Kept, Agree
<1>10. next.failed => \E m \in 1..Len(recipe.globals) : recipe.globals[m].key \notin DOMAIN values
  BY <1>4 DEF Kept
<1>11. Kept(next, start, values)
  BY <1>8, <1>9, <1>10, <1>7 DEF Kept
<1> QED BY <1>11 DEF next

LEMMA MetaArgsAre ==
    ASSUME NEW start \in Seq(MetaArg), NEW values, \A k \in DOMAIN values : values[k] \in Value,
           recipe.globals \in Seq(Arg)
    PROVE  Kept(BuildMetaArgs(start, values), start, values)
<1> DEFINE N == Len(recipe.globals)
<1>1. PICK f : Built(f, start, values) /\ BuildMetaArgs(start, values) = f[N]
  BY BuiltExists
<1> DEFINE S == {n \in Nat : n <= N => Kept(f[n], start, values)}
<1>2. 0 \in S
  <2>1. f[0] = [args |-> start, all |-> [k \in {} |-> {}], failed |-> FALSE]
    <3>1. 0 \in 0..N
      OBVIOUS
    <3> QED BY <1>1, <3>1 DEF Built
  <2>2. f[0].all \in Dependencies /\ OnlyGlobals(f[0].all)
    <3> DEFINE none == [k \in {} |-> {}]
    <3>1. none \in [{} -> SUBSET Key] /\ {} \in SUBSET Key /\ DOMAIN none = {}
      OBVIOUS
    <3>2. f[0].all = none
      BY <2>1
    <3> HIDE DEF none
    <3> QED BY <3>1, <3>2 DEF Dependencies, OnlyGlobals
  <2>3. Kept(f[0], start, values)
    BY <2>1, <2>2 DEF Kept
  <2> QED BY <2>3
<1>3. ASSUME NEW n \in S PROVE n + 1 \in S
  <2>1. SUFFICES ASSUME n + 1 <= N PROVE Kept(f[n + 1], start, values)
    OBVIOUS
  <2>2. n \in Nat /\ n + 1 \in 1..N /\ n + 1 \in 0..N /\ n + 1 # 0 /\ n + 1 - 1 = n
    BY <2>1
  <2>3. f[n + 1] = AddMetaArg(f[n], recipe.globals[n + 1], values)
    BY <1>1, <2>2 DEF Built
  <2>4. Kept(f[n], start, values)
    BY <2>1
  <2> QED BY <2>2, <2>3, <2>4, AddKeeps
<1>4. S = Nat
  <2>1. S \in SUBSET Nat
    OBVIOUS
  <2> HIDE DEF S
  <2> QED BY <1>2, <1>3, <2>1, Induction
<1>5. N \in S /\ N \in Nat
  BY <1>4
<1> QED BY <1>1, <1>5

(***************************************************************************)
(* The bases of a stage                                                    *)
(***************************************************************************)

TargetChain == Chain(Target)

LEMMA ChainStays ==
    ASSUME recipe' = recipe, base' = base
    PROVE  TargetChain' = TargetChain
BY DEF TargetChain, Chain, Target, Stages

\* The chain is what a function goes through.
Below(x) == IF x = 0 THEN 0 ELSE base[x]
Up(f) == \A n \in 0..Target : f[n] = IF n = 0 THEN Target ELSE Below(f[n - 1])

LEMMA ChainFunction ==
    ASSUME Target \in Nat, Target # 0
    PROVE  \E f : Up(f) /\ TargetChain = {f[n] : n \in 0..Target} \ {0}
<1> DEFINE Upto(f, n) == f = [m \in 0..n |-> IF m = 0 THEN Target ELSE Below(f[m - 1])]
           S == {n \in Nat : \E f : Upto(f, n)}
<1>1. 0 \in S
  <2>1. Upto([m \in 0..0 |-> Target], 0)
    OBVIOUS
  <2> QED BY <2>1
<1>2. ASSUME NEW n \in S PROVE n + 1 \in S
  <2>1. PICK f : Upto(f, n)
    OBVIOUS
  <2> DEFINE g == [m \in 0..n + 1 |-> IF m = n + 1 THEN Below(f[n]) ELSE f[m]]
  <2>2. \A m \in 0..n + 1 : g[m] = IF m = 0 THEN Target ELSE Below(g[m - 1])
    BY <2>1
  <2>3. Upto(g, n + 1)
    <3>1. g = [m \in 0..n + 1 |-> g[m]]
      OBVIOUS
    <3> HIDE DEF g
    <3> QED BY <2>2, <3>1
  <2>4. n + 1 \in Nat
    OBVIOUS
  <2>5. \E h : Upto(h, n + 1)
    BY <2>3
  <2> HIDE DEF Upto
  <2> QED BY <2>4, <2>5, Zenon
<1>3. \E f : Upto(f, Target)
  <2>1. S = Nat
    <3> HIDE DEF S
    <3>1. S \in SUBSET Nat
      BY DEF S
    <3> QED BY <1>1, <1>2, <3>1, Induction
  <2> QED BY <2>1
<1> DEFINE F == CHOOSE f : Upto(f, Target)
<1>4. Upto(F, Target)
  BY <1>3, Zenon
<1>5. TargetChain = {F[n] : n \in 0..Target} \ {0}
  BY Zenon DEF TargetChain, Chain, Below
<1>6. Up(F)
  <2> HIDE DEF F
  <2> QED BY <1>4 DEF Up
<1> QED BY <1>5, <1>6, Zenon

LEMMA TargetIsBuilt ==
    ASSUME Target \in Nat, Target # 0
    PROVE  Target \in TargetChain
<1>1. PICK f : Up(f) /\ TargetChain = {f[n] : n \in 0..Target} \ {0}
  BY ChainFunction
<1>2. 0 \in 0..Target
  OBVIOUS
<1> QED BY <1>1, <1>2 DEF Up

\* From a stage of the chain the next one down is its base.
LEMMA ChainGoesDown ==
    ASSUME Target \in Nat, Target # 0, base \in Seq(Nat), Len(base) = Target, \A i \in 1..Len(base) : base[i] < i
    PROVE  /\ TargetChain \subseteq 1..Target
           /\ \A i \in TargetChain :
                /\ base[i] # 0 => base[i] \in TargetChain
                /\ \A j \in TargetChain : j < i => j <= base[i]
<1>1. PICK f : Up(f) /\ TargetChain = {f[n] : n \in 0..Target} \ {0}
  BY ChainFunction
<1>2. \A x \in 0..Target : Below(x) \in 0..Target /\ Below(x) <= x /\ (x # 0 => Below(x) < x)
  BY DEF Below
<1> DEFINE S == {n \in Nat : n <= Target => f[n] \in 0..Target - n}
<1>3. S = Nat
  <2>1. 0 \in S
    BY <1>1 DEF Up
  <2>2. ASSUME NEW n \in S PROVE n + 1 \in S
    <3>1. SUFFICES ASSUME n + 1 <= Target PROVE f[n + 1] \in 0..Target - (n + 1)
      OBVIOUS
    <3>2. n \in Nat /\ f[n] \in 0..Target - n /\ n + 1 \in 0..Target /\ n + 1 # 0 /\ (n + 1) - 1 = n
      BY <3>1
    <3>3. f[n + 1] = Below(f[n])
      BY <1>1, <3>2 DEF Up
    <3>4. f[n] \in 0..Target
      BY <3>2
    <3>5. PICK x : x = f[n]
      OBVIOUS
    <3>6. Below(x) \in 0..Target /\ Below(x) <= x /\ (x # 0 => Below(x) < x)
      BY <1>2, <3>4, <3>5
    <3>7. PICK y : y = Below(x)
      OBVIOUS
    <3>8. y \in 0..Target - (n + 1)
      BY <3>1, <3>2, <3>5, <3>6, <3>7
    <3> QED BY <3>3, <3>5, <3>7, <3>8
  <2>3. S \in SUBSET Nat
    OBVIOUS
  <2> HIDE DEF S
  <2> QED BY <2>1, <2>2, <2>3, Induction
<1>4. \A n \in 0..Target : f[n] \in 0..Target - n
  <2>1. ASSUME NEW n \in 0..Target PROVE f[n] \in 0..Target - n
    <3>1. n \in S
      <4> HIDE DEF S
      <4> QED BY <1>3
    <3> QED BY <3>1
  <2> QED BY <2>1
<1> HIDE DEF S
<1>5. ASSUME NEW m \in 0..Target, NEW n \in 0..Target, m <= n PROVE f[n] <= f[m]
  <2> DEFINE R == {l \in Nat : m + l <= Target => f[m + l] <= f[m]}
  <2>1. 0 \in R
    BY <1>4
  <2>2. ASSUME NEW l \in R PROVE l + 1 \in R
    <3>1. SUFFICES ASSUME m + (l + 1) <= Target PROVE f[m + (l + 1)] <= f[m]
      OBVIOUS
    <3>2. PICK k : k = m + l
      OBVIOUS
    <3>3. l \in Nat /\ k \in 0..Target /\ f[k] <= f[m] /\ k + 1 \in 0..Target /\ k + 1 # 0 /\ (k + 1) - 1 = k /\ m + (l + 1) = k + 1
      BY <3>1, <3>2
    <3>4. f[k + 1] = Below(f[k])
      BY <1>1, <3>3 DEF Up
    <3>5. f[k] \in 0..Target /\ f[m] \in 0..Target
      <4>1. f[k] \in 0..Target - k /\ f[m] \in 0..Target - m
        BY <1>4, <3>3
      <4> QED BY <3>3, <4>1
    <3>6. Below(f[k]) <= f[k] /\ Below(f[k]) \in 0..Target
      BY <1>2, <3>5
    <3> QED BY <3>3, <3>4, <3>5, <3>6
  <2>3. R = Nat
    <3>1. R \in SUBSET Nat
      OBVIOUS
    <3> HIDE DEF R
    <3> QED BY <2>1, <2>2, <3>1, Induction
  <2>4. n - m \in Nat /\ m + (n - m) = n
    BY <1>5
  <2>5. n - m \in R
    <3> HIDE DEF R
    <3> QED BY <2>3, <2>4
  <2> QED BY <2>4, <2>5
<1>6. TargetChain \subseteq 1..Target
  BY <1>1, <1>4
<1>7. ASSUME NEW i \in TargetChain
      PROVE  /\ base[i] # 0 => base[i] \in TargetChain
             /\ \A j \in TargetChain : j < i => j <= base[i]
  <2>1. PICK m \in 0..Target : f[m] = i
    BY <1>1
  <2>2. i \in 1..Target /\ m < Target
    <3>1. i \in 1..Target /\ i \in 0..Target - m
      BY <1>4, <1>6, <2>1
    <3> QED BY <3>1
  <2>3. m + 1 \in 0..Target /\ m + 1 # 0 /\ (m + 1) - 1 = m
    BY <2>2
  <2>4. f[m + 1] = base[i]
    BY <1>1, <2>1, <2>2, <2>3 DEF Up, Below
  <2>5. ASSUME NEW j \in TargetChain, j < i PROVE j <= base[i]
    <3>1. PICK n \in 0..Target : f[n] = j
      BY <1>1
    <3>2. n > m
      <4>1. n <= m => i <= j
        BY <1>5, <2>1, <3>1
      <4>2. j \in 1..Target
        BY <1>6
      <4> QED BY <2>2, <2>5, <4>1, <4>2
    <3>3. m + 1 <= n
      BY <3>2
    <3> QED BY <1>5, <2>3, <2>4, <3>1, <3>3
  <2> QED BY <1>1, <2>3, <2>4, <2>5
<1> QED BY <1>6, <1>7

(***************************************************************************)
(* The invariant                                                           *)
(***************************************************************************)

InStages == phase \in {"stage", "args", "outline", "outlined", "overflow"}

ArgsTypeOK ==
    /\ recipe \in Recipes /\ given \in Given
    /\ phase \in {"lint", "meta", "from", "stage", "args", "outline", "outlined", "overflow", "failed", "panic"}
    /\ metaArgs \in Seq(MetaArg)
    /\ base \in Seq(Nat) /\ \A i \in 1..Len(base) : base[i] < i
    /\ at \in 1..Target
    /\ phase = "args" => arg \in 1..Len(Args) + 1
    /\ env = [i \in 1..Target |-> env[i]]

\* Where the loops are: each stage has a base before its environment is made.
Loops ==
    /\ phase \in {"lint", "meta"} => at = 1 /\ base = <<>>
    /\ phase = "from" => metaArgs # <<>> /\ Len(base) = at - 1
    /\ InStages => Len(base) = Target

\* What is given prevails among the global arguments and in every stage.
GivenIn(e) == \A k \in DOMAIN e \cap DOMAIN given : e[k] = given[k]
Prevails == Agree(metaArgs, given) /\ \A i \in 1..Target : GivenIn(env[i])

\* A stage that has been entered has the global arguments it does not set.
Entered(i) == ((phase = "stage" /\ i < at) \/ (phase = "args" /\ i <= at)) /\ i \in TargetChain
HasGlobals(e, seen) ==
    \A k \in DOMAIN ArgsToEnvs(metaArgs) \ seen : k \in DOMAIN e /\ e[k] = ArgsToEnvs(metaArgs)[k]
Same == \A i \in 1..Target : Entered(i) => HasGlobals(env[i], SeenIn(i))

ArgsInv == ArgsTypeOK /\ Loops /\ Prevails /\ Same /\ IgnoredDefaultsNeverFail

LEMMA RecipeIs ==
    ASSUME recipe \in Recipes
    PROVE  /\ recipe.globals \in Seq(Arg)
           /\ Target \in Nat /\ Target # 0
           /\ \A i \in 1..Target : Stages[i].args \in Seq(Arg) /\ Stages[i].from \in Word
<1> DEFINE Stage == [name : STRING, from : Word, args : Seq(Arg)]
<1>1. recipe.globals \in Seq(Arg) /\ Stages \in Seq(Stage) /\ Stages # <<>>
  BY BuildArgsAssumption DEF Stages
<1>2. Target \in Nat /\ Target # 0
  BY <1>1 DEF Target
<1>3. \A i \in 1..Target : Stages[i] \in Stage
  <2> HIDE DEF Stage
  <2> QED BY <1>1 DEF Target
<1> QED BY <1>1, <1>2, <1>3

LEMMA GivenIs ==
    ASSUME given \in Given
    PROVE  \A k \in DOMAIN given : given[k] \in Value
BY BuildArgsAssumption DEF Value

\* The arguments of the platform with what is given.
LEMMA PlatformArgsAre ==
    ASSUME given \in Given
    PROVE  OptMetaArgs \in Seq(MetaArg) /\ OptMetaArgs # <<>> /\ Agree(OptMetaArgs, given)
<1> DEFINE Pair == [key : Key, value : STRING]
<1>1. PlatformArgs \in Seq(Pair) /\ Len(PlatformArgs) \in Nat \ {0}
  BY BuildArgsAssumption
<1>2. \A i \in 1..Len(PlatformArgs) :
          /\ OptMetaArgs[i] \in MetaArg
          /\ OptMetaArgs[i].key \in DOMAIN given => OptMetaArgs[i].value = given[OptMetaArgs[i].key]
  <2>1. ASSUME NEW i \in 1..Len(PlatformArgs)
        PROVE  /\ OptMetaArgs[i] \in MetaArg
               /\ OptMetaArgs[i].key \in DOMAIN given => OptMetaArgs[i].value = given[OptMetaArgs[i].key]
    <3>1. PlatformArgs[i] \in Pair
      <4> HIDE DEF Pair
      <4> QED BY <1>1
    <3>2. PlatformArgs[i].key \in DOMAIN given => given[PlatformArgs[i].key] \in Value
      BY GivenIs
    <3>3. OptMetaArgs[i] = IF PlatformArgs[i].key \in DOMAIN given
                           THEN [PlatformArgs[i] EXCEPT !.value = given[PlatformArgs[i].key]] ELSE PlatformArgs[i]
      BY DEF OptMetaArgs
    <3> QED BY <3>1, <3>2, <3>3 DEF MetaArg, Value
  <2> QED BY <2>1
<1>3. /\ OptMetaArgs = [i \in 1..Len(PlatformArgs) |-> OptMetaArgs[i]]
      /\ DOMAIN OptMetaArgs = 1..Len(PlatformArgs)
  BY DEF OptMetaArgs
<1>4. OptMetaArgs \in [1..Len(PlatformArgs) -> MetaArg]
  BY <1>2, <1>3
<1>5. OptMetaArgs \in Seq(MetaArg) /\ Len(OptMetaArgs) = Len(PlatformArgs)
  BY <1>1, <1>4
<1> QED BY <1>1, <1>2, <1>5 DEF Agree

LEMMA ArgsInit == Init => ArgsInv
<1> SUFFICES ASSUME Init PROVE ArgsInv
  OBVIOUS
<1>1. Target \in Nat /\ Target # 0
  BY RecipeIs DEF Init
<1>2. ArgsTypeOK
  BY <1>1 DEF Init, ArgsTypeOK, Target, Stages
<1>3. Loops
  BY DEF Init, Loops, InStages
<1>4. Prevails
  BY <1>1 DEF Init, Prevails, Agree, GivenIn, Empty, Target, Stages
<1>5. Same
  BY DEF Init, Same, Entered
<1>6. IgnoredDefaultsNeverFail
  BY DEF Init, IgnoredDefaultsNeverFail
<1> QED BY <1>2, <1>3, <1>4, <1>5, <1>6 DEF ArgsInv

\* Steps that leave the environments alone, and end the loops.
LEMMA QuietKeeps ==
    ASSUME ArgsInv, UNCHANGED <<recipe, given, metaArgs, base, env>>, at' \in 1..Target,
           \/ phase = "lint" /\ phase' = "meta" /\ at' = at
           \/ phase' = "panic"
           \/ InStages /\ phase' \in {"outline", "outlined", "overflow"}
    PROVE  ArgsInv'
<1>1. ArgsTypeOK'
  BY DEF ArgsInv, ArgsTypeOK, Target, Stages
<1>2. Loops'
  BY DEF ArgsInv, Loops, InStages, Target, Stages
<1>3. Prevails'
  BY DEF ArgsInv, Prevails, GivenIn, Agree, Target, Stages
<1>4. Same'
  BY DEF Same, Entered, InStages
<1>5. IgnoredDefaultsNeverFail'
  BY DEF IgnoredDefaultsNeverFail
<1> QED BY <1>1, <1>2, <1>3, <1>4, <1>5 DEF ArgsInv

\* What is built of the global arguments, with the values that are given.
LEMMA BuiltWithGiven ==
    ASSUME recipe \in Recipes, given \in Given
    PROVE  LET b == BuildMetaArgs(OptMetaArgs, given)
           IN  /\ b.args \in Seq(MetaArg) /\ b.args # <<>> /\ Agree(b.args, given)
               /\ b.failed => \E n \in 1..Len(recipe.globals) : recipe.globals[n].key \notin DOMAIN given
<1> DEFINE b == BuildMetaArgs(OptMetaArgs, given)
<1>1. Kept(b, OptMetaArgs, given)
  BY PlatformArgsAre, GivenIs, RecipeIs, MetaArgsAre
<1>2. OptMetaArgs \in Seq(MetaArg) /\ Len(OptMetaArgs) > 0 /\ Agree(OptMetaArgs, given)
  BY PlatformArgsAre
<1> HIDE DEF b
<1>3. /\ b.args \in Seq(MetaArg) /\ b.args # <<>> /\ Agree(b.args, given)
      /\ b.failed => \E n \in 1..Len(recipe.globals) : recipe.globals[n].key \notin DOMAIN given
  BY <1>1, <1>2 DEF Kept
<1> QED BY <1>3 DEF b

LEMMA MetaArgsKeeps ==
    ASSUME ArgsInv, MetaArgs
    PROVE  ArgsInv'
<1>1. /\ metaArgs' \in Seq(MetaArg) /\ metaArgs' # <<>> /\ Agree(metaArgs', given)
  BY BuiltWithGiven DEF ArgsInv, ArgsTypeOK, MetaArgs
<1>2. UNCHANGED <<recipe, given, base, env, at>> /\ phase = "meta" /\ phase' = "from"
  BY DEF MetaArgs
<1>3. ArgsTypeOK'
  BY <1>1, <1>2 DEF ArgsInv, ArgsTypeOK, Target, Stages
<1>4. Loops'
  BY <1>1, <1>2 DEF ArgsInv, Loops, InStages, Target, Stages
<1>5. Prevails'
  BY <1>1, <1>2 DEF ArgsInv, Prevails, GivenIn, Target, Stages
<1>6. Same'
  BY <1>2 DEF Same, Entered
<1>7. IgnoredDefaultsNeverFail'
  BY <1>2 DEF IgnoredDefaultsNeverFail
<1> QED BY <1>3, <1>4, <1>5, <1>6, <1>7 DEF ArgsInv

\* A failure is one of those that values in place of defaults do not prevent.
LEMMA FailureKeeps ==
    ASSUME ArgsInv, UNCHANGED <<recipe, given, metaArgs, base, env, at>>, phase' = "failed",
           \/ metaArgs # <<>> /\ Len(base) < Target
           \/ \E n \in 1..Len(recipe.globals) : recipe.globals[n].key \notin DOMAIN given
           \/ \E i \in 1..Target : \E j \in 1..Len(Stages[i].args) : Stages[i].args[j].key \notin DOMAIN given
    PROVE  ArgsInv'
<1>1. ArgsTypeOK'
  BY DEF ArgsInv, ArgsTypeOK, Target, Stages
<1>2. Loops'
  BY DEF ArgsInv, Loops, InStages, Target, Stages
<1>3. Prevails'
  BY DEF ArgsInv, Prevails, GivenIn, Agree, Target, Stages
<1>4. Same'
  BY DEF Same, Entered
<1>5. IgnoredDefaultsNeverFail'
  BY DEF IgnoredDefaultsNeverFail, Target, Stages
<1> QED BY <1>1, <1>2, <1>3, <1>4, <1>5 DEF ArgsInv

LEMMA FailuresKeep ==
    ASSUME ArgsInv, MetaArgsFail \/ FromFails \/ DispatchArgFails
    PROVE  ArgsInv'
<1>1. UNCHANGED <<recipe, given, metaArgs, base, env, at>> /\ phase' = "failed"
  BY DEF MetaArgsFail, FromFails, DispatchArgFails, Stop, convert
<1>2. CASE MetaArgsFail
  <2>1. \E n \in 1..Len(recipe.globals) : recipe.globals[n].key \notin DOMAIN given
    BY <1>2, BuiltWithGiven DEF MetaArgsFail, ArgsInv, ArgsTypeOK
  <2> QED BY <1>1, <2>1, FailureKeeps
<1>3. CASE FromFails
  <2>1. metaArgs # <<>> /\ Len(base) < Target
    <3>1. metaArgs # <<>> /\ Len(base) = at - 1
      BY <1>3 DEF FromFails, ArgsInv, Loops
    <3>2. at \in 1..Target /\ Target \in Nat
      BY RecipeIs DEF ArgsInv, ArgsTypeOK
    <3> QED BY <3>1, <3>2
  <2> QED BY <1>1, <2>1, FailureKeeps
<1>4. CASE DispatchArgFails
  <2>1. arg \in 1..Len(Stages[at].args) /\ Stages[at].args[arg].key \notin DOMAIN given /\ at \in 1..Target
    BY <1>4, RecipeIs DEF DispatchArgFails, ArgFails, HasValue, Args, ArgsInv, ArgsTypeOK
  <2> QED BY <1>1, <2>1, FailureKeeps
<1> QED BY <1>2, <1>3, <1>4

LEMMA FromKeeps ==
    ASSUME ArgsInv, From
    PROVE  ArgsInv'
<1> DEFINE named == {j \in 1..at - 1 : Stages[j].name = BaseName}
           b == IF named = {} THEN 0 ELSE CHOOSE j \in named : \A k \in named : k <= j
<1>1. /\ base' = Append(base, b)
      /\ at' = IF at = Target THEN 1 ELSE at + 1
      /\ phase = "from" /\ phase' = IF at = Target THEN "stage" ELSE "from"
      /\ UNCHANGED <<recipe, given, metaArgs, env, arg>>
  BY DEF From
<1>2. /\ at \in 1..Target /\ base \in Seq(Nat) /\ Len(base) = at - 1
      /\ Target \in Nat /\ Target # 0
  BY <1>1, RecipeIs DEF ArgsInv, ArgsTypeOK, Loops
<1>3. b \in Nat /\ b < at
  <2>1. CASE named = {}
    BY <1>2, <2>1
  <2>2. CASE named # {}
    <3>1. named \in SUBSET (1..at - 1) /\ at - 1 \in Nat
      BY <1>2
    <3>2. \E j \in named : \A k \in named : k <= j
      <4> HIDE DEF named
      <4> QED BY <2>2, <3>1, GreatestNumber
    <3>3. b \in named
      BY <2>2, <3>2
    <3>4. b \in 1..at - 1
      <4> HIDE DEF b, named
      <4> QED BY <3>1, <3>3
    <3> HIDE DEF b
    <3> QED BY <1>2, <3>4
  <2> QED BY <2>1, <2>2
<1> HIDE DEF b
<1>4. /\ base' \in Seq(Nat) /\ Len(base') = at
      /\ \A i \in 1..Len(base') : base'[i] < i
  BY <1>1, <1>2, <1>3 DEF ArgsInv, ArgsTypeOK
<1>5. ArgsTypeOK'
  BY <1>1, <1>2, <1>4 DEF ArgsInv, ArgsTypeOK, Target, Stages
<1>6. Loops'
  BY <1>1, <1>2, <1>4 DEF ArgsInv, Loops, InStages, Target, Stages
<1>7. Prevails'
  BY <1>1 DEF ArgsInv, Prevails, GivenIn, Agree, Target, Stages
<1>8. Same'
  BY <1>1, <1>2 DEF Same, Entered, Target, Stages
<1>9. IgnoredDefaultsNeverFail'
  BY <1>1 DEF IgnoredDefaultsNeverFail
<1> QED BY <1>5, <1>6, <1>7, <1>8, <1>9 DEF ArgsInv

(***************************************************************************)
(* The environments                                                        *)
(***************************************************************************)

LEMMA SkipStageKeeps ==
    ASSUME ArgsInv, SkipStage
    PROVE  ArgsInv'
<1>1. /\ phase = "stage" /\ phase' = "stage" /\ at' = at + 1 /\ at \notin TargetChain
      /\ UNCHANGED <<recipe, given, metaArgs, base, env, arg>>
  BY DEF SkipStage, convert, TargetChain
<1>2. at \in 1..Target /\ Target \in Nat /\ at # Target
  BY <1>1, RecipeIs, TargetIsBuilt DEF ArgsInv, ArgsTypeOK
<1>3. ArgsTypeOK'
  BY <1>1, <1>2 DEF ArgsInv, ArgsTypeOK, Target, Stages
<1>4. Loops'
  BY <1>1 DEF ArgsInv, Loops, InStages, Target, Stages
<1>5. Prevails'
  BY <1>1 DEF ArgsInv, Prevails, GivenIn, Agree, Target, Stages
<1>6. Same'
  <2>1. TargetChain' = TargetChain
    BY <1>1, ChainStays
  <2>2. ASSUME NEW i \in 1..Target, Entered(i)' PROVE Entered(i) /\ i # at /\ i # at'
    BY <1>1, <1>2, <2>1, <2>2 DEF Entered
  <2>3. ASSUME NEW i \in 1..Target, i # at, i # at' PROVE SeenIn(i)' = SeenIn(i)
    BY <1>1, <2>3 DEF SeenIn, Stages
  <2>4. Target' = Target
    BY <1>1 DEF Target, Stages
  <2> QED BY <1>1, <2>2, <2>3, <2>4 DEF ArgsInv, Same, HasGlobals
<1>7. IgnoredDefaultsNeverFail'
  BY <1>1 DEF IgnoredDefaultsNeverFail
<1> QED BY <1>3, <1>4, <1>5, <1>6, <1>7 DEF ArgsInv

LEMMA InitStageKeeps ==
    ASSUME ArgsInv, InitStage
    PROVE  ArgsInv'
<1> DEFINE inherited == IF base[at] = 0 THEN Empty ELSE env[base[at]]
           e == AddMetaArgs(inherited)
<1>1. /\ phase = "stage" /\ phase' = "args" /\ at' = at /\ arg' = 1 /\ at \in TargetChain
      /\ env' = [env EXCEPT ![at] = e]
      /\ UNCHANGED <<recipe, given, metaArgs, base>>
  BY DEF InitStage, TargetChain
<1>2. at \in 1..Target /\ Target \in Nat /\ Len(base) = Target /\ base \in Seq(Nat) /\ base[at] < at
  BY <1>1, RecipeIs DEF ArgsInv, ArgsTypeOK, Loops, InStages
<1>3. GivenIn(inherited)
  <2>1. base[at] # 0 => base[at] \in 1..Target
    BY <1>2
  <2> QED BY <2>1 DEF ArgsInv, Prevails, GivenIn, Empty
<1>4. GivenIn(e)
  <2>1. \A k \in DOMAIN ArgsToEnvs(metaArgs) \cap DOMAIN given : ArgsToEnvs(metaArgs)[k] = given[k]
    BY EnvAgrees DEF ArgsInv, ArgsTypeOK, Prevails
  <2> HIDE DEF inherited
  <2> QED BY <1>3, <2>1 DEF GivenIn, AddMetaArgs, Over
<1>5. HasGlobals(e, {})
  <2> HIDE DEF inherited
  <2> QED BY DEF HasGlobals, AddMetaArgs, Over
<1> HIDE DEF e
<1>6. \A i \in 1..Target : env'[i] = IF i = at THEN e ELSE env[i]
  BY <1>1, <1>2 DEF ArgsInv, ArgsTypeOK
<1>7. ArgsTypeOK'
  <2>1. Args' = Args /\ Target' = Target
    BY <1>1 DEF Args, Target, Stages
  <2>2. Len(Args) \in Nat
    BY <1>2, RecipeIs DEF Args, ArgsInv, ArgsTypeOK
  <2>3. env' = [i \in 1..Target |-> env'[i]]
    BY <1>1, <1>2 DEF ArgsInv, ArgsTypeOK
  <2> QED BY <1>1, <1>2, <2>1, <2>2, <2>3 DEF ArgsInv, ArgsTypeOK
<1>8. Loops'
  BY <1>1 DEF ArgsInv, Loops, InStages, Target, Stages
<1>9. Prevails'
  BY <1>1, <1>4, <1>6 DEF ArgsInv, Prevails, GivenIn, Agree, Target, Stages
<1>10. Same'
  <2>1. TargetChain' = TargetChain /\ Target' = Target
    BY <1>1, ChainStays DEF Target, Stages
  <2>2. ASSUME NEW i \in 1..Target, Entered(i)', i # at PROVE Entered(i)
    BY <1>1, <1>2, <2>1, <2>2 DEF Entered
  <2>3. ASSUME NEW i \in 1..Target, i # at PROVE SeenIn(i)' = SeenIn(i)
    BY <1>1, <2>3 DEF SeenIn, Stages
  <2>4. ASSUME NEW i \in 1..Target, Entered(i)' PROVE HasGlobals(env[i], SeenIn(i))'
    <3>1. CASE i = at
      BY <1>1, <1>5, <1>6, <3>1 DEF HasGlobals
    <3>2. CASE i # at
      BY <1>1, <1>6, <2>2, <2>3, <2>4, <3>2 DEF ArgsInv, Same, HasGlobals
    <3> QED BY <3>1, <3>2
  <2> QED BY <2>1, <2>4 DEF Same
<1>11. IgnoredDefaultsNeverFail'
  BY <1>1 DEF IgnoredDefaultsNeverFail
<1> QED BY <1>7, <1>8, <1>9, <1>10, <1>11 DEF ArgsInv

LEMMA DispatchArgKeeps ==
    ASSUME ArgsInv, DispatchArg
    PROVE  ArgsInv'
<1> DEFINE a == Args[arg]
           value == ArgValue(a)
           e == IF value = Nil THEN env[at] ELSE Over([k \in {a.key} |-> value], env[at])
<1>1. /\ phase = "args" /\ phase' = "args" /\ at' = at /\ arg' = arg + 1 /\ arg <= Len(Args)
      /\ env' = IF value = Nil THEN env ELSE [env EXCEPT ![at] = Over([k \in {a.key} |-> value], @)]
      /\ UNCHANGED <<recipe, given, metaArgs, base>>
  BY DEF DispatchArg
<1>2. at \in 1..Target /\ Target \in Nat /\ arg \in 1..Len(Args) /\ Len(Args) \in Nat
  BY <1>1, RecipeIs DEF Args, ArgsInv, ArgsTypeOK
<1>3. a.key \in DOMAIN given => value = given[a.key]
  BY DEF ArgValue, HasValue
<1> HIDE DEF value
<1>4. \A i \in 1..Target : env'[i] = IF i = at THEN e ELSE env[i]
  BY <1>1, <1>2 DEF ArgsInv, ArgsTypeOK
<1>5. GivenIn(e)
  BY <1>2, <1>3 DEF ArgsInv, Prevails, GivenIn, Over
<1>6. \A k \in DOMAIN env[at] : k \in DOMAIN e /\ (k # a.key => e[k] = env[at][k])
  BY DEF Over
<1> HIDE DEF e
<1>7. ArgsTypeOK'
  <2>1. Args' = Args /\ Target' = Target
    BY <1>1 DEF Args, Target, Stages
  <2>2. env' = [i \in 1..Target |-> env'[i]]
    BY <1>1, <1>2 DEF ArgsInv, ArgsTypeOK
  <2> QED BY <1>1, <1>2, <2>1, <2>2 DEF ArgsInv, ArgsTypeOK
<1>8. Loops'
  BY <1>1 DEF ArgsInv, Loops, InStages, Target, Stages
<1>9. Prevails'
  BY <1>1, <1>4, <1>5 DEF ArgsInv, Prevails, GivenIn, Agree, Target, Stages
<1>10. Same'
  <2>1. TargetChain' = TargetChain /\ Target' = Target
    BY <1>1, ChainStays DEF Target, Stages
  <2>2. ASSUME NEW i \in 1..Target, Entered(i)' PROVE Entered(i)
    BY <1>1, <2>1, <2>2 DEF Entered
  <2>3. ASSUME NEW i \in 1..Target, i # at PROVE SeenIn(i)' = SeenIn(i)
    BY <1>1, <2>3 DEF SeenIn, Stages
  <2>4. SeenIn(at) \subseteq SeenIn(at)' /\ a.key \in SeenIn(at)'
    <3>1. SeenIn(at) = {Args[j].key : j \in 1..arg - 1} /\ SeenIn(at)' = {Args[j].key : j \in 1..arg}
      BY <1>1, <1>2 DEF SeenIn, Args, Stages
    <3> QED BY <1>2, <3>1
  <2>5. ASSUME NEW i \in 1..Target, Entered(i)' PROVE HasGlobals(env[i], SeenIn(i))'
    <3>1. HasGlobals(env[i], SeenIn(i))
      BY <2>2, <2>5 DEF ArgsInv, Same
    <3>2. CASE i = at
      BY <1>1, <1>4, <1>6, <2>4, <3>1, <3>2 DEF HasGlobals
    <3>3. CASE i # at
      BY <1>1, <1>4, <2>3, <3>1, <3>3 DEF HasGlobals
    <3> QED BY <3>2, <3>3
  <2> QED BY <2>1, <2>5 DEF Same
<1>11. IgnoredDefaultsNeverFail'
  BY <1>1 DEF IgnoredDefaultsNeverFail
<1> QED BY <1>7, <1>8, <1>9, <1>10, <1>11 DEF ArgsInv

LEMMA EndStageKeeps ==
    ASSUME ArgsInv, EndStage
    PROVE  ArgsInv'
<1>1. /\ phase = "args" /\ arg > Len(Args)
      /\ phase' = IF at = Target THEN "outline" ELSE "stage"
      /\ at' = IF at = Target THEN at ELSE at + 1
      /\ UNCHANGED <<recipe, given, metaArgs, base, env, arg>>
  BY DEF EndStage, convert
<1>2. at \in 1..Target /\ Target \in Nat /\ arg = Len(Args) + 1 /\ Len(Args) \in Nat
  <2>1. at \in 1..Target /\ Target \in Nat /\ arg \in 1..Len(Args) + 1
    BY <1>1, RecipeIs DEF ArgsInv, ArgsTypeOK
  <2>2. Len(Args) \in Nat
    BY <2>1, RecipeIs DEF Args, ArgsInv, ArgsTypeOK
  <2> QED BY <1>1, <2>1, <2>2
<1>3. CASE at = Target
  BY <1>1, <1>2, <1>3, QuietKeeps DEF InStages
<1>4. CASE at # Target
  <2>1. ArgsTypeOK'
    BY <1>1, <1>2, <1>4 DEF ArgsInv, ArgsTypeOK, Target, Stages
  <2>2. Loops'
    BY <1>1, <1>4 DEF ArgsInv, Loops, InStages, Target, Stages
  <2>3. Prevails'
    BY <1>1 DEF ArgsInv, Prevails, GivenIn, Agree, Target, Stages
  <2>4. Same'
    <3>1. TargetChain' = TargetChain /\ Target' = Target
      BY <1>1, ChainStays DEF Target, Stages
    <3>2. ASSUME NEW i \in 1..Target, Entered(i)' PROVE Entered(i) /\ i # at'
      BY <1>1, <1>2, <1>4, <3>1, <3>2 DEF Entered
    <3>3. ASSUME NEW i \in 1..Target, i # at' PROVE SeenIn(i)' = SeenIn(i)
      BY <1>1, <1>2, <1>4, <3>3 DEF SeenIn, Args, Stages
    <3> QED BY <1>1, <3>1, <3>2, <3>3 DEF ArgsInv, Same, HasGlobals
  <2>5. IgnoredDefaultsNeverFail'
    BY <1>1 DEF IgnoredDefaultsNeverFail
  <2> QED BY <2>1, <2>2, <2>3, <2>4, <2>5 DEF ArgsInv
<1> QED BY <1>3, <1>4

(***************************************************************************)
(* The theorems                                                            *)
(***************************************************************************)

LEMMA ArgsStep == ArgsInv /\ [Next]_vars => ArgsInv'
<1> SUFFICES ASSUME ArgsInv, [Next]_vars PROVE ArgsInv'
  OBVIOUS
<1>1. CASE UNCHANGED vars
  <2>1. TargetChain' = TargetChain
    BY <1>1, ChainStays DEF vars, convert
  <2>2. ArgsTypeOK' /\ Loops' /\ Prevails' /\ IgnoredDefaultsNeverFail'
    BY <1>1 DEF vars, convert, ArgsInv, ArgsTypeOK, Loops, InStages, Prevails, GivenIn, Agree, IgnoredDefaultsNeverFail,
                Target, Stages, Args
  <2>3. Same'
    <3>1. UNCHANGED <<recipe, phase, metaArgs, at, arg, env>>
      BY <1>1 DEF vars, convert
    <3>2. \A i : Entered(i)' = Entered(i) /\ SeenIn(i)' = SeenIn(i)
      BY <2>1, <3>1 DEF Entered, SeenIn, Stages
    <3>3. Target' = Target /\ \A i : HasGlobals(env[i], SeenIn(i))' = HasGlobals(env[i], SeenIn(i))
      BY <3>1, <3>2 DEF HasGlobals, Target, Stages
    <3> QED BY <3>2, <3>3 DEF ArgsInv, Same
  <2> QED BY <2>2, <2>3 DEF ArgsInv
<1>2. CASE ValidateBaseImagesWithDefaultArgs
  BY <1>2, QuietKeeps DEF ValidateBaseImagesWithDefaultArgs, ArgsInv, ArgsTypeOK, Target, Stages
<1>3. CASE InitStagePanics
  BY <1>3, QuietKeeps DEF InitStagePanics, Stop, convert, ArgsInv, ArgsTypeOK
<1>4. CASE \E k \in Key : MarkAllUsed(k)
  BY <1>4, QuietKeeps DEF MarkAllUsed, convert, ArgsInv, ArgsTypeOK, InStages
<1>5. CASE Return
  BY <1>5, QuietKeeps DEF Return, convert, ArgsInv, ArgsTypeOK, InStages
<1>6. CASE ListArgs
  <2>1. /\ phase = "outline" /\ UNCHANGED <<recipe, given, metaArgs, base, env>>
        /\ phase' \in {"outline", "outlined"} /\ (at' = at \/ (at' = base[at] /\ base[at] # 0))
    BY <1>6 DEF ListArgs, convert
  <2>2. at' \in 1..Target
    BY <2>1, RecipeIs DEF ArgsInv, ArgsTypeOK, Loops, InStages
  <2> QED BY <2>1, <2>2, QuietKeeps DEF InStages
<1> QED
  BY <1>1, <1>2, <1>3, <1>4, <1>5, <1>6, MetaArgsKeeps, FailuresKeep, FromKeeps, SkipStageKeeps, InitStageKeeps,
     DispatchArgKeeps, EndStageKeeps DEF Next

LEMMA ArgsInvariant == Spec => []ArgsInv
BY ArgsInit, ArgsStep, PTL DEF Spec

\* A value that is given with the build prevails over every default.
THEOREM GivenPrevailsHolds == Spec => []GivenPrevails
<1>1. ArgsInv => GivenPrevails
  BY DEF ArgsInv, Prevails, GivenIn, GivenPrevails
<1> QED BY <1>1, ArgsInvariant, PTL

\* A global argument has one value in all stages that do not set it.
THEOREM SameInEveryStageHolds == Spec => []SameInEveryStage
<1>1. ArgsInv => SameInEveryStage
  BY DEF ArgsInv, Same, Entered, HasGlobals, TargetChain, Begun, SameInEveryStage
<1> QED BY <1>1, ArgsInvariant, PTL

\* If everything that is declared is given, only the name of a base can be wrong.
THEOREM IgnoredDefaultsNeverFailHolds == Spec => []IgnoredDefaultsNeverFail
<1>1. ArgsInv => IgnoredDefaultsNeverFail
  BY DEF ArgsInv
<1> QED BY <1>1, ArgsInvariant, PTL

(***************************************************************************)
(* The outline                                                             *)
(***************************************************************************)

OutlineTypeOK ==
    /\ allArgs \in Dependencies /\ OnlyGlobals(allArgs)
    /\ info \in Seq(Dependencies) /\ Len(info) = Len(base)
    /\ used \in Seq(SUBSET Key) /\ Len(used) = Len(base)
    /\ \A i \in 1..Len(base) : OnlyGlobals(info[i])

\* The stages that the outline has gone through.
Passed == {i \in TargetChain : i > at}
Outlined(i) == used[i] \cap DOMAIN info[i]
Closed(i) == \A k \in Outlined(i) : info[i][k] \subseteq used[i]

\* What is still to be seen, and what calls for it.
ToSee == UNION {stack[j] : j \in 1..Len(stack)}
AllSeen == \A k \in Outlined(at) : k \in ToSee \/ info[at][k] \subseteq used[at] \cup ToSee
Calls(p) ==
    \A j \in 1..Len(stack) - 1 :
        stack[j] \subseteq info[at][p[j]] /\ (j < Len(stack) - 1 => p[j] \in info[at][p[j + 1]])

Searching ==
    /\ at \in TargetChain
    /\ listed = UNION {Outlined(i) : i \in Passed}
    /\ \A i \in Passed : Closed(i)
    /\ stack \in Seq(SUBSET Key) /\ Len(stack) <= Len(recipe.globals) + 2
    /\ AllSeen
    /\ \E p \in [1..Len(stack) - 1 -> Outlined(at)] : Calls(p)

OutlineInv ==
    /\ OutlineTypeOK
    /\ phase \in {"lint", "meta", "from", "stage", "args"} => listed = {}
    /\ phase = "outline" => Searching
    /\ OutlineIsWhole

LEMMA GlobalsAre ==
    ASSUME ArgsInv
    PROVE  Len(recipe.globals) \in Nat /\ at \in 1..Target /\ Target \in Nat /\ Target # 0
<1>1. recipe.globals \in Seq(Arg) /\ Target \in Nat /\ Target # 0
  BY RecipeIs DEF ArgsInv, ArgsTypeOK
<1> QED BY <1>1 DEF ArgsInv, ArgsTypeOK

LEMMA InfoIs ==
    ASSUME OutlineTypeOK, NEW i \in 1..Len(base)
    PROVE  /\ info[i] \in Dependencies /\ DOMAIN info[i] \subseteq Key
           /\ \A k \in DOMAIN info[i] : info[i][k] \subseteq Key /\ (info[i][k] # {} => k \in GlobalKeys)
           /\ used[i] \in SUBSET Key
<1>1. info[i] \in Dependencies /\ used[i] \in SUBSET Key /\ OnlyGlobals(info[i])
  BY DEF OutlineTypeOK
<1> QED BY <1>1, MapsOfKeys DEF OnlyGlobals

\* What is reached goes through these.
More(i, s) == s \cup UNION {info[i][k] : k \in s \cap DOMAIN info[i]}
Reaching(f, i, from) ==
    \A n \in 0..Len(recipe.globals) + 1 : f[n] = IF n = 0 THEN from ELSE More(i, f[n - 1])

LEMMA ReachingExists ==
    ASSUME NEW i, NEW from, Len(recipe.globals) \in Nat
    PROVE  \E f : Reaching(f, i, from) /\ Reaches(i, from) = f[Len(recipe.globals) + 1]
<1> DEFINE N == Len(recipe.globals) + 1
           Upto(f, n) == f = [m \in 0..n |-> IF m = 0 THEN from ELSE More(i, f[m - 1])]
           S == {n \in Nat : \E f : Upto(f, n)}
<1>1. 0 \in S
  <2>1. Upto([m \in 0..0 |-> from], 0)
    OBVIOUS
  <2> QED BY <2>1
<1>2. ASSUME NEW n \in S PROVE n + 1 \in S
  <2>1. PICK f : Upto(f, n)
    OBVIOUS
  <2> DEFINE g == [m \in 0..n + 1 |-> IF m = n + 1 THEN More(i, f[n]) ELSE f[m]]
  <2>2. \A m \in 0..n + 1 : g[m] = IF m = 0 THEN from ELSE More(i, g[m - 1])
    BY <2>1
  <2>3. Upto(g, n + 1)
    <3>1. g = [m \in 0..n + 1 |-> g[m]]
      OBVIOUS
    <3> HIDE DEF g
    <3> QED BY <2>2, <3>1
  <2>4. n + 1 \in Nat
    OBVIOUS
  <2>5. \E h : Upto(h, n + 1)
    BY <2>3
  <2> HIDE DEF Upto
  <2> QED BY <2>4, <2>5, Zenon
<1>3. \E f : Upto(f, N)
  <2>1. S = Nat
    <3> HIDE DEF S
    <3>1. S \in SUBSET Nat
      BY DEF S
    <3> QED BY <1>1, <1>2, <3>1, Induction
  <2>2. N \in S
    <3> HIDE DEF S
    <3> QED BY <2>1
  <2> QED BY <2>2
<1> DEFINE F == CHOOSE f : Upto(f, N)
<1>4. Upto(F, N)
  BY <1>3, Zenon
<1>5. Reaches(i, from) = F[N]
  BY Zenon DEF Reaches, More
<1>6. Reaching(F, i, from)
  <2> HIDE DEF F
  <2> QED BY <1>4 DEF Reaching
<1> QED BY <1>5, <1>6, Zenon

\* Nothing more is reached from what has all that it depends on.
LEMMA ClosedReaches ==
    ASSUME NEW i, Closed(i), Len(recipe.globals) \in Nat
    PROVE  Reaches(i, used[i]) = used[i]
<1> DEFINE N == Len(recipe.globals) + 1
<1>1. PICK f : Reaching(f, i, used[i]) /\ Reaches(i, used[i]) = f[N]
  BY ReachingExists
<1>2. More(i, used[i]) = used[i]
  BY DEF More, Closed, Outlined
<1> DEFINE S == {n \in Nat : n <= N => f[n] = used[i]}
<1>3. 0 \in S
  BY <1>1 DEF Reaching
<1>4. ASSUME NEW n \in S PROVE n + 1 \in S
  <2>1. SUFFICES ASSUME n + 1 <= N PROVE f[n + 1] = used[i]
    OBVIOUS
  <2>2. n \in Nat /\ f[n] = used[i] /\ n + 1 \in 0..N /\ n + 1 # 0 /\ (n + 1) - 1 = n
    BY <2>1
  <2>3. f[n + 1] = More(i, f[n])
    BY <1>1, <2>2 DEF Reaching
  <2> QED BY <1>2, <2>2, <2>3
<1>5. N \in S
  <2>1. S \in SUBSET Nat /\ N \in Nat
    OBVIOUS
  <2> HIDE DEF S, N
  <2> QED BY <1>3, <1>4, <2>1, Induction
<1> QED BY <1>1, <1>5

LEMMA Difference ==
    ASSUME NEW a \in Nat, NEW b \in Nat, NEW l \in Nat, a - b <= l PROVE ~((a - 1) - l > b)
OBVIOUS

LEMMA Distance ==
    ASSUME NEW l \in Nat, NEW a \in 2..l + 2, NEW b \in 2..l + 2 PROVE a - b <= l + 1
OBVIOUS

\* Calls that come back to a key within the bound reach it.
LEMMA CircleIsReached ==
    ASSUME Len(recipe.globals) \in Nat, NEW n \in Nat, NEW W, W \subseteq DOMAIN info[at], NEW p \in [1..n -> W],
           \A j \in 1..n - 1 : p[j] \in info[at][p[j + 1]],
           NEW a \in 1..n, NEW b \in 1..n, b < a, a - b <= Len(recipe.globals) + 1, p[a] = p[b]
    PROVE  p[a] \in Reaches(at, info[at][p[a]])
<1> DEFINE N == Len(recipe.globals) + 1
           x(m) == IF (a - 1) - m > b THEN (a - 1) - m ELSE b
<1>1. PICK f : Reaching(f, at, info[at][p[a]]) /\ Reaches(at, info[at][p[a]]) = f[N]
  BY ReachingExists
<1> DEFINE S == {m \in Nat : m <= N => p[x(m)] \in f[m]}
<1>2. 0 \in S
  <2>1. x(0) = a - 1 /\ a - 1 \in 1..n - 1 /\ (a - 1) + 1 = a
    OBVIOUS
  <2>2. p[a - 1] \in info[at][p[a]]
    BY <2>1
  <2>3. f[0] = info[at][p[a]]
    BY <1>1 DEF Reaching
  <2> QED BY <2>1, <2>2, <2>3
<1>3. ASSUME NEW m \in S PROVE m + 1 \in S
  <2>1. SUFFICES ASSUME m + 1 <= N PROVE p[x(m + 1)] \in f[m + 1]
    OBVIOUS
  <2>2. m \in Nat /\ p[x(m)] \in f[m] /\ m + 1 \in 0..N /\ m + 1 # 0 /\ (m + 1) - 1 = m
    BY <2>1
  <2>3. f[m + 1] = More(at, f[m])
    BY <1>1, <2>2 DEF Reaching
  <2>4. CASE x(m) = b
    <3>1. x(m + 1) = b
      BY <2>2, <2>4
    <3> QED BY <2>2, <2>3, <2>4, <3>1 DEF More
  <2>5. CASE x(m) # b
    <3>1. PICK y : y = x(m)
      OBVIOUS
    <3>2. x(m + 1) = y - 1 /\ y - 1 \in 1..n - 1 /\ (y - 1) + 1 = y /\ y \in 1..n
      BY <2>2, <2>5, <3>1
    <3>3. p[y - 1] \in info[at][p[y]] /\ p[y] \in DOMAIN info[at]
      BY <3>2
    <3>4. p[y] \in f[m]
      BY <2>2, <3>1
    <3> HIDE DEF x
    <3> QED BY <2>3, <3>2, <3>3, <3>4 DEF More
  <2> QED BY <2>4, <2>5
<1>4. N \in S
  <2>1. S \in SUBSET Nat /\ N \in Nat
    OBVIOUS
  <2> HIDE DEF S, N
  <2> QED BY <1>2, <1>3, <2>1, Induction
<1>5. x(N) = b
  <2>1. N \in Nat
    OBVIOUS
  <2>2. PICK l \in Nat : l = N
    BY <2>1, Zenon
  <2>3. a - b <= l /\ a \in Nat /\ b \in Nat
    BY <2>2
  <2>4. ~((a - 1) - l > b)
    BY <2>3, Difference
  <2> QED BY <2>2, <2>4
<1> QED BY <1>1, <1>4, <1>5

\* More calls within each other than there are global arguments come back to a key.
LEMMA LongCallsRepeat ==
    ASSUME Len(recipe.globals) \in Nat, NEW n \in Nat, n >= Len(recipe.globals) + 2,
           NEW W, W \subseteq DOMAIN info[at], NEW p \in [1..n -> W],
           \A k \in DOMAIN info[at] : info[at][k] # {} => k \in GlobalKeys,
           \A j \in 1..n - 1 : p[j] \in info[at][p[j + 1]]
    PROVE  \E k \in W : k \in Reaches(at, info[at][k])
<1> DEFINE N == Len(recipe.globals)
           J == 2..N + 2
           place(j) == CHOOSE i \in 1..N : recipe.globals[i].key = p[j]
           g == [j \in J |-> place(j)]
<1>1. ASSUME NEW j \in J PROVE j \in 1..n /\ g[j] \in 1..N /\ recipe.globals[g[j]].key = p[j]
  <2>1. j \in 1..n /\ j - 1 \in 1..n - 1 /\ (j - 1) + 1 = j
    OBVIOUS
  <2>2. p[j - 1] \in info[at][p[j]] /\ p[j] \in DOMAIN info[at]
    BY <2>1
  <2>3. p[j] \in GlobalKeys
    BY <2>2
  <2>4. \E i \in 1..N : recipe.globals[i].key = p[j]
    BY <2>3 DEF GlobalKeys
  <2> QED BY <2>1, <2>4
<1>2. g \in [J -> 1..N]
  <2>1. \A j \in J : g[j] \in 1..N
    BY <1>1
  <2>2. g = [j \in J |-> g[j]] /\ DOMAIN g = J
    <3> HIDE DEF J, place
    <3> QED OBVIOUS
  <2> HIDE DEF g, J
  <2> QED BY <2>1, <2>2
<1> HIDE DEF g
<1>3. IsFiniteSet(J) /\ IsFiniteSet(1..N) /\ Cardinality(1..N) < Cardinality(J)
  <2>1. PICK l \in Nat : l = N
    BY Zenon
  <2>2. IsFiniteSet(2..l + 2) /\ Cardinality(2..l + 2) = IF 2 > l + 2 THEN 0 ELSE (l + 2) - 2 + 1
    <3>1. 2 \in Int /\ l + 2 \in Int
      BY <2>1
    <3> QED BY <3>1, FS_Interval, Zenon
  <2>3. IsFiniteSet(1..l) /\ Cardinality(1..l) = IF 1 > l THEN 0 ELSE l - 1 + 1
    <3>1. 1 \in Int /\ l \in Int
      BY <2>1
    <3> QED BY <3>1, FS_Interval, Zenon
  <2>4. Cardinality(2..l + 2) = l + 1 /\ Cardinality(1..l) = l
    BY <2>1, <2>2, <2>3
  <2> QED BY <2>1, <2>2, <2>3, <2>4
<1>4. \E x, y \in J : x # y /\ g[x] = g[y]
  <2> HIDE DEF J, N
  <2> QED BY <1>2, <1>3, FS_PigeonHole
<1>5. PICK a, b \in J : b < a /\ g[a] = g[b]
  <2>1. PICK x, y \in J : x # y /\ g[x] = g[y]
    BY <1>4
  <2>2. x < y \/ y < x
    BY <2>1
  <2> QED BY <2>1, <2>2
<1>6. a \in 1..n /\ b \in 1..n /\ p[a] = p[b] /\ a - b <= N + 1
  <2>1. /\ a \in 1..n /\ recipe.globals[g[a]].key = p[a]
        /\ b \in 1..n /\ recipe.globals[g[b]].key = p[b]
    BY <1>1, Zenon
  <2>2. p[a] = p[b]
    BY <1>5, <2>1, Zenon
  <2>3. a - b <= N + 1
    <3>1. a \in 2..N + 2 /\ b \in 2..N + 2
      BY Zenon
    <3>2. PICK l \in Nat : l = N
      BY Zenon
    <3> QED BY <3>1, <3>2, Distance
  <2> QED BY <2>1, <2>2, <2>3, Zenon
<1>7. p[a] \in Reaches(at, info[at][p[a]])
  BY <1>5, <1>6, CircleIsReached
<1> QED BY <1>6, <1>7

LEMMA OutlineInit == Init => OutlineInv
<1> SUFFICES ASSUME Init PROVE OutlineInv
  OBVIOUS
<1>1. phase = "lint" /\ listed = {} /\ info = <<>> /\ used = <<>> /\ base = <<>> /\ allArgs = [k \in {} |-> {}]
  BY DEF Init
<1>2. allArgs \in Dependencies /\ OnlyGlobals(allArgs)
  <2>1. allArgs \in [{} -> SUBSET Key] /\ {} \in SUBSET Key /\ DOMAIN allArgs = {}
    BY <1>1
  <2> HIDE DEF Init
  <2> QED BY <2>1 DEF Dependencies, OnlyGlobals
<1>3. OutlineTypeOK
  BY <1>1, <1>2 DEF OutlineTypeOK
<1> QED BY <1>1, <1>3 DEF OutlineInv, OutlineIsWhole

\* Steps before the outline, that leave what it reads alone.
LEMMA OutlineQuiet ==
    ASSUME OutlineInv, UNCHANGED <<recipe, allArgs, base, info, used, listed>>,
           phase \in {"lint", "meta", "from", "stage", "args"},
           phase' \notin {"outline", "outlined", "overflow"}
    PROVE  OutlineInv'
<1>1. OutlineTypeOK'
  BY DEF OutlineInv, OutlineTypeOK, OnlyGlobals, GlobalKeys
<1> QED BY <1>1 DEF OutlineInv, OutlineIsWhole

LEMMA MetaArgsOutlines == ASSUME ArgsInv, OutlineInv, MetaArgs PROVE OutlineInv'
<1>1. /\ phase = "meta" /\ phase' = "from" /\ UNCHANGED <<recipe, base, info, used, listed>>
      /\ allArgs' = BuildMetaArgs(OptMetaArgs, given).all
  BY DEF MetaArgs
<1>2. Kept(BuildMetaArgs(OptMetaArgs, given), OptMetaArgs, given)
  BY PlatformArgsAre, GivenIs, RecipeIs, MetaArgsAre DEF ArgsInv, ArgsTypeOK
<1>3. allArgs' \in Dependencies /\ OnlyGlobals(allArgs')
  BY <1>1, <1>2 DEF Kept
<1>4. OnlyGlobals(allArgs)' /\ \A i \in 1..Len(base) : OnlyGlobals(info[i])'
  BY <1>1, <1>3 DEF OutlineInv, OutlineTypeOK, OnlyGlobals, GlobalKeys
<1>5. OutlineTypeOK'
  BY <1>1, <1>3, <1>4 DEF OutlineInv, OutlineTypeOK
<1> QED BY <1>1, <1>5 DEF OutlineInv, OutlineIsWhole

\* A stage starts with the outline of its base, or with the global arguments.
LEMMA FromOutlines == ASSUME ArgsInv, OutlineInv, From PROVE OutlineInv'
<1> DEFINE named == {j \in 1..at - 1 : Stages[j].name = BaseName}
           b == IF named = {} THEN 0 ELSE CHOOSE j \in named : \A k \in named : k <= j
           m == IF b = 0 THEN allArgs ELSE info[b]
           u == Matched(Stages[at].from, FromEnv) \cup (IF b = 0 THEN {} ELSE used[b])
<1>1. /\ phase = "from" /\ phase' \in {"from", "stage"} /\ UNCHANGED <<recipe, allArgs, listed>>
      /\ base' = Append(base, b) /\ info' = Append(info, m) /\ used' = Append(used, u)
  BY DEF From
<1>2. Len(base) = at - 1 /\ base \in Seq(Nat) /\ at \in 1..Target /\ Target \in Nat
  BY <1>1, GlobalsAre DEF ArgsInv, Loops, ArgsTypeOK
<1>3. b = 0 \/ b \in 1..Len(base)
  <2>1. CASE named # {}
    <3>1. named \in SUBSET (1..at - 1) /\ at - 1 \in Nat
      BY <1>2
    <3>2. \E j \in named : \A k \in named : k <= j
      <4> HIDE DEF named
      <4> QED BY <2>1, <3>1, GreatestNumber
    <3>3. b \in named
      BY <2>1, <3>2
    <3> HIDE DEF named, b
    <3> QED BY <1>2, <3>1, <3>3
  <2>2. CASE named = {}
    BY <2>2
  <2> QED BY <2>1, <2>2
<1> HIDE DEF b
<1>4. m \in Dependencies /\ OnlyGlobals(m)
  BY <1>3 DEF OutlineInv, OutlineTypeOK
<1>5. u \in SUBSET Key
  <2>1. Matched(Stages[at].from, FromEnv) \subseteq Key
    BY EnvKeys DEF Matched, FromEnv, ArgsInv, ArgsTypeOK
  <2>2. b # 0 => used[b] \subseteq Key
    BY <1>3 DEF OutlineInv, OutlineTypeOK
  <2> QED BY <2>1, <2>2
<1> HIDE DEF m, u
<1>6. b \in Nat
  BY <1>2, <1>3
<1>7. base \in Seq(Nat) /\ info \in Seq(Dependencies) /\ used \in Seq(SUBSET Key) /\ Len(info) = Len(base) /\ Len(used) = Len(base)
  BY <1>2 DEF OutlineInv, OutlineTypeOK
<1>8. /\ info' \in Seq(Dependencies) /\ Len(info') = Len(base) + 1 /\ info'[Len(base) + 1] = m
      /\ \A i \in 1..Len(base) : info'[i] = info[i]
  BY <1>1, <1>4, <1>7
<1>9. used' \in Seq(SUBSET Key) /\ Len(used') = Len(base) + 1 /\ Len(base') = Len(base) + 1
  BY <1>1, <1>5, <1>6, <1>7
<1>10. \A i \in 1..Len(base) + 1 : OnlyGlobals(info'[i])
  <2>1. \A i \in 1..Len(base) : OnlyGlobals(info[i])
    BY DEF OutlineInv, OutlineTypeOK
  <2> QED BY <1>4, <1>7, <1>8, <2>1
<1>11. GlobalKeys' = GlobalKeys
  BY <1>1 DEF GlobalKeys
<1>12. OutlineTypeOK'
  <2>1. allArgs' \in Dependencies /\ OnlyGlobals(allArgs)'
    BY <1>1, <1>11 DEF OutlineInv, OutlineTypeOK, OnlyGlobals
  <2>2. \A i \in 1..Len(base') : OnlyGlobals(info[i])'
    BY <1>9, <1>10, <1>11 DEF OnlyGlobals
  <2> QED BY <1>8, <1>9, <2>1, <2>2 DEF OutlineTypeOK
<1> QED BY <1>1, <1>12 DEF OutlineInv, OutlineIsWhole

LEMMA DispatchArgOutlines == ASSUME ArgsInv, OutlineInv, DispatchArg PROVE OutlineInv'
<1> DEFINE k == Args[arg].key
           m == Over([x \in {k} |-> {}], info[at])
<1>1. /\ phase = "args" /\ phase' = "args" /\ UNCHANGED <<recipe, allArgs, base, listed>>
      /\ info' = info \/ info' = [info EXCEPT ![at] = m]
      /\ used' = [used EXCEPT ![at] = @ \cup {k}]
  BY DEF DispatchArg
<1>2. at \in 1..Len(base) /\ k \in Key
  <2>1. at \in 1..Target /\ Target \in Nat /\ Len(base) = Target /\ arg \in 1..Len(Args)
    BY <1>1, RecipeIs DEF ArgsInv, Loops, InStages, ArgsTypeOK, DispatchArg, Args
  <2>2. Args \in Seq(Arg)
    BY <2>1, RecipeIs DEF Args, ArgsInv, ArgsTypeOK
  <2>3. Args[arg] \in Arg
    BY <2>1, <2>2
  <2> QED BY <2>1, <2>3 DEF Arg
<1>3. m \in Dependencies /\ (OnlyGlobals(info[at]) => OnlyGlobals(m))
  <2>1. info[at] \in Dependencies
    BY <1>2, InfoIs DEF OutlineInv
  <2> HIDE DEF k
  <2> QED BY <1>2, <2>1, OneMoreKey
<1> HIDE DEF k, m
<1>4. /\ info' \in Seq(Dependencies) /\ Len(info') = Len(info)
      /\ \A i \in 1..Len(base) : info'[i] \in {info[i], IF i = at THEN m ELSE info[i]}
  BY <1>1, <1>2, <1>3 DEF OutlineInv, OutlineTypeOK
<1>5. used' \in Seq(SUBSET Key) /\ Len(used') = Len(used)
  BY <1>1, <1>2 DEF OutlineInv, OutlineTypeOK
<1>6. \A i \in 1..Len(base) : OnlyGlobals(info'[i])
  <2>1. \A i \in 1..Len(base) : OnlyGlobals(info[i])
    BY DEF OutlineInv, OutlineTypeOK
  <2> QED BY <1>3, <1>4, <2>1
<1>7. GlobalKeys' = GlobalKeys
  BY <1>1 DEF GlobalKeys
<1>8. OutlineTypeOK'
  <2>1. allArgs' \in Dependencies /\ OnlyGlobals(allArgs)'
    BY <1>1, <1>7 DEF OutlineInv, OutlineTypeOK, OnlyGlobals
  <2>2. \A i \in 1..Len(base') : OnlyGlobals(info[i])'
    BY <1>1, <1>6, <1>7 DEF OnlyGlobals
  <2> QED BY <1>1, <1>4, <1>5, <2>1, <2>2 DEF OutlineInv, OutlineTypeOK
<1> QED BY <1>1, <1>8 DEF OutlineInv, OutlineIsWhole

\* The outline begins with the target.
LEMMA EndStageOutlines == ASSUME ArgsInv, OutlineInv, EndStage PROVE OutlineInv'
<1>1. /\ phase = "args" /\ UNCHANGED <<recipe, allArgs, base, info, used, listed>>
      /\ phase' = IF at = Target THEN "outline" ELSE "stage"
  BY DEF EndStage, convert
<1>2. CASE at # Target
  BY <1>1, <1>2, OutlineQuiet
<1>3. CASE at = Target
  <2>1. at' = at /\ stack' = <<used[at]>> /\ listed' = {}
    BY <1>1, <1>3 DEF EndStage, OutlineInv
  <2>2. TargetChain' = TargetChain /\ at \in TargetChain
    BY <1>1, <1>3, ChainStays, TargetIsBuilt, GlobalsAre
  <2>3. Passed' = {}
    <3>1. TargetChain \subseteq 1..Target /\ Target \in Nat
      BY <1>1, ChainGoesDown, GlobalsAre DEF ArgsInv, ArgsTypeOK, Loops, InStages
    <3> QED BY <1>3, <2>1, <2>2, <3>1 DEF Passed
  <2>4. used[at] \in SUBSET Key
    <3>1. at \in 1..Len(base)
      BY <1>1, GlobalsAre DEF ArgsInv, Loops, InStages
    <3> QED BY <3>1, InfoIs DEF OutlineInv
  <2>5. stack' \in Seq(SUBSET Key) /\ Len(stack') = 1 /\ stack'[1] = used[at]
    BY <2>1, <2>4
  <2>6. AllSeen'
    <3>1. ToSee' = used[at]
      BY <2>5 DEF ToSee
    <3> QED BY <1>1, <2>1, <3>1 DEF AllSeen, Outlined
  <2>7. \E p \in [1..Len(stack') - 1 -> Outlined(at)'] : Calls(p)'
    <3>1. [j \in {} |-> 0] \in [1..Len(stack') - 1 -> Outlined(at)']
      BY <2>5
    <3>2. \A p : Calls(p)'
      BY <2>5 DEF Calls
    <3> QED BY <3>1, <3>2
  <2>8. Len(stack') <= Len(recipe'.globals) + 2
    BY <1>1, <2>5, GlobalsAre
  <2>9. Searching'
    BY <2>1, <2>2, <2>3, <2>5, <2>6, <2>7, <2>8 DEF Searching
  <2>10. OutlineTypeOK'
    BY <1>1 DEF OutlineInv, OutlineTypeOK, OnlyGlobals, GlobalKeys
  <2> QED BY <1>1, <1>3, <2>9, <2>10 DEF OutlineInv, OutlineIsWhole
<1> QED BY <1>2, <1>3

LEMMA Joined ==
    ASSUME NEW S, NEW a \in Seq(S), NEW b \in Seq(S)
    PROVE  /\ a \o b \in Seq(S) /\ Len(a \o b) = Len(a) + Len(b)
           /\ \A j \in 1..Len(a) + Len(b) : (a \o b)[j] = IF j <= Len(a) THEN a[j] ELSE b[j - Len(a)]
OBVIOUS

\* A call: two sets in place of the first, or one.
LEMMA Called ==
    ASSUME NEW S, NEW s \in Seq(S), s # <<>>, NEW x \in S, NEW y \in S
    PROVE  /\ (<<x>> \o <<y>>) \o Tail(s) \in Seq(S)
           /\ Len((<<x>> \o <<y>>) \o Tail(s)) = Len(s) + 1
           /\ ((<<x>> \o <<y>>) \o Tail(s))[1] = x
           /\ ((<<x>> \o <<y>>) \o Tail(s))[2] = y
           /\ \A j \in 2..Len(s) : ((<<x>> \o <<y>>) \o Tail(s))[j + 1] = s[j]
           /\ (<<>> \o <<y>>) \o Tail(s) \in Seq(S)
           /\ Len((<<>> \o <<y>>) \o Tail(s)) = Len(s)
           /\ ((<<>> \o <<y>>) \o Tail(s))[1] = y
           /\ \A j \in 2..Len(s) : ((<<>> \o <<y>>) \o Tail(s))[j] = s[j]
<1>1. Tail(s) \in Seq(S) /\ Len(Tail(s)) = Len(s) - 1 /\ Len(s) \in Nat /\ Len(s) >= 1 /\ \A j \in 1..Len(s) - 1 : Tail(s)[j] = s[j + 1]
  OBVIOUS
<1>2. PICK t \in Seq(S) : t = Tail(s)
  BY <1>1
<1> DEFINE xs == <<x>>
           ys == <<y>>
           none == <<>>
<1>3. xs \in Seq(S) /\ ys \in Seq(S) /\ none \in Seq(S) /\ Len(xs) = 1 /\ Len(ys) = 1 /\ Len(none) = 0 /\ xs[1] = x /\ ys[1] = y
  OBVIOUS
<1> HIDE DEF xs, ys, none
<1>4. PICK two \in Seq(S) : two = xs \o ys /\ Len(two) = 2 /\ two[1] = x /\ two[2] = y
  <2>1. PICK a, b \in Seq(S) : a = xs /\ b = ys
    BY <1>3
  <2>2. PICK c : c = a \o b
    OBVIOUS
  <2>3. c \in Seq(S) /\ Len(c) = 2 /\ \A j \in 1..2 : c[j] = IF j <= 1 THEN a[j] ELSE b[j - 1]
    <3>1. c \in Seq(S) /\ Len(c) = Len(a) + Len(b) /\ \A j \in 1..Len(a) + Len(b) : c[j] = IF j <= Len(a) THEN a[j] ELSE b[j - Len(a)]
      BY <2>2, Joined
    <3>2. Len(a) = 1 /\ Len(b) = 1
      BY <1>3, <2>1
    <3> QED BY <3>1, <3>2
  <2>4. c[1] = x /\ c[2] = y
    BY <1>3, <2>1, <2>3
  <2> QED BY <2>1, <2>2, <2>3, <2>4
<1>5. PICK one \in Seq(S) : one = none \o ys /\ Len(one) = 1 /\ one[1] = y
  BY <1>3
<1>6. \A j \in 1..Len(s) - 1 : t[j] = s[j + 1] /\ Len(t) = Len(s) - 1
  BY <1>1, <1>2
<1>7. /\ two \o t \in Seq(S) /\ Len(two \o t) = Len(s) + 1 /\ (two \o t)[1] = x /\ (two \o t)[2] = y
      /\ \A j \in 2..Len(s) : (two \o t)[j + 1] = s[j]
  <2>1. Len(t) = Len(s) - 1
    BY <1>1, <1>2
  <2>2. \A j \in 1..Len(two) + Len(t) : (two \o t)[j] = IF j <= Len(two) THEN two[j] ELSE t[j - Len(two)]
    OBVIOUS
  <2>3. two \o t \in Seq(S) /\ Len(two \o t) = Len(two) + Len(t)
    OBVIOUS
  <2>4. ASSUME NEW j \in 2..Len(s) PROVE (two \o t)[j + 1] = s[j]
    <3>1. j + 1 \in 1..Len(two) + Len(t) /\ ~(j + 1 <= 2) /\ (j + 1) - 2 = j - 1 /\ j - 1 \in 1..Len(s) - 1 /\ (j - 1) + 1 = j
      BY <1>1, <1>4, <2>1
    <3>2. (two \o t)[j + 1] = t[j - 1]
      BY <1>4, <2>2, <3>1
    <3> QED BY <1>6, <3>1, <3>2
  <2>5. (two \o t)[1] = x /\ (two \o t)[2] = y
    <3>1. 1 \in 1..Len(two) + Len(t) /\ 2 \in 1..Len(two) + Len(t) /\ 1 <= Len(two) /\ 2 <= Len(two)
      BY <1>1, <1>4, <2>1
    <3> QED BY <1>4, <2>2, <3>1
  <2>6. Len(two \o t) = Len(s) + 1
    BY <1>1, <1>4, <2>1, <2>3
  <2> QED BY <2>3, <2>4, <2>5, <2>6
<1>8. /\ one \o t \in Seq(S) /\ Len(one \o t) = Len(s) /\ (one \o t)[1] = y
      /\ \A j \in 2..Len(s) : (one \o t)[j] = s[j]
  <2>1. Len(t) = Len(s) - 1
    BY <1>1, <1>2
  <2>2. \A j \in 1..Len(one) + Len(t) : (one \o t)[j] = IF j <= Len(one) THEN one[j] ELSE t[j - Len(one)]
    OBVIOUS
  <2>3. one \o t \in Seq(S) /\ Len(one \o t) = Len(one) + Len(t)
    OBVIOUS
  <2>4. ASSUME NEW j \in 2..Len(s) PROVE (one \o t)[j] = s[j]
    <3>1. j \in 1..Len(one) + Len(t) /\ ~(j <= 1) /\ j - 1 \in 1..Len(s) - 1 /\ (j - 1) + 1 = j
      BY <1>1, <1>5, <2>1
    <3>2. (one \o t)[j] = t[j - 1]
      BY <1>5, <2>2, <3>1
    <3> QED BY <1>6, <3>1, <3>2
  <2>5. (one \o t)[1] = y
    <3>1. 1 \in 1..Len(one) + Len(t) /\ 1 <= Len(one)
      BY <1>1, <1>5, <2>1
    <3> QED BY <1>5, <2>2, <3>1
  <2>6. Len(one \o t) = Len(s)
    BY <1>1, <1>5, <2>1, <2>3
  <2> QED BY <2>3, <2>4, <2>5, <2>6
<1> QED BY <1>2, <1>4, <1>5, <1>7, <1>8 DEF xs, ys, none

LEMMA MarkAllUsedOutlines == ASSUME ArgsInv, OutlineInv, NEW k \in Key, MarkAllUsed(k) PROVE OutlineInv'
<1>1. /\ phase = "outline" /\ stack # <<>> /\ k \in Head(stack)
      /\ UNCHANGED <<recipe, allArgs, base, at, info, listed>>
      /\ used' = [used EXCEPT ![at] = @ \cup {k}]
      /\ stack' = (IF k \in DOMAIN info[at] THEN <<info[at][k]>> ELSE <<>>) \o <<Head(stack) \ {k}>> \o Tail(stack)
      /\ phase' = IF Len(stack') > Len(recipe.globals) + 2 THEN "overflow" ELSE "outline"
  BY DEF MarkAllUsed, convert, Deps
<1>2. Searching /\ OutlineTypeOK
  BY <1>1 DEF OutlineInv
<1>3. at \in 1..Len(base) /\ Len(base) = Target /\ Target \in Nat /\ Len(recipe.globals) \in Nat
  BY <1>1, GlobalsAre DEF ArgsInv, Loops, InStages
<1>4. PICK D, N, L : D = DOMAIN info[at] /\ N = Len(recipe.globals) /\ L = Len(stack)
  OBVIOUS
<1>5. D \subseteq Key /\ \A x \in D : info[at][x] \subseteq Key /\ (info[at][x] # {} => x \in GlobalKeys)
  BY <1>2, <1>3, <1>4, InfoIs
<1>6. L \in Nat /\ L >= 1 /\ L <= N + 2 /\ Head(stack) = stack[1] /\ stack[1] \in SUBSET Key /\ k \in stack[1]
  BY <1>1, <1>2, <1>4 DEF Searching
<1>7. k \in D => /\ stack' \in Seq(SUBSET Key) /\ Len(stack') = L + 1
                 /\ stack'[1] = info[at][k] /\ stack'[2] = stack[1] \ {k} /\ \A j \in 2..L : stack'[j + 1] = stack[j]
  <2>1. SUFFICES ASSUME k \in D
        PROVE  /\ stack' \in Seq(SUBSET Key) /\ Len(stack') = L + 1
               /\ stack'[1] = info[at][k] /\ stack'[2] = stack[1] \ {k} /\ \A j \in 2..L : stack'[j + 1] = stack[j]
    OBVIOUS
  <2>2. info[at][k] \in SUBSET Key /\ stack[1] \ {k} \in SUBSET Key /\ stack \in Seq(SUBSET Key)
    BY <1>2, <1>5, <1>6, <2>1 DEF Searching
  <2>3. stack' = (<<info[at][k]>> \o <<stack[1] \ {k}>>) \o Tail(stack)
    BY <1>1, <1>4, <1>6, <2>1
  <2>4. PICK s, x, y : s = stack /\ x = info[at][k] /\ y = stack[1] \ {k}
    OBVIOUS
  <2>5. s \in Seq(SUBSET Key) /\ s # <<>> /\ x \in SUBSET Key /\ y \in SUBSET Key /\ stack' = (<<x>> \o <<y>>) \o Tail(s)
    BY <1>1, <2>2, <2>3, <2>4
  <2>6. /\ stack' \in Seq(SUBSET Key) /\ Len(stack') = Len(s) + 1
        /\ stack'[1] = x /\ stack'[2] = y /\ \A j \in 2..Len(s) : stack'[j + 1] = s[j]
    BY <2>5, Called
  <2> QED BY <1>4, <2>4, <2>6
<1>8. k \notin D => /\ stack' \in Seq(SUBSET Key) /\ Len(stack') = L
                    /\ stack'[1] = stack[1] \ {k} /\ \A j \in 2..L : stack'[j] = stack[j]
  <2>1. SUFFICES ASSUME k \notin D
        PROVE  /\ stack' \in Seq(SUBSET Key) /\ Len(stack') = L
               /\ stack'[1] = stack[1] \ {k} /\ \A j \in 2..L : stack'[j] = stack[j]
    OBVIOUS
  <2>2. stack[1] \ {k} \in SUBSET Key /\ stack \in Seq(SUBSET Key)
    BY <1>2, <1>6 DEF Searching
  <2>3. stack' = (<<>> \o <<stack[1] \ {k}>>) \o Tail(stack)
    BY <1>1, <1>4, <1>6, <2>1
  <2> QED BY <1>1, <1>4, <2>2, <2>3, Called
<1>9. used' \in Seq(SUBSET Key) /\ Len(used') = Len(used)
      /\ used'[at] = used[at] \cup {k} /\ \A i \in 1..Len(base) : i # at => used'[i] = used[i]
  BY <1>1, <1>2, <1>3 DEF OutlineTypeOK
<1>10. OutlineTypeOK'
  <2>1. OnlyGlobals(allArgs)' /\ \A i \in 1..Len(base') : OnlyGlobals(info[i])'
    <3>2. OnlyGlobals(allArgs) /\ \A i \in 1..Len(base) : OnlyGlobals(info[i])
      BY <1>2 DEF OutlineTypeOK
    <3>3. OnlyGlobals(allArgs)' = OnlyGlobals(allArgs)
      BY <1>1 DEF OnlyGlobals, GlobalKeys
    <3>4. \A i : OnlyGlobals(info[i])' = OnlyGlobals(info[i])
      BY <1>1 DEF OnlyGlobals, GlobalKeys
    <3> QED BY <1>1, <3>2, <3>3, <3>4
  <2>2. Len(used') = Len(base') /\ Len(info') = Len(base') /\ info' \in Seq(Dependencies) /\ allArgs' \in Dependencies
    BY <1>1, <1>2, <1>9 DEF OutlineTypeOK
  <2> QED BY <1>9, <2>1, <2>2 DEF OutlineTypeOK
<1>11. Passed' = Passed /\ Passed \subseteq 1..Len(base) \ {at}
  <2>1. TargetChain' = TargetChain /\ TargetChain \subseteq 1..Target
    BY <1>1, <1>3, ChainStays, ChainGoesDown DEF ArgsInv, ArgsTypeOK
  <2>2. Passed' = Passed
    BY <1>1, <2>1 DEF Passed
  <2>3. \A i \in Passed : i \in 1..Target /\ i # at
    BY <1>3, <2>1 DEF Passed
  <2> QED BY <1>3, <2>2, <2>3
<1>12. \A i \in Passed : Outlined(i)' = Outlined(i) /\ Closed(i)'
  <2>1. ASSUME NEW i \in Passed PROVE Outlined(i)' = Outlined(i) /\ Closed(i)'
    <3>1. used'[i] = used[i] /\ info'[i] = info[i] /\ Closed(i)
      BY <1>1, <1>2, <1>9, <1>11 DEF Searching
    <3>2. Outlined(i)' = Outlined(i)
      BY <3>1 DEF Outlined
    <3> QED BY <3>1, <3>2 DEF Closed
  <2> QED BY <2>1
<1>13. listed' = UNION {Outlined(i) : i \in Passed}'
  <2>1. listed = UNION {Outlined(i) : i \in Passed}
    BY <1>2 DEF Searching
  <2> QED BY <1>1, <1>11, <1>12, <2>1
<1>14. Outlined(at)' = Outlined(at) \cup ({k} \cap D) /\ Outlined(at)' \subseteq D
  BY <1>1, <1>4, <1>9 DEF Outlined
<1>15. ToSee \ {k} \subseteq ToSee' /\ (k \in D => info[at][k] \subseteq ToSee')
  <2>1. ASSUME NEW x \in ToSee, x # k PROVE x \in ToSee'
    <3>1. PICK j \in 1..L : x \in stack[j]
      BY <1>4 DEF ToSee
    <3>2. \E i \in 1..Len(stack') : x \in stack'[i]
      <4>1. CASE k \in D
        <5>1. IF j = 1 THEN 2 \in 1..L + 1 /\ x \in stack'[2] ELSE j + 1 \in 1..L + 1 /\ x \in stack'[j + 1]
          BY <1>6, <1>7, <2>1, <3>1, <4>1
        <5> QED BY <1>7, <4>1, <5>1
      <4>2. CASE k \notin D
        <5>1. x \in stack'[j]
          BY <1>6, <1>8, <2>1, <3>1, <4>2
        <5> QED BY <1>8, <3>1, <4>2, <5>1
      <4> QED BY <4>1, <4>2
    <3> QED BY <3>2 DEF ToSee
  <2>2. ASSUME k \in D PROVE info[at][k] \subseteq ToSee'
    <3>1. 1 \in 1..Len(stack') /\ stack'[1] = info[at][k]
      BY <1>6, <1>7, <2>2
    <3> QED BY <3>1 DEF ToSee
  <2> QED BY <2>1, <2>2
<1>16. AllSeen'
  <2>1. ASSUME NEW x \in Outlined(at)' PROVE x \in ToSee' \/ info[at][x] \subseteq used'[at] \cup ToSee'
    <3>1. CASE x = k
      <4>1. k \in D
        BY <1>14, <3>1
      <4> QED BY <1>15, <3>1, <4>1
    <3>2. CASE x # k
      <4>1. x \in ToSee \/ info[at][x] \subseteq used[at] \cup ToSee
        BY <1>2, <1>14, <3>2 DEF Searching, AllSeen
      <4> QED BY <1>9, <1>15, <3>2, <4>1
    <3> QED BY <3>1, <3>2
  <2> QED BY <1>1, <2>1 DEF AllSeen
<1>17. PICK p \in [1..L - 1 -> Outlined(at)] : Calls(p)
  BY <1>2, <1>4 DEF Searching
<1>18. \A j \in 1..L - 1 : stack[j] \subseteq info[at][p[j]] /\ (j < L - 1 => p[j] \in info[at][p[j + 1]])
  BY <1>4, <1>17 DEF Calls
<1>19. ASSUME k \notin D PROVE p \in [1..Len(stack') - 1 -> Outlined(at)'] /\ Calls(p)'
  <2>1. p \in [1..Len(stack') - 1 -> Outlined(at)']
    BY <1>8, <1>14, <1>17, <1>19
  <2>2. \A j \in 1..L - 1 : stack'[j] \subseteq stack[j]
    BY <1>6, <1>8, <1>19
  <2> QED BY <1>1, <1>8, <1>18, <1>19, <2>1, <2>2 DEF Calls
<1>20. ASSUME k \in D PROVE \E q \in [1..L -> Outlined(at)'] :
           /\ \A j \in 1..L : stack'[j] \subseteq info[at][q[j]] /\ (j < L => q[j] \in info[at][q[j + 1]])
  <2> DEFINE q == [j \in 1..L |-> IF j = 1 THEN k ELSE p[j - 1]]
  <2>1. \A j \in 1..L : q[j] = IF j = 1 THEN k ELSE p[j - 1]
    OBVIOUS
  <2>2. q \in [1..L -> Outlined(at)']
    <3>1. k \in Outlined(at)'
      BY <1>14, <1>20
    <3>2. \A j \in 1..L : j # 1 => p[j - 1] \in Outlined(at)'
      BY <1>6, <1>14, <1>17
    <3> QED BY <3>1, <3>2
  <2> HIDE DEF q
  <2>3. ASSUME NEW j \in 1..L PROVE stack'[j] \subseteq info[at][q[j]] /\ (j < L => q[j] \in info[at][q[j + 1]])
    <3>1. CASE j = 1
      <4>1. stack'[1] = info[at][k] /\ q[1] = k
        BY <1>6, <1>7, <1>20, <2>1
      <4>2. ASSUME 1 < L PROVE k \in info[at][q[2]]
        <5>1. q[2] = p[1] /\ 1 \in 1..L - 1
          BY <1>6, <2>1, <4>2
        <5> QED BY <1>6, <1>18, <5>1
      <4>3. 1 + 1 = 2
        OBVIOUS
      <4> QED BY <3>1, <4>1, <4>2, <4>3
    <3>2. CASE j # 1
      <4>1. PICK i \in 1..L - 1 : i = j - 1 /\ j = i + 1
        BY <1>6, <3>2
      <4>2. q[j] = p[i]
        BY <2>1, <3>2, <4>1
      <4>3. stack'[j] \subseteq stack[i]
        <5>1. CASE i = 1
          <6>1. j = 2
            BY <4>1, <5>1
          <6> QED BY <1>7, <1>20, <5>1, <6>1
        <5>2. CASE i # 1
          <6>1. i \in 2..L
            BY <1>6, <5>2
          <6> QED BY <1>7, <1>20, <4>1, <6>1
        <5> QED BY <5>1, <5>2
      <4>4. ASSUME j < L PROVE q[j + 1] = p[i + 1] /\ i < L - 1
        <5>1. j + 1 \in 1..L /\ j + 1 # 1 /\ (j + 1) - 1 = i + 1 /\ i < L - 1
          BY <1>6, <4>1, <4>4
        <5> QED BY <2>1, <5>1
      <4> QED BY <1>18, <4>1, <4>2, <4>3, <4>4
    <3> QED BY <3>1, <3>2
  <2> QED BY <2>2, <2>3
<1>21. CASE Len(stack') > N + 2
  <2>1. k \in D /\ L = N + 2
    BY <1>3, <1>4, <1>6, <1>7, <1>8, <1>21
  <2>2. PICK q \in [1..L -> Outlined(at)'] : \A j \in 1..L - 1 : q[j] \in info[at][q[j + 1]]
    BY <1>6, <1>20, <2>1
  <2>3. \E x \in Outlined(at)' : x \in Reaches(at, info[at][x])
    <3>1. PICK W : W = Outlined(at)'
      OBVIOUS
    <3>2. W \subseteq DOMAIN info[at] /\ L \in Nat /\ L >= Len(recipe.globals) + 2
      BY <1>3, <1>4, <1>14, <2>1, <3>1
    <3>3. \A x \in DOMAIN info[at] : info[at][x] # {} => x \in GlobalKeys
      BY <1>4, <1>5
    <3>4. q \in [1..L -> W] /\ \A j \in 1..L - 1 : q[j] \in info[at][q[j + 1]]
      BY <2>2, <3>1
    <3>5. \E x \in W : x \in Reaches(at, info[at][x])
      BY <1>3, <3>2, <3>3, <3>4, LongCallsRepeat, Zenon
    <3> QED BY <3>1, <3>5
  <2>4. \A x : Reaches(at, info[at][x])' = Reaches(at, info[at][x])
    BY <1>1 DEF Reaches
  <2>5. \E x \in Outlined(at)' : x \in Reaches(at, info[at][x])'
    BY <2>3, <2>4
  <2>6. phase' = "overflow"
    BY <1>1, <1>4, <1>21
  <2>7. OutlineIsWhole'
    BY <2>5, <2>6 DEF OutlineIsWhole, Outlined
  <2> QED BY <1>10, <2>6, <2>7 DEF OutlineInv
<1>22. CASE ~(Len(stack') > N + 2)
  <2>1. phase' = "outline"
    BY <1>1, <1>4, <1>22
  <2>2. \E q \in [1..Len(stack') - 1 -> Outlined(at)'] : Calls(q)'
    <3>1. CASE k \notin D
      BY <1>19, <3>1
    <3>2. CASE k \in D
      <4>1. Len(stack') = L + 1 /\ (L + 1) - 1 = L
        BY <1>6, <1>7, <3>2
      <4>2. PICK q \in [1..L -> Outlined(at)'] :
              \A j \in 1..L : stack'[j] \subseteq info[at][q[j]] /\ (j < L => q[j] \in info[at][q[j + 1]])
        BY <1>20, <3>2
      <4>3. Calls(q)'
        BY <1>1, <4>1, <4>2 DEF Calls
      <4> QED BY <4>1, <4>2, <4>3
    <3> QED BY <3>1, <3>2
  <2>3. Len(stack') <= Len(recipe'.globals) + 2 /\ stack' \in Seq(SUBSET Key)
    <3>1. Len(stack') \in Nat
      BY <1>6, <1>7, <1>8
    <3> QED BY <1>1, <1>3, <1>4, <1>7, <1>8, <1>22, <3>1
  <2>4. at' \in TargetChain'
    BY <1>1, <1>2, ChainStays DEF Searching
  <2>5. Searching'
    BY <1>1, <1>11, <1>12, <1>13, <1>16, <2>2, <2>3, <2>4 DEF Searching
  <2>6. OutlineIsWhole'
    BY <2>1 DEF OutlineIsWhole
  <2> QED BY <1>10, <2>1, <2>5, <2>6 DEF OutlineInv
<1> QED BY <1>21, <1>22

\* A call that has seen its keys returns.
LEMMA ReturnOutlines == ASSUME ArgsInv, OutlineInv, Return PROVE OutlineInv'
<1>1. /\ phase = "outline" /\ phase' = "outline" /\ stack # <<>> /\ Head(stack) = {} /\ stack' = Tail(stack)
      /\ UNCHANGED <<recipe, allArgs, base, at, info, used, listed>>
  BY DEF Return, convert
<1>2. Searching /\ OutlineTypeOK
  BY <1>1 DEF OutlineInv
<1>3. PICK L \in Nat : L = Len(stack) /\ L >= 1 /\ L <= Len(recipe.globals) + 2
  BY <1>1, <1>2 DEF Searching
<1>4. /\ stack' \in Seq(SUBSET Key) /\ Len(stack') = L - 1 /\ stack[1] = {}
      /\ \A j \in 1..L - 1 : stack'[j] = stack[j + 1]
  BY <1>1, <1>2, <1>3 DEF Searching
<1>5. Passed' = Passed /\ TargetChain' = TargetChain
  BY <1>1, ChainStays DEF Passed
<1>6. \A i : Outlined(i)' = Outlined(i) /\ (Closed(i) => Closed(i)')
  BY <1>1 DEF Outlined, Closed
<1>7. ToSee \subseteq ToSee'
  <2>1. ASSUME NEW x \in ToSee PROVE x \in ToSee'
    <3>1. PICK j \in 1..L : x \in stack[j]
      BY <1>3 DEF ToSee
    <3>2. j # 1
      BY <1>4, <3>1
    <3>3. j - 1 \in 1..L - 1 /\ (j - 1) + 1 = j
      BY <3>2
    <3>4. j - 1 \in 1..Len(stack') /\ x \in stack'[j - 1]
      BY <1>4, <3>1, <3>3
    <3> QED BY <3>4 DEF ToSee
  <2> QED BY <2>1
<1>8. AllSeen'
  <2>1. ASSUME NEW x \in Outlined(at) PROVE x \in ToSee' \/ info[at][x] \subseteq used[at] \cup ToSee'
    BY <1>2, <1>7 DEF Searching, AllSeen
  <2> QED BY <1>1, <1>6, <2>1 DEF AllSeen
<1>9. \E q \in [1..Len(stack') - 1 -> Outlined(at)'] : Calls(q)'
  <2>1. PICK p \in [1..L - 1 -> Outlined(at)] : Calls(p)
    BY <1>2, <1>3 DEF Searching
  <2>2. \A j \in 1..L - 1 : stack[j] \subseteq info[at][p[j]] /\ (j < L - 1 => p[j] \in info[at][p[j + 1]])
    BY <1>3, <2>1 DEF Calls
  <2> DEFINE q == [j \in 1..L - 2 |-> p[j + 1]]
  <2>3. q \in [1..L - 2 -> Outlined(at)] /\ \A j \in 1..L - 2 : q[j] = p[j + 1]
    <3>1. \A j \in 1..L - 2 : p[j + 1] \in Outlined(at)
      BY <1>3, <2>1
    <3> QED BY <3>1
  <2> HIDE DEF q
  <2>4. ASSUME NEW j \in 1..L - 2 PROVE stack'[j] \subseteq info[at][q[j]] /\ (j < L - 2 => q[j] \in info[at][q[j + 1]])
    <3>1. PICK i \in 1..L - 1 : i = j + 1 /\ j \in 1..L - 1
      BY <1>3
    <3>2. stack'[j] = stack[i] /\ q[j] = p[i]
      BY <1>4, <2>3, <3>1
    <3>3. ASSUME j < L - 2 PROVE q[j + 1] = p[i + 1] /\ i < L - 1
      <4>1. j + 1 \in 1..L - 2 /\ (j + 1) + 1 = i + 1 /\ i < L - 1
        BY <1>3, <3>1, <3>3
      <4>2. q[j + 1] = p[(j + 1) + 1]
        BY <2>3, <4>1
      <4> QED BY <4>1, <4>2
    <3> QED BY <2>2, <3>1, <3>2, <3>3
  <2>5. (L - 1) - 1 = L - 2
    BY <1>3
  <2>6. Calls(q)'
    BY <1>1, <1>4, <2>4, <2>5 DEF Calls
  <2>7. q \in [1..Len(stack') - 1 -> Outlined(at)']
    BY <1>1, <1>4, <1>6, <2>3, <2>5
  <2> QED BY <2>6, <2>7
<1>10. Searching'
  <2>1. at' \in TargetChain'
    BY <1>1, <1>2, <1>5 DEF Searching
  <2>2. listed' = UNION {Outlined(i) : i \in Passed}' /\ \A i \in Passed' : Closed(i)'
    BY <1>1, <1>2, <1>5, <1>6 DEF Searching
  <2>3. Len(stack') <= Len(recipe'.globals) + 2
    <3>1. Len(recipe.globals) \in Nat
      BY GlobalsAre
    <3> QED BY <1>1, <1>3, <1>4, <3>1
  <2> QED BY <1>4, <1>8, <1>9, <2>1, <2>2, <2>3 DEF Searching
<1>11. OutlineTypeOK'
  BY <1>1, <1>2 DEF OutlineTypeOK, OnlyGlobals, GlobalKeys
<1> QED BY <1>1, <1>10, <1>11 DEF OutlineInv, OutlineIsWhole

\* When all calls have returned, the stage has all that it reaches.
LEMMA ListArgsOutlines == ASSUME ArgsInv, OutlineInv, ListArgs PROVE OutlineInv'
<1>1. /\ phase = "outline" /\ stack = <<>> /\ UNCHANGED <<recipe, allArgs, base, info, used>>
      /\ listed' = listed \cup Outlined(at)
      /\ IF base[at] = 0 THEN phase' = "outlined" /\ at' = at
         ELSE phase' = "outline" /\ at' = base[at] /\ stack' = <<used[base[at]]>>
  BY DEF ListArgs, convert, Outlined
<1>2. Searching /\ OutlineTypeOK
  BY <1>1 DEF OutlineInv
<1>3. /\ at \in 1..Target /\ Len(base) = Target /\ Target \in Nat /\ Target # 0 /\ Len(recipe.globals) \in Nat
      /\ base \in Seq(Nat) /\ \A i \in 1..Len(base) : base[i] < i
  BY <1>1, GlobalsAre DEF ArgsInv, Loops, InStages, ArgsTypeOK
<1>4. TargetChain' = TargetChain /\ Target' = Target
  BY <1>1, ChainStays DEF Target, Stages
<1>5. /\ TargetChain \subseteq 1..Target /\ at \in TargetChain /\ base[at] < at /\ base[at] \in Nat
      /\ base[at] # 0 => base[at] \in TargetChain
      /\ \A j \in TargetChain : j < at => j <= base[at]
  BY <1>2, <1>3, ChainGoesDown DEF Searching
<1>6. Closed(at)
  <2>1. ToSee = {}
    <3>1. Len(stack) = 0
      BY <1>1
    <3> QED BY <3>1 DEF ToSee
  <2> QED BY <1>2, <2>1 DEF Searching, AllSeen, Closed
<1>7. {i \in TargetChain : i > base[at]} = Passed \cup {at}
  <2>1. ASSUME NEW i \in TargetChain PROVE i > base[at] <=> i > at \/ i = at
    BY <1>3, <1>5
  <2> QED BY <1>5, <2>1 DEF Passed
<1>8. /\ listed' = UNION {Outlined(i) : i \in Passed \cup {at}}
      /\ \A i \in Passed \cup {at} : Closed(i)
  BY <1>1, <1>2, <1>6 DEF Searching
<1>9. OutlineTypeOK'
  BY <1>1, <1>2 DEF OutlineTypeOK, OnlyGlobals, GlobalKeys
<1>10. \A i : Outlined(i)' = Outlined(i) /\ (Closed(i) => Closed(i)')
  BY <1>1 DEF Outlined, Closed
<1>11. CASE base[at] = 0
  <2>1. Passed \cup {at} = TargetChain
    <3>1. \A i \in TargetChain : i > base[at]
      BY <1>3, <1>5, <1>11
    <3>2. {i \in TargetChain : i > base[at]} = TargetChain
      BY <3>1
    <3> QED BY <1>7, <3>2
  <2>2. \A i \in TargetChain : Reaches(i, used[i]) = used[i]
    BY <1>3, <1>8, <2>1, ClosedReaches
  <2>3. listed' = UNION {Reaches(i, used[i]) \cap DOMAIN info[i] : i \in TargetChain}
    BY <1>8, <2>1, <2>2 DEF Outlined
  <2>4. \A i : Reaches(i, used[i])' = Reaches(i, used[i])
    BY <1>1 DEF Reaches
  <2>5. listed' = UNION {Reaches(i, used[i]) \cap DOMAIN info[i] : i \in TargetChain}'
    BY <1>1, <1>4, <2>3, <2>4
  <2>6. OutlineIsWhole'
    BY <1>1, <1>11, <2>5 DEF OutlineIsWhole, TargetChain
  <2> QED BY <1>1, <1>9, <1>11, <2>6 DEF OutlineInv
<1>12. CASE base[at] # 0
  <2>1. at' = base[at] /\ at' \in TargetChain' /\ Passed' = Passed \cup {at} /\ phase' = "outline"
    BY <1>1, <1>4, <1>5, <1>7, <1>12 DEF Passed
  <2>2. used[base[at]] \in SUBSET Key
    <3>1. base[at] \in 1..Len(base)
      BY <1>3, <1>5, <1>12
    <3> QED BY <1>2, <3>1, InfoIs
  <2>3. stack' \in Seq(SUBSET Key) /\ Len(stack') = 1 /\ stack'[1] = used[base[at]]
    <3>1. PICK u \in SUBSET Key : u = used[base[at]]
      BY <2>2
    <3>2. stack' = <<u>>
      BY <1>1, <1>12, <3>1
    <3> QED BY <3>1, <3>2
  <2>4. AllSeen'
    <3>1. ToSee' = used[base[at]]
      BY <2>3 DEF ToSee
    <3> QED BY <1>1, <2>1, <3>1 DEF AllSeen, Outlined
  <2>5. \E p \in [1..Len(stack') - 1 -> Outlined(at)'] : Calls(p)'
    <3>1. [j \in {} |-> 0] \in [1..Len(stack') - 1 -> Outlined(at)']
      BY <2>3
    <3>2. \A p : Calls(p)'
      BY <2>3 DEF Calls
    <3> QED BY <3>1, <3>2
  <2>6. Len(stack') <= Len(recipe'.globals) + 2
    BY <1>1, <1>3, <2>3
  <2>7. listed' = UNION {Outlined(i) : i \in Passed}' /\ \A i \in Passed' : Closed(i)'
    BY <1>8, <1>10, <2>1
  <2>8. Searching'
    BY <2>1, <2>3, <2>4, <2>5, <2>6, <2>7 DEF Searching
  <2> QED BY <1>9, <2>1, <2>8 DEF OutlineInv, OutlineIsWhole
<1> QED BY <1>11, <1>12

LEMMA OutlineStep == ArgsInv /\ OutlineInv /\ [Next]_vars => OutlineInv'
<1> SUFFICES ASSUME ArgsInv, OutlineInv, [Next]_vars PROVE OutlineInv'
  OBVIOUS
<1>1. CASE UNCHANGED vars
  <2>1. UNCHANGED <<recipe, phase, allArgs, base, at, info, used, stack, listed>>
    BY <1>1 DEF vars, convert
  <2>2. OutlineTypeOK'
    BY <2>1 DEF OutlineInv, OutlineTypeOK, OnlyGlobals, GlobalKeys
  <2>3. OutlineIsWhole'
    <3>1. TargetChain' = TargetChain
      BY <2>1, ChainStays
    <3>3. \A i : Reaches(i, used[i])' = Reaches(i, used[i])
      BY <2>1 DEF Reaches
    <3>4. \A k : Reaches(at, info[at][k])' = Reaches(at, info[at][k])
      BY <2>1 DEF Reaches
    <3>5. OutlineIsWhole
      BY DEF OutlineInv
    <3> QED BY <2>1, <3>1, <3>3, <3>4, <3>5 DEF OutlineIsWhole, TargetChain
  <2>4. phase' = "outline" => Searching'
    <3>1. TargetChain' = TargetChain
      BY <2>1, ChainStays
    <3>2. Passed' = Passed /\ ToSee' = ToSee /\ \A i : Outlined(i)' = Outlined(i) /\ Closed(i)' = Closed(i)
      BY <2>1, <3>1 DEF Passed, ToSee, Outlined, Closed
    <3>3. \A p : Calls(p)' = Calls(p)
      BY <2>1 DEF Calls
    <3>4. AllSeen' = AllSeen
      BY <2>1, <3>2 DEF AllSeen
    <3> QED BY <2>1, <3>1, <3>2, <3>3, <3>4 DEF OutlineInv, Searching
  <2> QED BY <2>1, <2>2, <2>3, <2>4 DEF OutlineInv
<1>2. CASE ValidateBaseImagesWithDefaultArgs
  BY <1>2, OutlineQuiet DEF ValidateBaseImagesWithDefaultArgs
<1>3. CASE MetaArgsFail \/ FromFails \/ InitStagePanics \/ DispatchArgFails
  BY <1>3, OutlineQuiet DEF MetaArgsFail, FromFails, InitStagePanics, DispatchArgFails, Stop, convert
<1>4. CASE SkipStage
  BY <1>4, OutlineQuiet DEF SkipStage, convert
<1>5. CASE InitStage
  BY <1>5, OutlineQuiet DEF InitStage
<1> QED BY <1>1, <1>2, <1>3, <1>4, <1>5, MetaArgsOutlines, FromOutlines, DispatchArgOutlines, EndStageOutlines,
           MarkAllUsedOutlines, ReturnOutlines, ListArgsOutlines DEF Next

\* The outline has all that the target and its bases use, and its search goes on for
\* ever only if a default depends on itself (outline.go).
THEOREM OutlineIsWholeHolds == Spec => []OutlineIsWhole
<1>1. Spec => []OutlineInv
  BY ArgsInvariant, OutlineInit, OutlineStep, PTL DEF Spec
<1>2. OutlineInv => OutlineIsWhole
  BY DEF OutlineInv
<1> QED BY <1>1, <1>2, PTL
=============================================================================
