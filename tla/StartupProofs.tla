---------------------------- MODULE StartupProofs ----------------------------
(***************************************************************************)
(* Proof that the service starts as it was asked to, whatever the command  *)
(* line, the environment, the implementations that another thread plugs in *)
(* and the changes of the configuration in Consul.                         *)
(***************************************************************************)
EXTENDS Startup, TLAPS, SequenceTheorems, WellFoundedInduction

----------------------------------------------------------------------------
(* The inductive invariant                                                 *)

Stage ==
  {"port", "args", "url", "lookup", "parse", "ping", "config", "load", "start", "upload",
   "services", "running", "stopping", "failed", "freed", "exit", "no port", "crash"}
Rest == FromFile \cup {"service", "stopconfig", "profilesdir"}
Block == Rest \cup Registry \cup {"name", "table"}
Setter == {"main", "poll"}
Key == Seq(Text)
NoConfig == [key |-> NULL, file |-> NULL, upload |-> NULL]

TypeInv ==
  /\ asked \in CommandLine /\ env \in Environment
  /\ reached \in Stage /\ n \in Nat \ {0}
  /\ opt \in [registry : Text \cup {NULL}, name : Text, profile : Text, confdir : Text]
  /\ regmap \in Regmaps \cup {NULL} /\ first = regmap
  /\ impl \in [scheme : Text, impl : Impl] \cup {NULL}
  /\ reg \in [impl : Impl, location : Text \cup Address] \cup {NULL}
  /\ held \subseteq Block
  /\ used \in [key : Key \cup {NULL}, file : Key \cup {NULL}, upload : Key \cup {NULL}]
  /\ consul \in [keys : SUBSET Key, index : Nat, level : Level \cup {"TRACE", WrongLevel, NULL}]
  /\ watch \in [pc : {"none", "ask", "wait", "done"}, url : Nat \cup {NULL}, header : Nat \cup {NULL}]
  /\ level \in [config : Level \cup {"TRACE"}, logger : Level \cup {"TRACE", "INFO"}]
  /\ setting \in [Setter -> Level \cup {NULL}]
  /\ other \in {"idle", "add", "done"} /\ finis \in Nat
  /\ raced \in BOOLEAN /\ missed \in BOOLEAN

(* What main holds in each of its stages.                                  *)
HeldInv ==
  /\ reached \in {"port", "args", "exit", "no port", "freed"} => held = {}
  /\ reached = "url" => held \subseteq {"service"}
  /\ reached \in {"lookup", "parse"} => held \subseteq {"service", "name"}
  /\ reached = "ping" => held \subseteq {"service"} \cup Registry
  /\ reached \in {"config", "load"} => held \subseteq {"service", "stopconfig"} \cup Registry
  /\ reached \in {"start", "upload", "services"} => held \subseteq Rest \cup Registry \cup {"table"}
  /\ reached \in {"running", "failed", "stopping"} => held \subseteq Rest

(* There is a registry if one was asked for, until the start has ended,    *)
(* and a watcher once it was asked for the configuration.                  *)
Pending == {"load", "start", "upload", "services", "running", "stopping", "failed"}

AskedForInv ==
  /\ reached \in {"port", "args"} => reg = NULL
  /\ reached \in {"url", "lookup", "parse", "ping", "config"} => opt.registry # NULL
  /\ reached \in {"ping", "config", "load", "start", "upload"} /\ opt.registry # NULL => reg # NULL
  /\ watch.pc # "none" /\ reached # "freed" => opt.registry # NULL /\ reached \in Pending
  /\ reached = "freed" => watch.pc = "done"
  /\ watch.pc = "none" => watch.url = NULL /\ watch.header = NULL

(* What the configuration was taken from.                                  *)
UsedInv ==
  /\ reached \in {"port", "args", "url", "lookup", "parse", "ping", "config", "load", "exit", "no port"}
       => used = NoConfig
  /\ used.key # NULL => used.key = KeyOf /\ used.file = NULL /\ KeyOf \in consul.keys
  /\ used.file # NULL => used.file = <<DirOf, opt.profile>>
  /\ used.upload # NULL => used.upload = KeyOf /\ KeyOf \in consul.keys
  /\ reached = "start" => used.key # NULL \/ used.file # NULL
  /\ reached \in {"services", "running"} /\ opt.registry # NULL => used.key # NULL \/ used.upload # NULL

(* The implementations are there when they are looked up, and the registry *)
(* has the first under its scheme.                                         *)
InMap(i) == regmap # NULL /\ Scheme \in DOMAIN regmap /\ regmap[Scheme] = i

Named ==
  /\ reg.impl # "consul" => opt.registry = Scheme \o <<"://">> \o reg.location
  /\ reg.impl = "consul" =>
       \E w \in DOMAIN Port :
         /\ opt.registry = Scheme \o <<"://">> \o reg.location.host \o <<":", w>>
         /\ reg.location.port = Port[w] % (UINT16_MAX + 1)

RegInv ==
  /\ other = "add" /\ watch.pc = "none" => regmap # NULL
  /\ reached \in {"lookup", "parse"} => Colon # 0 /\ (finis = 0 => regmap # NULL)
  /\ reached = "parse" => impl # NULL /\ (finis = 0 => InMap(impl.impl))
  /\ reg # NULL => Named /\ (finis = 0 => InMap(reg.impl))
  /\ reached = "crash" => finis > 0

(* While no two threads have set the level at a time, a thread that is     *)
(* about to set it is the only one and sets that of the configuration.     *)
Silent == \A t \in Setter : setting[t] = NULL

LevelInv ==
  ~raced =>
    /\ \A t \in Setter : setting[t] # NULL =>
         setting[t] = level.config /\ \A u \in Setter \ {t} : setting[u] = NULL
    /\ Silent => level.logger = level.config \/ level = [config |-> "TRACE", logger |-> "INFO"]

(* The index that the watcher asks with next, and what it has followed.    *)
Seen == IF watch.header = NULL THEN watch.url ELSE watch.header

WatchInv ==
  /\ watch.pc = "wait" => watch.header = NULL
  /\ watch.url # NULL => watch.url <= consul.index
  /\ watch.header # NULL => watch.header <= consul.index
  /\ (used.key # NULL \/ used.upload # NULL) /\ ~missed /\ Seen = consul.index /\ consul.level \in Level
       => level.config = consul.level

(* Where the arguments begin that each request is written as.              *)
Places(at) ==
  /\ at[0] = 0 /\ at[Len(asked)] = Len(argv)
  /\ \A k \in DOMAIN asked :
       /\ at[k] = at[k - 1] + Len(Written(asked[k]))
       /\ \A j \in DOMAIN Written(asked[k]) : argv[at[k - 1] + j] = Written(asked[k])[j]

At == CHOOSE at \in [0..Len(asked) -> 0..Len(argv)] : Places(at)

(* What the first k requests ask for.                                      *)
SaidBy(k, o) == {i \in 1..k : asked[i].option = o}
AskedBy(k, o) == IF SaidBy(k, o) = {} THEN Default[o] ELSE asked[Max(SaidBy(k, o))].value

ArgInv ==
  /\ reached = "port" => n = 1 /\ opt = Default
  /\ WellFormed =>
       /\ reached \in {"port", "args"} =>
            \E k \in 0..Len(asked) : n = At[k] + 1 /\ \A o \in Option : opt[o] = AskedBy(k, o)
       /\ reached = "exit" => Asked("name") = <<>>
       /\ reached \notin {"port", "no port", "args", "exit"} => \A o \in Option : opt[o] = Asked(o)

IInv == TypeInv /\ HeldInv /\ AskedForInv /\ UsedInv /\ RegInv /\ LevelInv /\ WatchInv /\ ArgInv

----------------------------------------------------------------------------
(* Sequences                                                               *)

LEMMA SplitAt ==
  ASSUME NEW S, NEW s \in Seq(S), NEW i \in 1..Len(s)
  PROVE  s = SubSeq(s, 1, i - 1) \o <<s[i]>> \o SubSeq(s, i + 1, Len(s))
<1> DEFINE r == SubSeq(s, 1, i - 1) \o <<s[i]>> \o SubSeq(s, i + 1, Len(s))
<1>1. /\ SubSeq(s, 1, i - 1) \in Seq(S) /\ Len(SubSeq(s, 1, i - 1)) = i - 1
      /\ \A j \in 1..(i - 1) : SubSeq(s, 1, i - 1)[j] = s[j]
  BY SubSeqProperties
<1>2. /\ SubSeq(s, i + 1, Len(s)) \in Seq(S) /\ Len(SubSeq(s, i + 1, Len(s))) = Len(s) - i
      /\ \A j \in 1..(Len(s) - i) : SubSeq(s, i + 1, Len(s))[j] = s[i + j]
  BY SubSeqProperties
<1>3. r \in Seq(S) /\ Len(r) = Len(s) /\ \A j \in 1..Len(s) : r[j] = s[j]
  <2> DEFINE a == SubSeq(s, 1, i - 1)  b == SubSeq(s, i + 1, Len(s))
             c == a \o <<s[i]>>
  <2>1. a \in Seq(S) /\ Len(a) = i - 1 /\ \A j \in 1..(i - 1) : a[j] = s[j]
    BY <1>1
  <2>2. b \in Seq(S) /\ Len(b) = Len(s) - i /\ \A j \in 1..(Len(s) - i) : b[j] = s[i + j]
    BY <1>2
  <2> HIDE DEF a, b
  <2>3. c \in Seq(S) /\ Len(c) = i /\ \A j \in 1..i : c[j] = s[j]
    BY <2>1
  <2> HIDE DEF c
  <2>4. /\ c \o b \in Seq(S) /\ Len(c \o b) = Len(s)
        /\ \A j \in 1..Len(s) : (c \o b)[j] = IF j <= i THEN c[j] ELSE b[j - i]
    <3>1. Len(c) + Len(b) = Len(s) /\ Len(s) \in Nat /\ i \in Nat
      BY <2>2, <2>3
    <3>2. /\ c \o b \in Seq(S) /\ Len(c \o b) = Len(c) + Len(b)
          /\ \A j \in 1..(Len(c) + Len(b)) : (c \o b)[j] = IF j <= Len(c) THEN c[j] ELSE b[j - Len(c)]
      BY <2>2, <2>3, ConcatProperties, Zenon
    <3>3. QED
      BY <2>3, <3>1, <3>2, Zenon
  <2>5. ASSUME NEW j \in 1..Len(s) PROVE (c \o b)[j] = s[j]
    <3>0. j <= i \/ j > i
      <4>1. i \in Int /\ j \in Int
        OBVIOUS
      <4> HIDE DEF c
      <4>2. QED
        BY <4>1
    <3>1. CASE j <= i
      BY <2>3, <2>4, <3>1
    <3>2. CASE j > i
      <4>1. j - i \in 1..(Len(s) - i) /\ i + (j - i) = j /\ ~(j <= i)
        BY <3>2, LenProperties
      <4>2. QED
        BY <2>2, <2>4, <3>2, <4>1
    <3>3. QED
      BY <3>0, <3>1, <3>2, Zenon
  <2>6. r = c \o b
    BY DEF c, a, b
  <2>7. QED
    BY <2>4, <2>5, <2>6
<1>4. QED
  BY <1>3, SeqEqual

LEMMA IndexOfWords ==
  ASSUME NEW text \in Text, NEW words
  PROVE  /\ IndexOf(text, words) \in 0..Len(text)
         /\ IndexOf(text, words) # 0 => text[IndexOf(text, words)] \in words
         /\ IndexOf(text, words) # 0 => \A j \in 1..(IndexOf(text, words) - 1) : text[j] \notin words
         /\ IndexOf(text, words) = 0 => \A i \in DOMAIN text : text[i] \notin words
<1> DEFINE First(i) == i \in DOMAIN text /\ text[i] \in words /\ \A j \in 1..(i - 1) : text[j] \notin words
<1>1. DOMAIN text = 1..Len(text) /\ Len(text) \in Nat
  BY DEF Text
<1>2. CASE \E i \in DOMAIN text : text[i] \in words
  <2> DEFINE T == {i \in DOMAIN text : text[i] \in words}
             Less == {p \in Nat \X Nat : p[1] < p[2]}
  <2>1. T # {} /\ T \subseteq Nat
    BY <1>1, <1>2
  <2>2. PICK i \in T : \A y \in T : ~(<<y, i>> \in Less)
    <3>1. IsWellFoundedOn(Less, Nat)
      BY NatLessThanWellFounded, Zenon DEF OpToRel
    <3> HIDE DEF T, Less
    <3>2. QED
      BY <2>1, <3>1, WFMin
  <2>3. First(i)
    <3>1. ASSUME NEW j \in 1..(i - 1), text[j] \in words PROVE FALSE
      <4>1. j \in T /\ j < i /\ j \in Nat /\ i \in Nat
        BY <1>1, <3>1
      <4>2. QED
        BY <2>2, <4>1
    <3>2. QED
      BY <2>2, <3>1
  <2>4. IndexOf(text, words) = CHOOSE k : First(k)
    BY <1>2, Zenon DEF IndexOf
  <2> HIDE DEF First
  <2>5. First(IndexOf(text, words))
    BY <2>3, <2>4, Zenon
  <2>6. QED
    BY <1>1, <2>5 DEF First
<1>3. CASE ~\E i \in DOMAIN text : text[i] \in words
  <2>1. IndexOf(text, words) = 0
    BY <1>3, Zenon DEF IndexOf
  <2>2. QED
    BY <1>1, <1>3, <2>1
<1>4. QED
  BY <1>2, <1>3

LEMMA Parts ==
  ASSUME NEW text \in Text, NEW i \in Nat
  PROVE  /\ i \in 1..Len(text) => SubSeq(text, 1, i - 1) \in Text
         /\ i \in 1..(Len(text) + 1) => From(text, i) \in Text
BY SubSeqProperties DEF Text, From

LEMMA NatSetInduction ==
  ASSUME NEW S, 0 \in S, \A m \in Nat : m \in S => m + 1 \in S
  PROVE  \A m \in Nat : m \in S
<1> DEFINE T == {m \in Nat : m \notin S}
           Less == {p \in Nat \X Nat : p[1] < p[2]}
<1>1. SUFFICES ASSUME T # {} PROVE FALSE
  OBVIOUS
<1>2. PICK x \in T : \A y \in T : ~(<<y, x>> \in Less)
  <2>1. IsWellFoundedOn(Less, Nat)
    BY NatLessThanWellFounded, Zenon DEF OpToRel
  <2>2. T \subseteq Nat
    OBVIOUS
  <2> HIDE DEF T, Less
  <2>3. QED
    BY <1>1, <2>1, <2>2, WFMin
<1>3. x \in Nat /\ x # 0 /\ x - 1 \in Nat /\ x - 1 < x
  BY <1>2
<1>4. x - 1 \in S
  BY <1>2, <1>3
<1>5. QED
  BY <1>2, <1>3, <1>4


(* Where the parts of a flattened sequence begin.                          *)
Laid(seqs, flat, at) ==
  /\ at[0] = 0 /\ at[Len(seqs)] = Len(flat)
  /\ \A k \in 1..Len(seqs) :
       /\ at[k] = at[k - 1] + Len(seqs[k])
       /\ \A j \in 1..Len(seqs[k]) : flat[at[k - 1] + j] = seqs[k][j]

LEMMA Flattened ==
  ASSUME NEW S, NEW seqs \in Seq(Seq(S))
  PROVE  /\ FlattenSeq(seqs) \in Seq(S)
         /\ \E at \in [0..Len(seqs) -> 0..Len(FlattenSeq(seqs))] : Laid(seqs, FlattenSeq(seqs), at)
<1> DEFINE N == Len(seqs)
           Step(n_, f) == [i \in 1..n_ |-> IF i = 1 THEN seqs[i] ELSE f[i - 1] \o seqs[i]]
           T == {n_ \in Nat : \E f : f = Step(n_, f)}
<1>1. N \in Nat /\ DOMAIN seqs = 1..N /\ \A i \in 1..N : seqs[i] \in Seq(S)
  OBVIOUS
<1>2. CASE N = 0
  <2>1. FlattenSeq(seqs) = seqs /\ seqs = <<>>
    BY <1>2 DEF FlattenSeq
  <2> DEFINE at == [k \in 0..0 |-> 0]
  <2>2. at \in [0..N -> 0..Len(seqs)] /\ at[0] = 0 /\ at[N] = 0 /\ 1..N = {}
    BY <1>2
  <2> HIDE DEF at, N
  <2>3. Laid(seqs, FlattenSeq(seqs), at)
    BY <2>1, <2>2 DEF Laid, N
  <2>4. QED
    BY <2>1, <2>2, <2>3 DEF N
<1>3. CASE N # 0
  <2>1. 0 \in T
    <3> DEFINE f == [i \in 1..0 |-> 0]
    <3>1. f = Step(0, f)
      OBVIOUS
    <3> HIDE DEF f, Step
    <3>2. QED
      BY <3>1
  <2>2. ASSUME NEW m \in Nat, m \in T PROVE m + 1 \in T
    <3>1. PICK f : f = Step(m, f)
      BY <2>2
    <3> DEFINE g == Step(m + 1, f)
    <3>2. ASSUME NEW i \in 1..m PROVE g[i] = f[i]
      <4>1. i \in 1..(m + 1)
        OBVIOUS
      <4>2. g[i] = Step(m, f)[i]
        BY <4>1
      <4> HIDE DEF g, Step
      <4>3. QED
        BY <3>1, <4>2
    <3>3. ASSUME NEW i \in 1..(m + 1) PROVE g[i] = Step(m + 1, g)[i]
      <4>1. CASE i = 1
        BY <4>1
      <4>2. CASE i # 1
        <5>1. i - 1 \in 1..m
          BY <4>2
        <5>2. g[i - 1] = f[i - 1]
          BY <3>2, <5>1
        <5>3. g[i] = f[i - 1] \o seqs[i]
          BY <4>2
        <5>4. Step(m + 1, g)[i] = g[i - 1] \o seqs[i]
          <6> HIDE DEF g
          <6>1. QED
            BY <4>2
        <5> HIDE DEF g, Step
        <5>5. QED
          BY <5>2, <5>3, <5>4
      <4>3. QED
        BY <4>1, <4>2
    <3>4. g = [i \in 1..(m + 1) |-> g[i]]
      OBVIOUS
    <3>5. Step(m + 1, g) = [i \in 1..(m + 1) |-> Step(m + 1, g)[i]]
      <4> HIDE DEF g
      <4>1. QED
        OBVIOUS
    <3>6. g = Step(m + 1, g)
      <4> HIDE DEF g, Step
      <4>1. QED
        BY <3>3, <3>4, <3>5
    <3> HIDE DEF g, Step
    <3>7. QED
      BY <3>6
  <2>3. N \in T
    <3> HIDE DEF T, N
    <3>1. QED
      BY <1>1, <2>1, <2>2, NatSetInduction
  <2> DEFINE h == CHOOSE f : f = Step(N, f)
  <2>4. h = Step(N, h)
    <3> HIDE DEF Step, N
    <3>1. QED
      BY <2>3
  <2>5. FlattenSeq(seqs) = h[N]
    BY <1>3 DEF FlattenSeq
  <2>6. ASSUME NEW i \in 1..N PROVE h[i] = IF i = 1 THEN seqs[i] ELSE h[i - 1] \o seqs[i]
    <3>1. h[i] = Step(N, h)[i]
      BY <2>4, Zenon
    <3> HIDE DEF h, N
    <3>2. QED
      BY <3>1
  <2> HIDE DEF h, T
  <2> DEFINE H(k) == IF k = 0 THEN <<>> ELSE h[k]
             at == [k \in 0..N |-> Len(H(k))]
             Good(m) == /\ H(m) \in Seq(S)
                        /\ \A k \in 1..m : at[k] \in 0..Len(H(m)) /\ at[k - 1] \in Nat
                             /\ at[k] = at[k - 1] + Len(seqs[k])
                             /\ \A j \in 1..Len(seqs[k]) : H(m)[at[k - 1] + j] = seqs[k][j]
             U == {m \in Nat : m <= N => Good(m)}
  <2>7. ASSUME NEW m \in Nat, m + 1 \in 1..N, H(m) \in Seq(S) PROVE H(m + 1) = H(m) \o seqs[m + 1]
    <3>1. CASE m = 0
      <4>1. H(m + 1) = seqs[1] /\ H(m) = <<>> /\ seqs[1] \in Seq(S)
        BY <2>6, <2>7, <1>1, <3>1
      <4> HIDE DEF H
      <4>2. QED
        BY <3>1, <4>1, ConcatEmptySeq
    <3>2. CASE m # 0
      <4>1. m + 1 # 0 /\ m + 1 # 1 /\ (m + 1) - 1 = m
        BY <3>2
      <4>2. h[m + 1] = h[m] \o seqs[m + 1]
        BY <2>6, <2>7, <4>1
      <4>3. QED
        BY <3>2, <4>1, <4>2
    <3>3. QED
      BY <3>1, <3>2
  <2>8. 0 \in U
    BY DEF U
  <2>9. ASSUME NEW m \in Nat, m \in U PROVE m + 1 \in U
    <3>1. SUFFICES ASSUME m + 1 <= N PROVE Good(m + 1)
      <4> HIDE DEF Good, N
      <4>1. QED
        BY <1>1
    <3>2. Good(m) /\ m + 1 \in 1..N /\ m \in 0..N
      <4> HIDE DEF Good, N
      <4>1. QED
        BY <1>1, <2>9, <3>1
    <3> DEFINE a == H(m)  b == seqs[m + 1]
    <3>3. a \in Seq(S) /\ b \in Seq(S) /\ H(m + 1) = a \o b
      BY <1>1, <2>7, <3>2
    <3>4. /\ a \o b \in Seq(S) /\ Len(a \o b) = Len(a) + Len(b)
          /\ \A i \in 1..(Len(a) + Len(b)) : (a \o b)[i] = IF i <= Len(a) THEN a[i] ELSE b[i - Len(a)]
      <4> HIDE DEF a, b
      <4>1. QED
        BY <3>3, ConcatProperties, Zenon
    <3>5. at[m] = Len(a) /\ at[m + 1] = Len(a) + Len(b) /\ Len(a) \in Nat /\ Len(b) \in Nat
      <4>1. at[m] = Len(H(m)) /\ at[m + 1] = Len(H(m + 1))
        BY <3>2
      <4> HIDE DEF H, at, b
      <4>2. QED
        BY <3>3, <3>4, <4>1, LenProperties
    <3>6. ASSUME NEW k \in 1..(m + 1)
          PROVE  /\ at[k] \in 0..Len(a \o b) /\ at[k - 1] \in Nat
                 /\ at[k] = at[k - 1] + Len(seqs[k])
                 /\ \A j \in 1..Len(seqs[k]) : (a \o b)[at[k - 1] + j] = seqs[k][j]
      <4>1. CASE k = m + 1
        <5>1. k - 1 = m
          BY <4>1
        <5> HIDE DEF H, at, a, b
        <5>2. \A j \in 1..Len(b) : (a \o b)[Len(a) + j] = b[j]
          BY <3>4, <3>5
        <5>3. /\ at[m + 1] \in 0..Len(a \o b) /\ at[m] \in Nat
              /\ at[m + 1] = at[m] + Len(seqs[m + 1])
              /\ \A j \in 1..Len(seqs[m + 1]) : (a \o b)[at[m] + j] = seqs[m + 1][j]
          BY <3>4, <3>5, <5>2 DEF b
        <5>4. QED
          BY <4>1, <5>1, <5>3
      <4>2. CASE k # m + 1
        <5>1. k \in 1..m /\ Len(seqs[k]) \in Nat
          BY <1>1, <3>2, <4>2
        <5>2. /\ at[k] \in 0..Len(a) /\ at[k - 1] \in Nat /\ at[k] = at[k - 1] + Len(seqs[k])
              /\ \A j \in 1..Len(seqs[k]) : a[at[k - 1] + j] = seqs[k][j]
          BY <3>2, <5>1
        <5> HIDE DEF H, at, a, b
        <5>3. ASSUME NEW j \in 1..Len(seqs[k]) PROVE (a \o b)[at[k - 1] + j] = seqs[k][j]
          <6>1. at[k - 1] + j \in 1..(Len(a) + Len(b)) /\ at[k - 1] + j <= Len(a)
            <7> DEFINE x == at[k - 1]  y == at[k]  l == Len(seqs[k])
            <7>1. x \in Nat /\ y \in 0..Len(a) /\ l \in Nat /\ y = x + l /\ j \in 1..l
              BY <5>1, <5>2
            <7> HIDE DEF x, y, l
            <7>2. x + j \in 1..(Len(a) + Len(b)) /\ x + j <= Len(a)
              BY <3>5, <7>1
            <7>3. QED
              BY <7>2 DEF x
          <6>2. QED
            BY <3>4, <5>2, <6>1
        <5>4. at[k] \in 0..Len(a \o b)
          BY <3>4, <3>5, <5>2
        <5>5. QED
          BY <5>2, <5>3, <5>4
      <4>3. QED
        BY <4>1, <4>2
    <3> HIDE DEF H, at, a, b
    <3>7. QED
      BY <3>3, <3>4, <3>6 DEF a
  <2>10. Good(N)
    <3> HIDE DEF Good, N
    <3>1. N \in U
      <4> HIDE DEF U
      <4>1. QED
        BY <1>1, <2>8, <2>9, NatSetInduction
    <3>2. QED
      BY <1>1, <3>1
  <2>11. H(N) = FlattenSeq(seqs) /\ N \in Nat \ {0}
    BY <1>1, <1>3, <2>5
  <2>12. at[0] = 0 /\ at[N] = Len(FlattenSeq(seqs))
    BY <2>11
  <2>13. ASSUME NEW k \in 0..N PROVE at[k] \in 0..Len(FlattenSeq(seqs))
    <3>1. CASE k = 0
      <4> HIDE DEF H, at
      <4>1. QED
        BY <2>10, <2>11, <2>12, <3>1, LenProperties
    <3>2. CASE k # 0
      <4>1. k \in 1..N
        BY <2>11, <3>2
      <4> HIDE DEF H, at
      <4>2. QED
        BY <2>10, <2>11, <4>1
    <3>3. QED
      BY <3>1, <3>2
  <2>14. at \in [0..N -> 0..Len(FlattenSeq(seqs))]
    <3>1. at = [k \in 0..N |-> at[k]]
      OBVIOUS
    <3> HIDE DEF at
    <3>2. QED
      BY <2>13, <3>1
  <2> HIDE DEF H, at
  <2>15. Laid(seqs, FlattenSeq(seqs), at)
    BY <2>10, <2>11, <2>12 DEF Laid
  <2>16. QED
    BY <2>10, <2>11, <2>14, <2>15
<1>4. QED
  BY <1>2, <1>3

----------------------------------------------------------------------------
(* The arguments                                                           *)

LEMMA NameType ==
  ASSUME NEW o \in Option, NEW name \in {Short[o], Long[o]}
  PROVE  name \in Text /\ Len(name) = 2 /\ name[1] # "=" /\ name[2] # "="
<1>1. PICK a \in {"-", "--"}, b \in {"r", "n", "p", "c", "registry", "name", "profile", "confdir"} :
        name = <<a, b>>
  <2>1. Short[o] \in {<<"-", "r">>, <<"-", "n">>, <<"-", "p">>, <<"-", "c">>}
    BY DEF Short, Option
  <2>2. Long[o] \in {<<"--", "registry">>, <<"--", "name">>, <<"--", "profile">>, <<"--", "confdir">>}
    BY DEF Long, Option
  <2>3. QED
    BY <2>1, <2>2
<1>2. a \in Word /\ b \in Word /\ a # "=" /\ b # "="
  BY DEF Word
<1>3. QED
  BY <1>1, <1>2 DEF Text

(* No name is that of two options, or asks for help.                       *)
LEMMA NamesDiffer ==
  ASSUME NEW o \in Option, NEW p \in Option
  PROVE  /\ Short[o] # Long[p] /\ (o # p => Short[o] # Short[p] /\ Long[o] # Long[p])
         /\ Short[o] \notin Help /\ Long[o] \notin Help
<1> USE DEF Short, Long, Help
<1>1. CASE o = "registry"
  BY <1>1 DEF Option
<1>2. CASE o = "name"
  BY <1>2 DEF Option
<1>3. CASE o = "profile"
  BY <1>3 DEF Option
<1>4. CASE o = "confdir"
  BY <1>4 DEF Option
<1>5. QED
  BY <1>1, <1>2, <1>3, <1>4 DEF Option

LEMMA AskedType ==
  ASSUME asked \in CommandLine
  PROVE  /\ Len(asked) \in Nat /\ DOMAIN asked = 1..Len(asked)
         /\ \A i \in 1..Len(asked) :
              /\ asked[i].form \in Form /\ asked[i].value \in Text
              /\ asked[i].form # "raw" => asked[i].option \in Option
BY StartupAssumptions

LEMMA WrittenType ==
  ASSUME asked \in CommandLine, NEW i \in 1..Len(asked)
  PROVE  Written(asked[i]) \in Seq(Text)
<1> DEFINE a == asked[i]
<1>1. a.form \in Form /\ a.value \in Text /\ (a.form # "raw" => a.option \in Option)
  BY AskedType
<1>2. \A o \in Option : Short[o] \in Text /\ Long[o] \in Text
  BY NameType
<1>0. SUFFICES Written(a) \in Seq(Text)
  OBVIOUS
<1> HIDE DEF a
<1>3. CASE a.form \in {"short", "long"}
  <2>1. Written(a) \in {<<Short[a.option], a.value>>, <<Long[a.option], a.value>>} /\ a.option \in Option
    BY <1>1, <1>3 DEF Written
  <2>2. \A x \in Text : <<x, a.value>> \in Seq(Text)
    BY <1>1
  <2>3. QED
    BY <1>2, <2>1, <2>2
<1>4. CASE a.form \in {"short=", "long="}
  <2>1. <<"=">> \in Text
    BY DEF Text, Word
  <2>2. \A o \in Option : Short[o] \o <<"=">> \o a.value \in Text /\ Long[o] \o <<"=">> \o a.value \in Text
    BY <1>1, <1>2, <2>1, ConcatProperties DEF Text
  <2>3. /\ Written(a) \in {<<Short[a.option] \o <<"=">> \o a.value>>, <<Long[a.option] \o <<"=">> \o a.value>>}
        /\ a.option \in Option
    BY <1>1, <1>4 DEF Written
  <2>4. \A x \in Text : <<x>> \in Seq(Text)
    OBVIOUS
  <2>5. QED
    BY <2>2, <2>3, <2>4
<1>5. CASE a.form = "raw"
  <2>1. Written(a) = <<a.value>>
    BY <1>5 DEF Written
  <2>2. QED
    BY <1>1, <2>1
<1>6. a.form \in {"short", "long"} \/ a.form \in {"short=", "long="} \/ a.form = "raw"
  BY <1>1 DEF Form
<1>7. QED
  BY <1>3, <1>4, <1>5, <1>6

LEMMA ArgvPlaces ==
  ASSUME asked \in CommandLine
  PROVE  /\ argv \in Seq(Text)
         /\ At \in [0..Len(asked) -> 0..Len(argv)] /\ Places(At)
<1> DEFINE ws == [i \in DOMAIN asked |-> Written(asked[i])]
<1>1. ws \in Seq(Seq(Text)) /\ Len(ws) = Len(asked) /\ DOMAIN asked = 1..Len(asked)
      /\ \A i \in 1..Len(asked) : ws[i] = Written(asked[i])
  BY AskedType, WrittenType
<1>2. argv = FlattenSeq(ws)
  BY DEF argv
<1> HIDE DEF ws
<1>3. argv \in Seq(Text) /\ \E at \in [0..Len(ws) -> 0..Len(argv)] : Laid(ws, argv, at)
  BY <1>1, <1>2, Flattened
<1>4. PICK at \in [0..Len(asked) -> 0..Len(argv)] : Laid(ws, argv, at)
  BY <1>1, <1>3
<1>5. Places(at)
  <2>1. \A k \in 1..Len(asked) : DOMAIN Written(asked[k]) = 1..Len(Written(asked[k]))
    BY WrittenType
  <2>2. ASSUME NEW k \in DOMAIN asked
        PROVE  /\ at[k] = at[k - 1] + Len(Written(asked[k]))
               /\ \A j \in DOMAIN Written(asked[k]) : argv[at[k - 1] + j] = Written(asked[k])[j]
    <3>1. k \in 1..Len(ws) /\ ws[k] = Written(asked[k]) /\ DOMAIN ws[k] = 1..Len(ws[k])
      BY <1>1, <2>1
    <3>2. QED
      BY <1>4, <3>1 DEF Laid
  <2>3. at[0] = 0 /\ at[Len(asked)] = Len(argv)
    BY <1>1, <1>4 DEF Laid
  <2>4. QED
    BY <2>2, <2>3 DEF Places
<1>6. At \in [0..Len(asked) -> 0..Len(argv)] /\ Places(At)
  BY <1>5 DEF At
<1>7. QED
  BY <1>3, <1>6

LEMMA TestArgType ==
  ASSUME argv \in Seq(Text), NEW pos \in 1..Len(argv), NEW o \in Option
  PROVE  /\ testArg(pos, o).is \in {"other", "exit", "set"}
         /\ testArg(pos, o).is = "set" => testArg(pos, o).value \in Text /\ testArg(pos, o).next \in Nat \ {0}
<1> DEFINE arg == argv[pos]  eq == IndexOf(arg, {"="})
<1>1. arg \in Text
  OBVIOUS
<1>2. pos < Len(argv) => argv[pos + 1] \in Text /\ pos + 2 \in Nat \ {0}
  OBVIOUS
<1>3. eq \in 0..Len(arg) /\ (eq < Len(arg) => From(arg, eq + 1) \in Text)
  <2> HIDE DEF arg
  <2>1. eq \in 0..Len(arg)
    BY <1>1, IndexOfWords
  <2>2. eq < Len(arg) => eq + 1 \in 1..(Len(arg) + 1) /\ eq + 1 \in Nat
    BY <1>1, <2>1 DEF Text
  <2>3. QED
    BY <1>1, <2>1, <2>2, Parts
<1>4. CASE Separate(pos, o)
  <2>1. testArg(pos, o) = Separated(pos)
    BY <1>4, Zenon DEF testArg
  <2>2. QED
    BY <1>2, <2>1 DEF Separated, NoValue, SetTo
<1>5. CASE /\ ~Separate(pos, o) /\ eq # 0
           /\ \E name \in {Short[o], Long[o]} : IsPrefix(SubSeq(arg, 1, eq - 1), name)
  <2>1. testArg(pos, o) = IF eq < Len(arg) THEN SetTo(From(arg, eq + 1), pos + 1) ELSE NoValue
    BY <1>5, Zenon DEF testArg
  <2>2. QED
    BY <1>3, <2>1 DEF NoValue, SetTo
<1>6. CASE /\ ~Separate(pos, o)
           /\ ~(eq # 0 /\ \E name \in {Short[o], Long[o]} : IsPrefix(SubSeq(arg, 1, eq - 1), name))
  <2>1. testArg(pos, o) = NotThis
    BY <1>6, Zenon DEF testArg
  <2>2. QED
    BY <2>1 DEF NotThis
<1>7. QED
  BY <1>4, <1>5, <1>6, Zenon

(* An argument with "=" is taken apart where it was put together.          *)
LEMMA EqualsArg ==
  ASSUME NEW name \in Text, Len(name) = 2, name[1] # "=", name[2] # "=",
         NEW value \in Text, NEW arg, arg = name \o <<"=">> \o value
  PROVE  /\ arg \in Text /\ Len(arg) = 3 + Len(value)
         /\ IndexOf(arg, {"="}) = 3 /\ SubSeq(arg, 1, 2) = name /\ From(arg, 4) = value
<1> DEFINE b == name \o <<"=">>
<1>1. b \in Text /\ Len(b) = 3 /\ b[1] = name[1] /\ b[2] = name[2] /\ b[3] = "="
  <2>1. <<"=">> \in Text /\ Len(<<"=">>) = 1 /\ <<"=">>[1] = "="
    BY DEF Text, Word
  <2> DEFINE e == <<"=">>
  <2>2. e \in Text /\ Len(e) = 1 /\ e[1] = "="
    BY <2>1
  <2> HIDE DEF e
  <2>3. /\ name \o e \in Text /\ Len(name \o e) = 2 + 1
        /\ \A i \in 1..(2 + 1) : (name \o e)[i] = IF i <= 2 THEN name[i] ELSE e[i - 2]
    <3>1. name \in Seq(Word) /\ e \in Seq(Word)
      BY <2>2 DEF Text
    <3>2. /\ name \o e \in Seq(Word) /\ Len(name \o e) = Len(name) + Len(e)
          /\ \A i \in 1..(Len(name) + Len(e)) :
               (name \o e)[i] = IF i <= Len(name) THEN name[i] ELSE e[i - Len(name)]
      BY <3>1, ConcatProperties, Zenon
    <3>3. QED
      BY <2>2, <3>2 DEF Text
  <2>4. QED
    BY <2>2, <2>3 DEF e
<1> HIDE DEF b
<1>2. arg = b \o value
  BY DEF b
<1>3. /\ arg \in Text /\ Len(arg) = 3 + Len(value) /\ Len(value) \in Nat
      /\ \A i \in 1..(3 + Len(value)) : arg[i] = IF i <= 3 THEN b[i] ELSE value[i - 3]
  BY <1>1, <1>2, ConcatProperties, LenProperties DEF Text
<1>4. arg[1] = name[1] /\ arg[2] = name[2] /\ arg[3] = "="
  BY <1>1, <1>3
<1>5. IndexOf(arg, {"="}) = 3
  <2> DEFINE x == IndexOf(arg, {"="})
  <2>1. /\ x \in 0..Len(arg) /\ (x # 0 => arg[x] = "=")
        /\ x # 0 => \A j \in 1..(x - 1) : arg[j] # "="
        /\ x = 0 => \A i \in DOMAIN arg : arg[i] # "="
    <3>1. /\ x \in 0..Len(arg) /\ (x # 0 => arg[x] \in {"="})
          /\ x # 0 => \A j \in 1..(x - 1) : arg[j] \notin {"="}
          /\ x = 0 => \A i \in DOMAIN arg : arg[i] \notin {"="}
      BY <1>3, IndexOfWords, Zenon
    <3> HIDE DEF x
    <3>2. QED
      BY <3>1
  <2>2. x # 0
    <3>1. DOMAIN arg = 1..Len(arg) /\ 3 \in 1..Len(arg)
      BY <1>3 DEF Text
    <3> HIDE DEF x
    <3>2. QED
      BY <1>4, <2>1, <3>1
  <2> HIDE DEF x
  <2>3. x # 1 /\ x # 2
    BY <1>4, <2>1
  <2>4. ~(x > 3)
    BY <1>3, <1>4, <2>1
  <2>5. x = 3
    BY <1>3, <2>1, <2>2, <2>3, <2>4
  <2>6. QED
    BY <2>5 DEF x
<1>6. SubSeq(arg, 1, 2) = name
  <2> DEFINE t == SubSeq(arg, 1, 2)
  <2>1. \A i \in 1..2 : arg[i] \in Word
    BY <1>3 DEF Text
  <2>2. t \in Text /\ Len(t) = 2 /\ t[1] = arg[1] /\ t[2] = arg[2]
    BY <2>1, SubSeqProperties DEF Text
  <2> HIDE DEF t
  <2>3. t = name
    BY <1>4, <2>2, SeqEqual DEF Text
  <2>4. QED
    BY <2>3 DEF t
<1>7. From(arg, 4) = value
  <2> DEFINE m == Len(value)  t == SubSeq(arg, 4, 3 + m)
  <2>1. \A i \in 4..(3 + m) : arg[i] \in Word
    BY <1>3 DEF Text
  <2>2. t \in Text /\ Len(t) = m /\ \A i \in 1..m : t[i] = arg[4 + i - 1]
    <3>1. /\ t \in Seq(Word) /\ Len(t) = IF 4 <= 3 + m THEN 3 + m - 4 + 1 ELSE 0
          /\ \A i \in 1..(3 + m - 4 + 1) : t[i] = arg[4 + i - 1]
      BY <1>3, <2>1, SubSeqProperties
    <3> HIDE DEF t, m
    <3>2. m \in Nat /\ 3 + m - 4 + 1 = m /\ (4 <= 3 + m <=> m # 0)
      BY <1>3 DEF m
    <3>3. QED
      BY <3>1, <3>2 DEF Text
  <2>3. \A i \in 1..m : arg[4 + i - 1] = value[i]
    BY <1>3
  <2> HIDE DEF t
  <2>4. t = value
    <3>1. Len(t) = Len(value) /\ \A i \in 1..Len(t) : t[i] = value[i]
      BY <2>2, <2>3
    <3>2. QED
      BY <2>2, <3>1, SeqEqual, Zenon DEF Text
  <2>5. QED
    BY <1>3, <2>4 DEF From, t
<1>8. QED
  BY <1>3, <1>5, <1>6, <1>7

LEMMA PrefixOfName ==
  ASSUME NEW s \in Text, Len(s) = 2, NEW t \in Text, Len(t) = 2
  PROVE  IsPrefix(s, t) <=> s = t
<1>1. SubSeq(s, 1, 2) = s /\ SubSeq(t, 1, 2) = t
  BY DEF Text
<1>2. QED
  BY <1>1 DEF IsPrefix

LEMMA Recognised ==
  ASSUME asked \in CommandLine, WellFormed, NEW k \in 1..Len(asked), NEW pos, pos = At[k - 1] + 1
  PROVE  /\ asked[k].option \in Option /\ asked[k].value \in Text
         /\ pos \in 1..Len(argv) /\ argv[pos] \notin Help /\ At[k] + 1 \in Nat
         /\ testArg(pos, asked[k].option) = SetTo(asked[k].value, At[k] + 1)
         /\ \A p \in Option \ {asked[k].option} : testArg(pos, p) = NotThis
<1> DEFINE a == asked[k]  o == asked[k].option  value == asked[k].value  W == Written(asked[k])
           form == asked[k].form  x == At[k - 1]  arg == argv[pos]
           name == IF form \in {"short", "short="} THEN Short[o] ELSE Long[o]
<1>1. /\ form \in {"short", "long", "short=", "long="} /\ o \in Option /\ value \in Text
      /\ form \in {"short=", "long="} => value # <<>>
  BY AskedType DEF WellFormed, Form
<1>2. /\ x \in Nat /\ x <= Len(argv) /\ At[k] = x + Len(W) /\ At[k] <= Len(argv) /\ Len(argv) \in Nat
      /\ \A j \in DOMAIN W : argv[x + j] = W[j]
  <2>1. k - 1 \in 0..Len(asked) /\ k \in 0..Len(asked) /\ k \in DOMAIN asked
    BY AskedType
  <2>2. QED
    BY <2>1, ArgvPlaces DEF Places
<1>3. W = IF form \in {"short", "long"} THEN <<name, value>> ELSE <<name \o <<"=">> \o value>>
  BY <1>1 DEF Written
<1>4. name \in {Short[o], Long[o]}
  OBVIOUS
<1>5. name \in Text /\ Len(name) = 2 /\ name[1] # "=" /\ name[2] # "=" /\ name \notin Help
  BY <1>1, <1>4, NameType, NamesDiffer
<1>6. \A p \in Option \ {o} : name # Short[p] /\ name # Long[p]
  BY <1>1, <1>4, NamesDiffer
<1> HIDE DEF name, x, W, form, o, value
<1>7. CASE form \in {"short", "long"}
  <2>1. Len(W) = 2 /\ W[1] = name /\ W[2] = value /\ DOMAIN W = 1..2
    BY <1>3, <1>7
  <2>2. /\ argv[x + 1] = name /\ argv[x + 2] = value /\ At[k] = x + 2
        /\ pos = x + 1 /\ pos < Len(argv) /\ pos \in 1..Len(argv) /\ pos + 1 = x + 2 /\ pos + 2 = At[k] + 1
    <3>1. pos = x + 1
      BY DEF x
    <3>2. argv[x + 1] = name /\ argv[x + 2] = value
      BY <1>2, <2>1
    <3>3. At[k] = x + 2
      BY <1>2, <2>1
    <3>4. QED
      BY <1>2, <3>1, <3>2, <3>3
  <2>3. testArg(pos, o) = SetTo(value, At[k] + 1)
    <3>1. Separate(pos, o)
      BY <1>4, <2>2 DEF Separate
    <3>2. testArg(pos, o) = Separated(pos)
      BY <3>1, Zenon DEF testArg
    <3>3. QED
      BY <2>2, <3>2 DEF Separated
  <2>4. ASSUME NEW p \in Option \ {o} PROVE testArg(pos, p) = NotThis
    <3>1. ~Separate(pos, p)
      BY <1>6, <2>2 DEF Separate
    <3>2. IndexOf(arg, {"="}) = 0
      <4> DEFINE y == IndexOf(name, {"="})
      <4>1. y \in 0..2 /\ (y # 0 => name[y] = "=")
        BY <1>5, IndexOfWords
      <4> HIDE DEF y
      <4>2. y = 0
        BY <1>5, <4>1
      <4>3. QED
        BY <2>2, <4>2 DEF y
    <3>3. QED
      BY <3>1, <3>2, Zenon DEF testArg
  <2>5. At[k] + 1 \in Nat /\ argv[pos] \notin Help
    BY <1>2, <1>5, <2>2
  <2>6. QED
    BY <1>1, <2>2, <2>3, <2>4, <2>5, Zenon DEF o, value
<1>8. CASE form \in {"short=", "long="}
  <2>1. Len(W) = 1 /\ W[1] = name \o <<"=">> \o value /\ DOMAIN W = 1..1
    BY <1>3, <1>8
  <2>2. /\ arg = name \o <<"=">> \o value /\ At[k] = x + 1 /\ pos = x + 1
        /\ pos \in 1..Len(argv) /\ pos + 1 = At[k] + 1
    <3>1. pos = x + 1
      BY DEF x
    <3>2. argv[x + 1] = name \o <<"=">> \o value
      BY <1>2, <2>1, SMTT(40)
    <3>3. At[k] = x + 1
      BY <1>2, <2>1
    <3>4. QED
      BY <1>2, <3>1, <3>2, <3>3, SMTT(40)
  <2>3. /\ arg \in Text /\ Len(arg) = 3 + Len(value)
        /\ IndexOf(arg, {"="}) = 3 /\ SubSeq(arg, 1, 2) = name /\ From(arg, 4) = value
    BY <1>1, <1>5, <2>2, EqualsArg
  <2>4. Len(value) \in Nat \ {0}
    BY <1>1, <1>8, EmptySeq DEF Text
  <2> HIDE DEF arg
  <2>5. \A p \in Option : arg # Short[p] /\ arg # Long[p]
    <3>1. Len(arg) # 2
      BY <2>3, <2>4
    <3>2. QED
      BY <3>1, NameType
  <2>6. arg \notin Help
    <3>1. \A h \in Help : Len(h) = 2
      BY DEF Help
    <3>2. Len(arg) # 2
      BY <2>3, <2>4
    <3>3. QED
      BY <3>1, <3>2
  <2>7. \A p \in Option : ~Separate(pos, p)
    BY <2>5 DEF Separate, arg
  <2>8. \A p \in Option : \A m \in {Short[p], Long[p]} : IsPrefix(name, m) <=> name = m
    BY <1>5, NameType, PrefixOfName
  <2> DEFINE before == SubSeq(arg, 1, IndexOf(arg, {"="}) - 1)
  <2>12. before = name
    <3>1. IndexOf(arg, {"="}) - 1 = 2
      BY <2>3
    <3>2. QED
      BY <2>3, <3>1, Zenon
  <2> HIDE DEF before
  <2>9. testArg(pos, o) = SetTo(value, At[k] + 1)
    <3>1. IsPrefix(before, name)
      BY <1>1, <1>4, <2>8, <2>12
    <3>2. testArg(pos, o) = IF IndexOf(arg, {"="}) < Len(arg)
                            THEN SetTo(From(arg, IndexOf(arg, {"="}) + 1), pos + 1) ELSE NoValue
      <4>1. ~Separate(pos, o) /\ IndexOf(arg, {"="}) # 0
            /\ \E m \in {Short[o], Long[o]} : IsPrefix(SubSeq(arg, 1, IndexOf(arg, {"="}) - 1), m)
        BY <1>1, <1>4, <2>3, <2>7, <3>1 DEF before
      <4>2. QED
        BY <4>1, Zenon DEF testArg, arg
    <3>3. QED
      BY <2>2, <2>3, <2>4, <3>2
  <2>10. ASSUME NEW p \in Option \ {o} PROVE testArg(pos, p) = NotThis
    <3>1. ~\E m \in {Short[p], Long[p]} : IsPrefix(SubSeq(arg, 1, IndexOf(arg, {"="}) - 1), m)
      BY <1>6, <2>8, <2>12 DEF before
    <3>2. QED
      BY <2>7, <3>1, Zenon DEF testArg, arg
  <2>11. QED
    BY <1>1, <1>2, <2>2, <2>6, <2>9, <2>10 DEF o, value, arg
<1>9. QED
  BY <1>1, <1>7, <1>8

LEMMA LeastOf ==
  ASSUME NEW S \in SUBSET (1..4), S # {}
  PROVE  Min(S) \in S
<1> DEFINE P(x) == x \in S /\ \A y \in S : x <= y
<1>1. \E x : P(x)
  <2>1. CASE 1 \in S
    BY <2>1
  <2>2. CASE 1 \notin S /\ 2 \in S
    BY <2>2
  <2>3. CASE 1 \notin S /\ 2 \notin S /\ 3 \in S
    BY <2>3
  <2>4. CASE 1 \notin S /\ 2 \notin S /\ 3 \notin S
    <3>1. \A y \in S : y = 4
      <4>1. \A y \in 1..4 : y = 1 \/ y = 2 \/ y = 3 \/ y = 4
        OBVIOUS
      <4>2. QED
        BY <2>4, <4>1
    <3>2. 4 \in S
      BY <3>1
    <3>3. QED
      BY <3>1, <3>2
  <2>5. QED
    BY <2>1, <2>2, <2>3, <2>4
<1>2. Min(S) = CHOOSE x : P(x)
  BY Zenon DEF Min
<1> HIDE DEF P
<1>3. P(Min(S))
  BY <1>1, <1>2, Zenon
<1>4. QED
  BY <1>3 DEF P

(* The options that take the argument at pos, and the one that main finds. *)
Takers(pos) == {i \in DOMAIN InTheOrder : testArg(pos, InTheOrder[i]).is # "other"}

LEMMA OrderOfOptions ==
  /\ DOMAIN InTheOrder = 1..4 /\ \A i \in 1..4 : InTheOrder[i] \in Option
  /\ \A o \in Option : \E i \in 1..4 : InTheOrder[i] = o
  /\ \A i, j \in 1..4 : InTheOrder[i] = InTheOrder[j] => i = j
<1>1. /\ DOMAIN InTheOrder = 1..4 /\ InTheOrder[1] = "registry" /\ InTheOrder[2] = "name"
      /\ InTheOrder[3] = "profile" /\ InTheOrder[4] = "confdir"
  BY DEF InTheOrder
<1>2. \A i \in 1..4 : i = 1 \/ i = 2 \/ i = 3 \/ i = 4
  OBVIOUS
<1>3. \A i \in 1..4 : InTheOrder[i] \in Option
  BY <1>1, <1>2 DEF Option
<1>4. \A o \in Option : \E i \in 1..4 : InTheOrder[i] = o
  <2>1. 1 \in 1..4 /\ 2 \in 1..4 /\ 3 \in 1..4 /\ 4 \in 1..4
    OBVIOUS
  <2>2. QED
    BY <1>1, <2>1 DEF Option
<1>5. \A i, j \in 1..4 : InTheOrder[i] = InTheOrder[j] => i = j
  BY <1>1, <1>2
<1>6. QED
  BY <1>1, <1>3, <1>4, <1>5

LEMMA TheTaker ==
  ASSUME NEW pos, Takers(pos) # {}
  PROVE  Min(Takers(pos)) \in Takers(pos) /\ InTheOrder[Min(Takers(pos))] \in Option
BY OrderOfOptions, LeastOf DEF Takers

LEMMA TheOnlyTaker ==
  ASSUME NEW pos, NEW o \in Option, testArg(pos, o).is # "other",
         \A p \in Option \ {o} : testArg(pos, p).is = "other"
  PROVE  Takers(pos) # {} /\ InTheOrder[Min(Takers(pos))] = o
<1>1. PICK i \in 1..4 : InTheOrder[i] = o
  BY OrderOfOptions
<1>2. i \in Takers(pos)
  BY <1>1, OrderOfOptions DEF Takers
<1>3. \A j \in Takers(pos) : InTheOrder[j] = o
  BY OrderOfOptions DEF Takers
<1>4. QED
  BY <1>2, <1>3, TheTaker

(* ParseArg with its local definitions by name.                            *)
LEMMA ParseArgSteps ==
  ASSUME ParseArg
  PROVE  LET option == InTheOrder[Min(Takers(n))] IN
         /\ reached = "args" /\ n <= Len(argv)
         /\ UNCHANGED <<asked, env, registries, impl, reg, held, used, levels, watching>>
         /\ \/ /\ argv[n] \in Help \/ Takers(n) = {} \/ testArg(n, option).is = "exit"
               /\ reached' = "exit" /\ UNCHANGED <<n, opt>>
            \/ /\ argv[n] \notin Help /\ Takers(n) # {} /\ testArg(n, option).is # "exit"
               /\ n' = testArg(n, option).next /\ reached' = reached
               /\ opt' = [opt EXCEPT ![option] = testArg(n, option).value]
BY Zenon DEF ParseArg, Takers

LEMMA ParseArgType ==
  ASSUME TypeInv, ParseArg
  PROVE  /\ n' \in Nat \ {0}
         /\ opt' \in [registry : Text \cup {NULL}, name : Text, profile : Text, confdir : Text]
<1> DEFINE option == InTheOrder[Min(Takers(n))]
<1>1. argv \in Seq(Text) /\ n \in Nat \ {0}
      /\ opt \in [registry : Text \cup {NULL}, name : Text, profile : Text, confdir : Text]
  BY ArgvPlaces DEF TypeInv
<1> HIDE DEF option
<1>2. CASE UNCHANGED <<n, opt>>
  BY <1>1, <1>2
<1>3. CASE /\ Takers(n) # {} /\ testArg(n, option).is # "exit" /\ n <= Len(argv)
           /\ n' = testArg(n, option).next
           /\ opt' = [opt EXCEPT ![option] = testArg(n, option).value]
  <2>1. option \in Option /\ testArg(n, option).is # "other"
    BY <1>3, TheTaker, OrderOfOptions, ZenonT(60) DEF option, Takers
  <2>2. n \in 1..Len(argv)
    BY <1>1, <1>3
  <2>3. testArg(n, option).is \in {"exit", "other", "set"}
        /\ (testArg(n, option).is = "set" => testArg(n, option).value \in Text /\ testArg(n, option).next \in Nat \ {0})
    BY <1>1, <2>1, <2>2, TestArgType
  <2>4. testArg(n, option).value \in Text /\ testArg(n, option).next \in Nat \ {0}
    BY <1>3, <2>1, <2>3
  <2>5. QED
    BY <1>1, <1>3, <2>1, <2>4 DEF Option
<1>4. QED
  BY <1>2, <1>3, ParseArgSteps DEF option

LEMMA GreatestOf ==
  ASSUME NEW m \in Nat, NEW S \in SUBSET (1..m), m \in S
  PROVE  Max(S) = m
<1> DEFINE P(x) == x \in S /\ \A y \in S : x >= y
<1>1. P(m)
  OBVIOUS
<1>2. \A x : P(x) => x = m
  <2>1. ASSUME NEW x, P(x) PROVE x = m
    <3>1. x \in 1..m /\ x >= m
      BY <2>1
    <3>2. QED
      BY <3>1
  <2>2. QED
    BY <2>1
<1>3. Max(S) = CHOOSE x : P(x)
  BY Zenon DEF Max
<1> HIDE DEF P
<1>4. QED
  BY <1>1, <1>2, <1>3, Zenon

(* One request more.                                                       *)
LEMMA AskedMore ==
  ASSUME asked \in CommandLine, NEW k \in Nat, k + 1 \in 1..Len(asked), NEW o \in Option
  PROVE  AskedBy(k + 1, o) = IF o = asked[k + 1].option THEN asked[k + 1].value ELSE AskedBy(k, o)
<1>1. CASE o = asked[k + 1].option
  <2>1. k + 1 \in SaidBy(k + 1, o) /\ SaidBy(k + 1, o) \in SUBSET (1..(k + 1)) /\ k + 1 \in Nat
    BY <1>1 DEF SaidBy
  <2>2. Max(SaidBy(k + 1, o)) = k + 1
    BY <2>1, GreatestOf
  <2>3. QED
    BY <1>1, <2>1, <2>2 DEF AskedBy
<1>2. CASE o # asked[k + 1].option
  <2>1. SaidBy(k + 1, o) = SaidBy(k, o)
    <3>1. \A i \in 1..(k + 1) : i = k + 1 \/ i \in 1..k
      OBVIOUS
    <3>2. 1..k \subseteq 1..(k + 1)
      OBVIOUS
    <3>3. QED
      BY <1>2, <3>1, <3>2 DEF SaidBy
  <2>2. QED
    BY <1>2, <2>1 DEF AskedBy
<1>3. QED
  BY <1>1, <1>2

LEMMA AskedAll ==
  ASSUME asked \in CommandLine
  PROVE  \A o : AskedBy(Len(asked), o) = Asked(o)
BY AskedType DEF AskedBy, Asked, SaidBy

LEMMA AskedNone == \A o : AskedBy(0, o) = Default[o]
<1>1. \A o : SaidBy(0, o) = {}
  BY DEF SaidBy
<1>2. QED
  BY <1>1 DEF AskedBy

(* The arguments, the settings and where main is.                          *)
Early == {"port", "no port", "args", "exit"}

LEMMA ArgKept ==
  ASSUME ArgInv, UNCHANGED args, reached' = reached \/ (reached \notin Early /\ reached' \notin Early)
  PROVE  ArgInv'
<1>1. UNCHANGED <<asked, env, n, opt>>
  BY DEF args
<1>2. UNCHANGED <<argv, Default, WellFormed>>
  BY <1>1 DEF argv, Default, WellFormed
<1>3. UNCHANGED At
  BY <1>1, <1>2 DEF At, Places
<1>4. \A o : (Asked(o))' = Asked(o)
  BY <1>1, <1>2 DEF Asked
<1>5. \A k, o : (AskedBy(k, o))' = AskedBy(k, o)
  BY <1>1, <1>2 DEF AskedBy, SaidBy
<1>6. CASE reached' = reached
  BY <1>1, <1>2, <1>3, <1>4, <1>5, <1>6 DEF ArgInv
<1>7. CASE reached \notin Early /\ reached' \notin Early
  BY <1>1, <1>2, <1>4, <1>7 DEF ArgInv, Early
<1>8. QED
  BY <1>6, <1>7

LEMMA ArgOpened ==
  ASSUME TypeInv, ArgInv, user_serial_init
  PROVE  ArgInv'
<1>1. UNCHANGED <<asked, env, n, opt>> /\ reached = "port" /\ reached' \in {"args", "no port"}
  BY DEF args, user_serial_init
<1>2. UNCHANGED <<argv, WellFormed>>
  BY <1>1 DEF argv, WellFormed
<1>3. UNCHANGED At
  <2>1. UNCHANGED <<asked, argv>>
    BY <1>1, <1>2
  <2>2. QED
    BY <2>1 DEF At, Places
<1>4. \A k, o : (AskedBy(k, o))' = AskedBy(k, o)
  BY <1>1 DEF AskedBy, SaidBy, Default
<1>5. QED
  BY <1>1, <1>2, <1>3, <1>4 DEF ArgInv

LEMMA ArgParsed ==
  ASSUME TypeInv, ArgInv, ParseArg
  PROVE  ArgInv'
<1> DEFINE option == InTheOrder[Min(Takers(n))]
<1>1. /\ UNCHANGED <<asked, env>> /\ reached = "args" /\ n <= Len(argv)
      /\ \/ /\ argv[n] \in Help \/ Takers(n) = {} \/ testArg(n, option).is = "exit"
            /\ reached' = "exit" /\ UNCHANGED <<n, opt>>
         \/ /\ n' = testArg(n, option).next /\ reached' = reached
            /\ opt' = [opt EXCEPT ![option] = testArg(n, option).value]
  BY ParseArgSteps
<1>2. UNCHANGED <<argv, WellFormed>>
  BY <1>1 DEF argv, WellFormed
<1>3. UNCHANGED At
  <2>1. UNCHANGED <<asked, argv>>
    BY <1>1, <1>2
  <2>2. QED
    BY <2>1 DEF At, Places
<1>4. \A k, o : (AskedBy(k, o))' = AskedBy(k, o)
  BY <1>1 DEF AskedBy, SaidBy, Default
<1>5. SUFFICES ASSUME WellFormed
               PROVE  /\ reached' = "args"
                      /\ \E k \in 0..Len(asked) : n' = At[k] + 1 /\ \A o \in Option : opt'[o] = AskedBy(k, o)
  BY <1>1, <1>2, <1>3, <1>4 DEF ArgInv
<1>6. PICK k \in 0..Len(asked) : n = At[k] + 1 /\ \A o \in Option : opt[o] = AskedBy(k, o)
  BY <1>1, <1>5 DEF ArgInv
<1>7. asked \in CommandLine /\ Len(asked) \in Nat
      /\ opt \in [registry : Text \cup {NULL}, name : Text, profile : Text, confdir : Text]
  BY AskedType DEF TypeInv
<1>8. k + 1 \in 1..Len(asked) /\ (k + 1) - 1 = k
  <2>1. At[Len(asked)] = Len(argv) /\ Len(argv) \in Nat
    BY <1>7, ArgvPlaces DEF Places
  <2>2. k # Len(asked)
    BY <1>1, <1>6, <2>1
  <2>3. QED
    BY <1>7, <2>2
<1> DEFINE o1 == asked[k + 1].option  value == asked[k + 1].value
<1>9. /\ o1 \in Option /\ value \in Text /\ argv[n] \notin Help
      /\ testArg(n, o1) = SetTo(value, At[k + 1] + 1)
      /\ \A p \in Option \ {o1} : testArg(n, p) = NotThis
  BY <1>5, <1>6, <1>7, <1>8, Recognised
<1>10. Takers(n) # {} /\ option = o1
  <2>1. testArg(n, o1).is # "other" /\ \A p \in Option \ {o1} : testArg(n, p).is = "other"
    BY <1>9 DEF SetTo, NotThis
  <2> HIDE DEF o1
  <2>2. QED
    BY <1>9, <2>1, TheOnlyTaker
<1>11. testArg(n, o1).is = "set" /\ testArg(n, o1).value = value /\ testArg(n, o1).next = At[k + 1] + 1
  BY <1>9 DEF SetTo
<1>12. reached' = "args" /\ n' = At[k + 1] + 1 /\ opt' = [opt EXCEPT ![o1] = value]
  <2> HIDE DEF o1, value, option
  <2>1. QED
    BY <1>1, <1>9, <1>10, <1>11
<1>13. \A o \in Option : opt'[o] = AskedBy(k + 1, o)
  <2>1. ASSUME NEW o \in Option PROVE AskedBy(k + 1, o) = IF o = o1 THEN value ELSE AskedBy(k, o)
    BY <1>7, <1>8, AskedMore
  <2>2. \A o \in Option : opt'[o] = IF o = o1 THEN value ELSE opt[o]
    <3> HIDE DEF o1, value
    <3>1. QED
      BY <1>7, <1>12 DEF Option
  <2> HIDE DEF o1, value
  <2>3. QED
    BY <1>6, <2>1, <2>2
<1>14. QED
  BY <1>8, <1>12, <1>13

LEMMA ArgServed ==
  ASSUME TypeInv, ArgInv, ServiceNew
  PROVE  ArgInv'
<1>1. /\ UNCHANGED <<asked, env, n, opt>> /\ reached = "args" /\ n > Len(argv)
      /\ (opt.name = <<>> /\ reached' = "exit") \/ reached' \in {"load", "url"}
  BY DEF ServiceNew, args
<1>2. UNCHANGED WellFormed /\ \A o : (Asked(o))' = Asked(o)
  BY <1>1 DEF WellFormed, Asked, Default
<1>3. SUFFICES ASSUME WellFormed PROVE \A o \in Option : opt[o] = Asked(o)
  <2>1. opt.name = opt["name"] /\ "name" \in Option
    BY DEF Option
  <2>2. QED
    BY <1>1, <1>2, <1>3, <2>1 DEF ArgInv
<1>4. PICK k \in 0..Len(asked) : n = At[k] + 1 /\ \A o \in Option : opt[o] = AskedBy(k, o)
  BY <1>1, <1>3 DEF ArgInv
<1>5. asked \in CommandLine /\ Len(asked) \in Nat /\ Len(argv) \in Nat
  BY AskedType, ArgvPlaces DEF TypeInv
<1>6. k = Len(asked)
  <2>1. SUFFICES ASSUME k # Len(asked) PROVE FALSE
    OBVIOUS
  <2>2. k + 1 \in 1..Len(asked) /\ (k + 1) - 1 = k
    BY <1>5, <2>1
  <2>3. n \in 1..Len(argv)
    BY <1>3, <1>4, <1>5, <2>2, Recognised
  <2>4. QED
    BY <1>1, <1>5, <2>3
<1>7. QED
  BY <1>4, <1>5, <1>6, AskedAll

----------------------------------------------------------------------------
(* Types                                                                   *)

LEMMA KeyTypes ==
  ASSUME TypeInv
  PROVE  /\ KeyOf \in Key /\ KeyOf # NULL /\ KeyToWrite = KeyOf
         /\ <<DirOf, opt.profile>> \in Key /\ <<DirOf, opt.profile>> # NULL
<1>1. opt.name \in Text /\ opt.profile \in Text /\ opt.confdir \in Text
  BY DEF TypeInv
<1>2. <<"res">> \in Text
  BY DEF Text, Word
<1>3. DirOf \in Text
  BY <1>1, <1>2 DEF DirOf
<1>4. \A x \in Text : <<x>> \in Key
  BY DEF Key
<1>5. \A x, y \in Text : <<x, y>> \in Key /\ <<x>> \o <<y>> = <<x, y>> /\ <<x>> \o <<>> = <<x>>
  <2>1. SUFFICES ASSUME NEW x \in Text, NEW y \in Text
                 PROVE  <<x, y>> \in Key /\ <<x>> \o <<y>> = <<x, y>> /\ <<x>> \o <<>> = <<x>>
    OBVIOUS
  <2>2. <<x, y>> \in Key /\ <<x>> \in Key /\ <<y>> \in Key
    BY DEF Key
  <2>3. <<x>> \o <<y>> = <<x, y>>
    <3> DEFINE a == <<x>>  b == <<y>>  c == <<x, y>>
    <3>1. /\ a \in Seq(Text) /\ b \in Seq(Text) /\ c \in Seq(Text) /\ Len(a) = 1 /\ Len(b) = 1 /\ Len(c) = 2
          /\ a[1] = x /\ b[1] = y /\ c[1] = x /\ c[2] = y
      OBVIOUS
    <3> HIDE DEF a, b, c
    <3>2. /\ a \o b \in Seq(Text) /\ Len(a \o b) = 2
          /\ \A i \in 1..2 : (a \o b)[i] = IF i <= 1 THEN a[i] ELSE b[i - 1]
      BY <3>1, ConcatProperties, SMTT(40)
    <3>3. (a \o b)[1] = x /\ (a \o b)[2] = y
      BY <3>1, <3>2
    <3>4. \A i \in 1..2 : i = 1 \/ i = 2
      OBVIOUS
    <3>5. a \o b = c
      BY <3>1, <3>2, <3>3, <3>4, SeqEqual
    <3>6. QED
      BY <3>5 DEF a, b, c
  <2>4. <<x>> \o <<>> = <<x>>
    BY <2>2, ConcatEmptySeq DEF Key
  <2>5. QED
    BY <2>2, <2>3, <2>4
<1>6. KeyOf \in Key /\ KeyToWrite = KeyOf
  <2>1. CASE opt.profile = <<>>
    BY <1>1, <1>4, <1>5, <2>1 DEF KeyOf, KeyToWrite
  <2>2. CASE opt.profile # <<>>
    BY <1>1, <1>5, <2>2 DEF KeyOf, KeyToWrite
  <2>3. QED
    BY <2>1, <2>2
<1>7. QED
  BY <1>1, <1>3, <1>5, <1>6, StartupAssumptions DEF Key

LEMMA RegmapFunction ==
  ASSUME NEW m \in Regmaps
  PROVE  /\ DOMAIN m \subseteq {<<"consul">>, Plugged.scheme} /\ m \in [DOMAIN m -> Impl]
         /\ m # NULL /\ m = [s \in DOMAIN m |-> m[s]]
BY StartupAssumptions DEF Regmaps

LEMMA ConsulType == Consul \in Regmaps
<1>1. Consul \in [{<<"consul">>} -> Impl]
  BY DEF Consul, Impl
<1>2. {<<"consul">>} \in SUBSET {<<"consul">>, Plugged.scheme}
  OBVIOUS
<1>3. QED
  BY <1>1, <1>2 DEF Regmaps

LEMMA PlugType ==
  ASSUME NEW m \in Regmaps
  PROVE  /\ Plug(m) \in Regmaps /\ DOMAIN m \subseteq DOMAIN Plug(m)
         /\ \A s \in DOMAIN m : Plug(m)[s] = m[s]
         /\ \A s \in DOMAIN Plug(m) \ DOMAIN m : Plug(m)[s] = Plugged.impl
<1>1. CASE Plugged.scheme \in DOMAIN m
  BY <1>1 DEF Plug
<1>2. CASE Plugged.scheme \notin DOMAIN m
  <2> DEFINE d == DOMAIN m \cup {Plugged.scheme}
             p == [s \in d |-> IF s = Plugged.scheme THEN Plugged.impl ELSE m[s]]
  <2>1. Plug(m) = p
    BY <1>2 DEF Plug
  <2>2. DOMAIN p = d /\ \A s \in d : p[s] = IF s = Plugged.scheme THEN Plugged.impl ELSE m[s]
    OBVIOUS
  <2>3. p \in [d -> Impl] /\ d \in SUBSET {<<"consul">>, Plugged.scheme}
    BY RegmapFunction DEF Impl
  <2>4. p \in Regmaps
    <3> HIDE DEF p, d
    <3>1. QED
      BY <2>3 DEF Regmaps
  <2>5. QED
    BY <1>2, <2>1, <2>2, <2>4
<1>3. QED
  BY <1>1, <1>2

LEMMA ReginitType ==
  ASSUME regmap \in Regmaps \cup {NULL}, first = regmap, Reginit
  PROVE  /\ regmap' \in Regmaps /\ first' = regmap'
         /\ regmap # NULL => regmap' = regmap
BY ConsulType, RegmapFunction DEF Reginit, reginit

LEMMA ParserType ==
  ASSUME NEW i \in Impl, NEW location \in Text
  PROVE  Parser(i, location) \in Text \cup Address \cup {NULL}
<1> DEFINE colon == IndexOf(location, {":", "://"})
           port == From(location, colon + 1)
           good == colon # 0 /\ location[colon] = ":" /\ Len(port) = 1 /\ port[1] \in DOMAIN Port
           host == SubSeq(location, 1, colon - 1)
           number == Port[port[1]] % (UINT16_MAX + 1)
<1>1. colon \in 0..Len(location)
  BY IndexOfWords
<1>2. colon # 0 => colon \in 1..Len(location) /\ colon \in Nat
  BY <1>1 DEF Text
<1>3. colon # 0 => host \in Text
  BY <1>2, Parts
<1>4. good => number \in 0..UINT16_MAX
  <2>1. \A x, y \in Nat : x % (y + 1) \in 0..y
    OBVIOUS
  <2>2. QED
    BY <2>1, StartupAssumptions
<1>5. parse_simple_url(location) = IF good THEN [host |-> host, port |-> number] ELSE NULL
  BY DEF parse_simple_url
<1> HIDE DEF host, number
<1>6. parse_simple_url(location) \in Address \cup {NULL}
  BY <1>3, <1>4, <1>5 DEF Address
<1>7. QED
  BY <1>6 DEF Parser

LEMMA LookupType ==
  ASSUME NEW m \in Regmaps, NEW s \in DOMAIN m PROVE m[s] \in Impl /\ s \in Text
<1>1. <<"consul">> \in Text
  BY DEF Text, Word
<1>2. QED
  BY <1>1, RegmapFunction, StartupAssumptions

(* A registry whose location its implementation can read.                  *)
LEMMA ParsedType ==
  ASSUME TypeInv, Colon # 0, opt.registry # NULL, impl # NULL
  PROVE  /\ impl.impl \in Impl
         /\ Parser(impl.impl, From(opt.registry, Colon + 1)) \in Text \cup Address \cup {NULL}
<1>1. opt.registry \in Text /\ impl.impl \in Impl
  BY DEF TypeInv
<1>2. Colon \in 1..Len(opt.registry) /\ Colon + 1 \in Nat /\ Colon + 1 \in 1..(Len(opt.registry) + 1)
  <2>1. Colon \in 0..Len(opt.registry) /\ Len(opt.registry) \in Nat
    BY <1>1, IndexOfWords DEF Colon, Text
  <2>2. QED
    BY <2>1
<1>3. From(opt.registry, Colon + 1) \in Text
  BY <1>1, <1>2, Parts
<1>4. QED
  BY <1>1, <1>3, ParserType

LEMMA ParsedUrl ==
  ASSUME TypeInv, AskedForInv, RegInv, ParseUrl
  PROVE  LET location == Parser(impl.impl, From(opt.registry, Colon + 1)) IN
         /\ reached = "parse" /\ impl # NULL /\ Colon # 0 /\ opt.registry # NULL
         /\ \/ UNCHANGED reg /\ reached' \in {"crash", "failed"}
            \/ /\ location # NULL /\ reg' = [impl |-> impl.impl, location |-> location]
               /\ reg' \in [impl : Impl, location : Text \cup Address] /\ reg' # NULL
<1> DEFINE location == Parser(impl.impl, From(opt.registry, Colon + 1))
<1>1. /\ reached = "parse"
      /\ \/ UNCHANGED reg /\ reached' \in {"crash", "failed"}
         \/ location # NULL /\ reg' = [impl |-> impl.impl, location |-> location]
  BY DEF ParseUrl, Failed
<1>2. Colon # 0 /\ opt.registry # NULL /\ impl # NULL
  BY <1>1 DEF AskedForInv, RegInv
<1>3. impl.impl \in Impl /\ location \in Text \cup Address \cup {NULL}
  BY <1>2, ParsedType
<1> HIDE DEF location
<1>4. CASE UNCHANGED reg /\ reached' \in {"crash", "failed"}
  BY <1>1, <1>2, <1>4 DEF location
<1>5. CASE location # NULL /\ reg' = [impl |-> impl.impl, location |-> location]
  <2>1. location \in Text \cup Address
    BY <1>3, <1>5, Zenon
  <2>2. reg' \in [impl : Impl, location : Text \cup Address]
    BY <1>3, <1>5, <2>1, Zenon
  <2>3. reg' # NULL
    BY <2>2, StartupAssumptions
  <2>4. QED
    BY <1>1, <1>2, <1>5, <2>2, <2>3 DEF location
<1>6. QED
  BY <1>1, <1>4, <1>5

LEMMA AddedType ==
  ASSUME NEW m \in Regmaps
  PROVE  /\ Plug(m) \in Regmaps
         /\ [s \in DOMAIN Plug(m) |-> IF s \in DOMAIN m THEN m[s] ELSE Plugged.impl] = Plug(m)
<1>1. Plug(m) \in Regmaps /\ Plug(m) = [s \in DOMAIN Plug(m) |-> Plug(m)[s]]
  BY PlugType, RegmapFunction
<1>2. \A s \in DOMAIN Plug(m) : Plug(m)[s] = IF s \in DOMAIN m THEN m[s] ELSE Plugged.impl
  BY PlugType
<1>3. QED
  BY <1>1, <1>2

LEMMA LevelType ==
  ASSUME TypeInv, NEW t \in Setter, NEW l, SetLevel(t, l) \/ UNCHANGED levels
  PROVE  /\ level' \in [config : Level \cup {"TRACE"}, logger : Level \cup {"TRACE", "INFO"}]
         /\ setting' \in [Setter -> Level \cup {NULL}] /\ raced' \in BOOLEAN
<1>1. CASE UNCHANGED levels
  BY <1>1 DEF levels, TypeInv
<1>2. CASE SetLevel(t, l) /\ l \in Level /\ l # level.config
  <2>1. /\ level' = [config |-> l, logger |-> "INFO"] /\ setting' = [setting EXCEPT ![t] = l]
        /\ raced' = (raced \/ \E u \in DOMAIN setting : setting[u] # NULL)
    BY <1>2 DEF SetLevel
  <2>2. raced' \in BOOLEAN
    BY <2>1, Zenon
  <2>3. QED
    BY <1>2, <2>1, <2>2 DEF TypeInv
<1>3. QED
  BY <1>1, <1>2 DEF SetLevel

LEMMA TypeStep == TypeInv /\ AskedForInv /\ RegInv /\ [StartupNext]_startupVars => TypeInv'
<1> SUFFICES ASSUME TypeInv, AskedForInv, RegInv, [StartupNext]_startupVars PROVE TypeInv'
  OBVIOUS
<1>1. CASE user_serial_init
  <2>1. reached' \in Stage
    BY <1>1 DEF user_serial_init, TypeInv, Stage
  <2>2. UNCHANGED <<asked, env, n, opt, regmap, first, impl, reg, held, used, consul, watch, level,
                    setting, other, raced, finis, missed>>
    BY <1>1 DEF user_serial_init, args, levels, registries, watching
  <2>3. QED
    BY <2>1, <2>2 DEF TypeInv
<1>2. CASE ServiceNew
  <2>1. reached' \in Stage
    BY <1>2 DEF ServiceNew, TypeInv, Stage
  <2>2. held' \subseteq Block
    BY <1>2, ZenonT(60) DEF ServiceNew, TypeInv, Registry, Block, Rest, FromFile, FromPairs
  <2>3. UNCHANGED <<asked, env, n, opt, regmap, first, impl, reg, used, consul, watch, level,
                    setting, other, raced, finis, missed>>
    BY <1>2 DEF ServiceNew, args, levels, registries, watching
  <2>4. QED
    BY <2>1, <2>2, <2>3 DEF TypeInv
<1>3. CASE GetRegistry
  <2>1. reached' \in Stage
    BY <1>3 DEF GetRegistry, Failed, TypeInv, Stage
  <2>2. held' \subseteq Block
    BY <1>3, ZenonT(60) DEF GetRegistry, Failed, TypeInv, Registry, Block, Rest, FromFile, FromPairs
  <2>3. regmap' \in Regmaps \cup {NULL} /\ first' = regmap'
    BY <1>3, ReginitType DEF GetRegistry, Failed, TypeInv, registries
  <2>4. UNCHANGED <<asked, env, n, opt, impl, reg, used, consul, watch, level, setting, other,
                    raced, finis, missed>>
    BY <1>3 DEF GetRegistry, Failed, args, levels, registries, watching
  <2>5. QED
    BY <2>1, <2>2, <2>3, <2>4 DEF TypeInv
<1>4. CASE Lookup
  <2>1. reached' \in Stage
    BY <1>4 DEF Lookup, Failed, TypeInv, Stage
  <2>2. held' \subseteq Block
    BY <1>4, ZenonT(60) DEF Lookup, Failed, TypeInv, Registry, Block, Rest, FromFile, FromPairs
  <2>3. impl' \in [scheme : Text, impl : Impl] \cup {NULL}
    BY <1>4, LookupType DEF Lookup, Failed, TypeInv
  <2>4. UNCHANGED <<asked, env, n, opt, regmap, first, reg, used, consul, watch, level, setting,
                    other, raced, finis, missed>>
    BY <1>4 DEF Lookup, Failed, args, levels, registries, watching
  <2>5. QED
    BY <2>1, <2>2, <2>3, <2>4 DEF TypeInv
<1>5. CASE ParseUrl
  <2>1. reached' \in Stage
    BY <1>5 DEF ParseUrl, Failed, TypeInv, Stage
  <2>2. held' \subseteq Block
    BY <1>5, ZenonT(60) DEF ParseUrl, Failed, TypeInv, Registry, Block, Rest, FromFile, FromPairs
  <2>3. reg' \in [impl : Impl, location : Text \cup Address] \cup {NULL}
    BY <1>5, ParsedUrl DEF TypeInv
  <2>4. impl' \in [scheme : Text, impl : Impl] \cup {NULL}
    BY <1>5 DEF ParseUrl, Failed, TypeInv
  <2>5. UNCHANGED <<asked, env, n, opt, regmap, first, used, consul, watch, level, setting, other,
                    raced, finis, missed>>
    BY <1>5 DEF ParseUrl, Failed, args, levels, registries, watching
  <2>6. QED
    BY <2>1, <2>2, <2>3, <2>4, <2>5 DEF TypeInv
<1>6. CASE PingRegistry
  <2>1. reached' \in Stage
    BY <1>6 DEF PingRegistry, Failed, edgex_registry_free, TypeInv, Stage
  <2>2. held' \subseteq Block
    BY <1>6, ZenonT(60) DEF PingRegistry, Failed, edgex_registry_free, TypeInv, Registry, Block, Rest,
       FromFile, FromPairs
  <2>3. reg' \in [impl : Impl, location : Text \cup Address] \cup {NULL}
    BY <1>6 DEF PingRegistry, Failed, edgex_registry_free, TypeInv
  <2>4. UNCHANGED <<asked, env, n, opt, regmap, first, impl, used, consul, watch, level, setting,
                    other, raced, finis, missed>>
    BY <1>6 DEF PingRegistry, Failed, edgex_registry_free, args, levels, registries, watching
  <2>5. QED
    BY <2>1, <2>2, <2>3, <2>4 DEF TypeInv
<1>7. CASE AddImpl
  <2>1. reached' \in Stage
    BY <1>7 DEF AddImpl, TypeInv, Stage
  <2>2. regmap' \in Regmaps \cup {NULL} /\ first' = regmap'
    BY <1>7, ReginitType, AddedType DEF AddImpl, TypeInv, registries
  <2>3. other' \in {"idle", "add", "done"}
    BY <1>7 DEF AddImpl, TypeInv, registries
  <2>4. UNCHANGED <<asked, env, n, opt, impl, reg, held, used, consul, watch, level, setting,
                    raced, finis, missed>>
    BY <1>7 DEF AddImpl, args, levels, registries, watching
  <2>5. QED
    BY <2>1, <2>2, <2>3, <2>4 DEF TypeInv
<1>8. CASE FreeOther
  <2>1. regmap' \in Regmaps \cup {NULL} /\ first' = regmap'
    BY <1>8 DEF FreeOther, TypeInv, registries
  <2>2. other' \in {"idle", "add", "done"}
    BY <1>8 DEF FreeOther, TypeInv, registries
  <2>3. finis' \in Nat
    BY <1>8 DEF FreeOther, TypeInv, registries
  <2>4. UNCHANGED <<asked, env, reached, n, opt, impl, reg, held, used, consul, watch, level,
                    setting, raced, missed>>
    BY <1>8 DEF FreeOther, args, levels, registries, watching
  <2>5. QED
    BY <2>1, <2>2, <2>3, <2>4 DEF TypeInv
<1>9. CASE GetConfig
  <2>1. reached' \in Stage
    BY <1>9 DEF GetConfig, edgex_registry_free, TypeInv, Stage
  <2>2. held' \subseteq Block
    BY <1>9 DEF GetConfig, edgex_registry_free, TypeInv, Registry, Block, Rest, FromFile, FromPairs
  <2>3. reg' \in [impl : Impl, location : Text \cup Address] \cup {NULL}
    BY <1>9 DEF GetConfig, edgex_registry_free, TypeInv
  <2>4. used' \in [key : Key \cup {NULL}, file : Key \cup {NULL}, upload : Key \cup {NULL}]
    BY <1>9, KeyTypes DEF GetConfig, edgex_registry_free, TypeInv
  <2>5. watch' \in [pc : {"none", "ask", "wait", "done"}, url : Nat \cup {NULL}, header : Nat \cup {NULL}]
    BY <1>9 DEF GetConfig, edgex_registry_free, TypeInv, watching
  <2>6. UNCHANGED <<asked, env, n, opt, regmap, first, impl, consul, level, setting, other, raced,
                    finis, missed>>
    BY <1>9 DEF GetConfig, edgex_registry_free, args, levels, registries, watching
  <2>7. QED
    BY <2>1, <2>2, <2>3, <2>4, <2>5, <2>6 DEF TypeInv
<1>10. CASE LoadFile
  <2>1. SetLevel("main", FileLevel) \/ UNCHANGED levels
    BY <1>10 DEF LoadFile, Failed, edgex_registry_free
  <2>2. "main" \in Setter
    BY DEF Setter
  <2>3. reached' \in Stage
    BY <1>10 DEF LoadFile, Failed, edgex_registry_free, TypeInv, Stage
  <2>4. held' \subseteq Block
    BY <1>10 DEF LoadFile, Failed, edgex_registry_free, TypeInv, Registry, Block, Rest, FromFile,
       FromPairs
  <2>5. reg' \in [impl : Impl, location : Text \cup Address] \cup {NULL}
    BY <1>10 DEF LoadFile, Failed, edgex_registry_free, TypeInv
  <2>6. used' \in [key : Key \cup {NULL}, file : Key \cup {NULL}, upload : Key \cup {NULL}]
    BY <1>10, KeyTypes DEF LoadFile, Failed, edgex_registry_free, TypeInv
  <2>7. level' \in [config : Level \cup {"TRACE"}, logger : Level \cup {"TRACE", "INFO"}]
    BY <2>1, <2>2, LevelType
  <2>8. setting' \in [Setter -> Level \cup {NULL}]
    BY <2>1, <2>2, LevelType
  <2>9. raced' \in BOOLEAN
    BY <2>1, <2>2, LevelType
  <2>10. UNCHANGED <<asked, env, n, opt, regmap, first, impl, consul, watch, other, finis, missed>>
    BY <1>10 DEF LoadFile, Failed, edgex_registry_free, args, levels, registries, watching
  <2>11. QED
    BY <2>1, <2>2, <2>3, <2>4, <2>5, <2>6, <2>7, <2>8, <2>9, <2>10 DEF TypeInv
<1>11. CASE ValidateConfig
  <2>1. reached' \in Stage
    BY <1>11 DEF ValidateConfig, Ended, edgex_registry_free, TypeInv, Stage
  <2>2. held' \subseteq Block
    BY <1>11, ZenonT(60) DEF ValidateConfig, Ended, edgex_registry_free, TypeInv, Registry, Block, Rest,
       FromFile, FromPairs
  <2>3. reg' \in [impl : Impl, location : Text \cup Address] \cup {NULL}
    BY <1>11 DEF ValidateConfig, Ended, edgex_registry_free, TypeInv
  <2>4. UNCHANGED <<asked, env, n, opt, regmap, first, impl, used, consul, watch, level, setting,
                    other, raced, finis, missed>>
    BY <1>11 DEF ValidateConfig, Ended, edgex_registry_free, args, levels, registries, watching
  <2>5. QED
    BY <2>1, <2>2, <2>3, <2>4 DEF TypeInv
<1>12. CASE PutConfig
  <2>1. reached' \in Stage
    BY <1>12 DEF PutConfig, Ended, edgex_registry_free, TypeInv, Stage
  <2>2. held' \subseteq Block
    BY <1>12 DEF PutConfig, Ended, edgex_registry_free, TypeInv, Registry, Block, Rest, FromFile,
       FromPairs
  <2>3. reg' \in [impl : Impl, location : Text \cup Address] \cup {NULL}
    BY <1>12 DEF PutConfig, Ended, edgex_registry_free, TypeInv
  <2>4. used' \in [key : Key \cup {NULL}, file : Key \cup {NULL}, upload : Key \cup {NULL}]
    BY <1>12, KeyTypes DEF PutConfig, Ended, edgex_registry_free, TypeInv
  <2>5. consul' \in [keys : SUBSET Key, index : Nat, level : Level \cup {"TRACE", WrongLevel, NULL}]
    BY <1>12, KeyTypes DEF PutConfig, Ended, edgex_registry_free, TypeInv, watching
  <2>6. UNCHANGED <<asked, env, n, opt, regmap, first, impl, watch, level, setting, other, raced,
                    finis, missed>>
    BY <1>12 DEF PutConfig, Ended, edgex_registry_free, args, levels, registries, watching
  <2>7. QED
    BY <2>1, <2>2, <2>3, <2>4, <2>5, <2>6 DEF TypeInv
<1>13. CASE StartServices
  <2>1. reached' \in Stage
    BY <1>13 DEF StartServices, Ended, edgex_registry_free, TypeInv, Stage
  <2>2. held' \subseteq Block
    BY <1>13 DEF StartServices, Ended, edgex_registry_free, TypeInv, Registry, Block, Rest,
       FromFile, FromPairs
  <2>3. reg' \in [impl : Impl, location : Text \cup Address] \cup {NULL}
    BY <1>13 DEF StartServices, Ended, edgex_registry_free, TypeInv
  <2>4. UNCHANGED <<asked, env, n, opt, regmap, first, impl, used, consul, watch, level, setting,
                    other, raced, finis, missed>>
    BY <1>13 DEF StartServices, Ended, edgex_registry_free, args, levels, registries, watching
  <2>5. QED
    BY <2>1, <2>2, <2>3, <2>4 DEF TypeInv
<1>14. CASE edgex_device_service_stop
  <2>1. reached' \in Stage
    BY <1>14 DEF edgex_device_service_stop, TypeInv, Stage
  <2>2. UNCHANGED <<asked, env, n, opt, regmap, first, impl, reg, held, used, consul, watch, level,
                    setting, other, raced, finis, missed>>
    BY <1>14 DEF edgex_device_service_stop, args, levels, registries, watching
  <2>3. QED
    BY <2>1, <2>2 DEF TypeInv
<1>15. CASE ServiceFree
  <2>1. reached' \in Stage
    BY <1>15 DEF ServiceFree, edgex_device_freeConfig, TypeInv, Stage
  <2>2. held' \subseteq Block
    BY <1>15 DEF ServiceFree, edgex_device_freeConfig, TypeInv, Registry, Block, Rest, FromFile,
       FromPairs
  <2>3. regmap' \in Regmaps \cup {NULL} /\ first' = regmap'
    BY <1>15 DEF ServiceFree, edgex_device_freeConfig, TypeInv, registries
  <2>4. finis' \in Nat
    BY <1>15 DEF ServiceFree, edgex_device_freeConfig, TypeInv, registries
  <2>5. watch' \in [pc : {"none", "ask", "wait", "done"}, url : Nat \cup {NULL}, header : Nat \cup {NULL}]
    BY <1>15 DEF ServiceFree, edgex_device_freeConfig, TypeInv, watching
  <2>6. UNCHANGED <<asked, env, n, opt, impl, reg, used, consul, level, setting, other, raced,
                    missed>>
    BY <1>15 DEF ServiceFree, edgex_device_freeConfig, args, levels, registries, watching
  <2>7. QED
    BY <2>1, <2>2, <2>3, <2>4, <2>5, <2>6 DEF TypeInv
<1>16. CASE PollAsk
  <2>1. watch' \in [pc : {"none", "ask", "wait", "done"}, url : Nat \cup {NULL}, header : Nat \cup {NULL}]
    BY <1>16 DEF PollAsk, TypeInv, watching
  <2>2. UNCHANGED <<asked, env, reached, n, opt, regmap, first, impl, reg, held, used, consul,
                    level, setting, other, raced, finis, missed>>
    BY <1>16 DEF PollAsk, args, levels, registries, watching
  <2>3. QED
    BY <2>1, <2>2 DEF TypeInv
<1>17. CASE PollAnswer
  <2>1. SetLevel("poll", consul.level) \/ UNCHANGED levels
    BY <1>17 DEF PollAnswer, edgex_check_rsp_hdr, edgex_device_updateConf
  <2>2. "poll" \in Setter
    BY DEF Setter
  <2>3. watch' \in [pc : {"none", "ask", "wait", "done"}, url : Nat \cup {NULL}, header : Nat \cup {NULL}]
    BY <1>17, ZenonT(60) DEF PollAnswer, edgex_check_rsp_hdr, edgex_device_updateConf, TypeInv, watching
  <2>4. missed' \in BOOLEAN
    BY <1>17 DEF PollAnswer, edgex_check_rsp_hdr, edgex_device_updateConf, TypeInv, watching
  <2>5. level' \in [config : Level \cup {"TRACE"}, logger : Level \cup {"TRACE", "INFO"}]
    BY <2>1, <2>2, LevelType
  <2>6. setting' \in [Setter -> Level \cup {NULL}]
    BY <2>1, <2>2, LevelType
  <2>7. raced' \in BOOLEAN
    BY <2>1, <2>2, LevelType
  <2>8. UNCHANGED <<asked, env, reached, n, opt, regmap, first, impl, reg, held, used, consul,
                    other, finis>>
    BY <1>17 DEF PollAnswer, edgex_check_rsp_hdr, edgex_device_updateConf, args, levels,
       registries, watching
  <2>9. QED
    BY <2>1, <2>2, <2>3, <2>4, <2>5, <2>6, <2>7, <2>8 DEF TypeInv
<1>18. CASE PollEnds
  <2>1. watch' \in [pc : {"none", "ask", "wait", "done"}, url : Nat \cup {NULL}, header : Nat \cup {NULL}]
    BY <1>18 DEF PollEnds, TypeInv, watching
  <2>2. UNCHANGED <<asked, env, reached, n, opt, regmap, first, impl, reg, held, used, consul,
                    level, setting, other, raced, finis, missed>>
    BY <1>18 DEF PollEnds, args, levels, registries, watching
  <2>3. QED
    BY <2>1, <2>2 DEF TypeInv
<1>19. CASE Change
  <2>1. consul' \in [keys : SUBSET Key, index : Nat, level : Level \cup {"TRACE", WrongLevel, NULL}]
    <3>1. PICK l \in Level \cup {WrongLevel, NULL} : consul' = [consul EXCEPT !.index = @ + 1, !.level = l]
      BY <1>19 DEF Change
    <3>2. consul \in [keys : SUBSET Key, index : Nat, level : Level \cup {"TRACE", WrongLevel, NULL}]
      BY DEF TypeInv
    <3>3. consul' = [keys |-> consul.keys, index |-> consul.index + 1, level |-> l]
      BY <3>1, <3>2
    <3>4. QED
      BY <3>2, <3>3
  <2>2. UNCHANGED <<asked, env, reached, n, opt, regmap, first, impl, reg, held, used, watch,
                    level, setting, other, raced, finis, missed>>
    BY <1>19 DEF Change, args, levels, registries, watching
  <2>3. QED
    BY <2>1, <2>2 DEF TypeInv
<1>20. CASE ParseArg
  BY <1>20, ParseArgType, ParseArgSteps, ZenonT(60) DEF args, levels, registries, watching, TypeInv, Stage
<1>21. ASSUME NEW t \in DOMAIN setting, LevelSet(t) PROVE TypeInv'
  BY <1>21 DEF LevelSet, args, levels, registries, watching, TypeInv
<1>22. CASE UNCHANGED startupVars
  BY <1>22 DEF startupVars, TypeInv
<1>23. QED
  BY <1>1, <1>2, <1>3, <1>4, <1>5, <1>6, <1>7, <1>8, <1>9, <1>10, <1>11, <1>12, <1>13, <1>14,
     <1>15, <1>16, <1>17, <1>18, <1>19, <1>20, <1>21, <1>22, Zenon DEF StartupNext

----------------------------------------------------------------------------
(* The parts of the invariant                                              *)

LEMMA HeldStep ==
  ASSUME HeldInv, [StartupNext]_startupVars
  PROVE  HeldInv'
<1>1. ASSUME UNCHANGED <<reached, held>> PROVE HeldInv'
  BY <1>1 DEF HeldInv, Registry, Rest, FromFile, FromPairs
<1>2. CASE FreeOther \/ PollAsk \/ PollAnswer \/ PollEnds \/ Change
  BY <1>1, <1>2 DEF FreeOther, PollAsk, PollAnswer, edgex_check_rsp_hdr, edgex_device_updateConf,
     PollEnds, Change, args, levels, registries, watching
<1>3. CASE user_serial_init
  BY <1>3 DEF user_serial_init, args, levels, registries, watching, HeldInv, Registry, Rest,
     FromFile, FromPairs
<1>4. CASE ParseArg
  BY <1>4, ParseArgSteps DEF args, levels, registries, watching, HeldInv, Registry, Rest, FromFile,
     FromPairs
<1>5. CASE ServiceNew
  BY <1>5 DEF ServiceNew, args, levels, registries, watching, HeldInv, Registry, Rest, FromFile,
     FromPairs
<1>6. CASE GetRegistry
  BY <1>6 DEF GetRegistry, Failed, Reginit, args, levels, registries, watching, HeldInv, Registry,
     Rest, FromFile, FromPairs
<1>7. CASE Lookup
  BY <1>7 DEF Lookup, Failed, args, levels, registries, watching, HeldInv, Registry, Rest,
     FromFile, FromPairs
<1>8. CASE ParseUrl
  BY <1>8 DEF ParseUrl, Failed, args, levels, registries, watching, HeldInv, Registry, Rest,
     FromFile, FromPairs
<1>9. CASE PingRegistry
  BY <1>9 DEF PingRegistry, Failed, edgex_registry_free, args, levels, registries, watching,
     HeldInv, Registry, Rest, FromFile, FromPairs
<1>10. CASE AddImpl
  BY <1>10 DEF AddImpl, Reginit, args, levels, registries, watching, HeldInv, Registry, Rest,
     FromFile, FromPairs
<1>11. CASE GetConfig
  BY <1>11 DEF GetConfig, edgex_registry_free, args, levels, registries, watching, HeldInv,
     Registry, Rest, FromFile, FromPairs
<1>12. CASE LoadFile
  BY <1>12 DEF LoadFile, Failed, edgex_registry_free, args, levels, registries, watching, HeldInv,
     Registry, Rest, FromFile, FromPairs
<1>13. CASE ValidateConfig
  BY <1>13 DEF ValidateConfig, Ended, edgex_registry_free, args, levels, registries, watching,
     HeldInv, Registry, Rest, FromFile, FromPairs
<1>14. CASE PutConfig
  BY <1>14 DEF PutConfig, Ended, edgex_registry_free, args, levels, registries, watching, HeldInv,
     Registry, Rest, FromFile, FromPairs
<1>15. CASE StartServices
  BY <1>15 DEF StartServices, Ended, edgex_registry_free, args, levels, registries, watching,
     HeldInv, Registry, Rest, FromFile, FromPairs
<1>16. CASE edgex_device_service_stop
  BY <1>16 DEF edgex_device_service_stop, args, levels, registries, watching, HeldInv, Registry,
     Rest, FromFile, FromPairs
<1>17. CASE ServiceFree
  BY <1>17 DEF ServiceFree, edgex_device_freeConfig, args, levels, registries, watching, HeldInv,
     Registry, Rest, FromFile, FromPairs
<1>18. ASSUME NEW t \in DOMAIN setting, LevelSet(t) PROVE HeldInv'
  BY <1>1, <1>18 DEF LevelSet, args, levels, registries, watching
<1>19. CASE UNCHANGED startupVars
  BY <1>19, <1>1 DEF startupVars
<1>20. QED
  BY <1>2, <1>3, <1>4, <1>5, <1>6, <1>7, <1>8, <1>9, <1>10, <1>11, <1>12, <1>13, <1>14, <1>15,
     <1>16, <1>17, <1>18, <1>19, Zenon DEF StartupNext

LEMMA AskedForStep ==
  ASSUME TypeInv, AskedForInv, RegInv, [StartupNext]_startupVars
  PROVE  AskedForInv'
<1>1. watch \in [pc : {"none", "ask", "wait", "done"}, url : Nat \cup {NULL}, header : Nat \cup {NULL}]
  BY DEF TypeInv
<1>2. ASSUME UNCHANGED <<reached, opt, reg, watch>> PROVE AskedForInv'
  BY <1>2 DEF AskedForInv, Pending
<1>3. CASE FreeOther \/ Change
  BY <1>2, <1>3 DEF FreeOther, Change, args, levels, registries, watching
<1>4. CASE user_serial_init
  BY <1>1, <1>4 DEF user_serial_init, args, levels, registries, watching, AskedForInv, Pending
<1>5. CASE ParseArg
  BY <1>1, <1>5, ParseArgSteps DEF args, levels, registries, watching, AskedForInv, Pending
<1>6. CASE ServiceNew
  BY <1>1, <1>6 DEF ServiceNew, args, levels, registries, watching, AskedForInv, Pending
<1>7. CASE GetRegistry
  BY <1>1, <1>7 DEF GetRegistry, Failed, Reginit, args, levels, registries, watching, AskedForInv,
     Pending
<1>8. CASE Lookup
  BY <1>1, <1>8 DEF Lookup, Failed, args, levels, registries, watching, AskedForInv, Pending
<1>9. CASE ParseUrl
  <2>1. UNCHANGED <<opt, watch>> /\ reached' \in {"crash", "failed", "ping"} /\ reached = "parse"
    BY <1>9 DEF ParseUrl, Failed, args, watching
  <2>2. reached' = "ping" => reg' # NULL
    BY <1>9, ParsedUrl
  <2>3. QED
    BY <1>1, <2>1, <2>2 DEF AskedForInv, Pending
<1>10. CASE PingRegistry
  BY <1>1, <1>10 DEF PingRegistry, Failed, edgex_registry_free, args, levels, registries, watching,
     AskedForInv, Pending
<1>11. CASE AddImpl
  BY <1>1, <1>11 DEF AddImpl, Reginit, args, levels, registries, watching, AskedForInv, Pending
<1>12. CASE GetConfig
  BY <1>1, <1>12 DEF GetConfig, edgex_registry_free, args, levels, registries, watching,
     AskedForInv, Pending
<1>13. CASE LoadFile
  BY <1>1, <1>13 DEF LoadFile, Failed, edgex_registry_free, args, levels, registries, watching,
     AskedForInv, Pending
<1>14. CASE ValidateConfig
  BY <1>1, <1>14 DEF ValidateConfig, Ended, edgex_registry_free, args, levels, registries,
     watching, AskedForInv, Pending
<1>15. CASE PutConfig
  BY <1>1, <1>15 DEF PutConfig, Ended, edgex_registry_free, args, levels, registries, watching,
     AskedForInv, Pending
<1>16. CASE StartServices
  BY <1>1, <1>16 DEF StartServices, Ended, edgex_registry_free, args, levels, registries, watching,
     AskedForInv, Pending
<1>17. CASE edgex_device_service_stop
  BY <1>1, <1>17 DEF edgex_device_service_stop, args, levels, registries, watching, AskedForInv,
     Pending
<1>18. CASE ServiceFree
  BY <1>1, <1>18 DEF ServiceFree, edgex_device_freeConfig, args, levels, registries, watching,
     AskedForInv, Pending
<1>19. CASE PollAsk
  BY <1>1, <1>19 DEF PollAsk, args, levels, registries, watching, AskedForInv, Pending
<1>20. CASE PollAnswer
  BY <1>1, <1>20 DEF PollAnswer, edgex_check_rsp_hdr, edgex_device_updateConf, SetLevel, args,
     levels, registries, watching, AskedForInv, Pending
<1>21. CASE PollEnds
  BY <1>1, <1>21 DEF PollEnds, args, levels, registries, watching, AskedForInv, Pending
<1>22. ASSUME NEW t \in DOMAIN setting, LevelSet(t) PROVE AskedForInv'
  BY <1>2, <1>1, <1>22 DEF LevelSet, args, levels, registries, watching
<1>23. CASE UNCHANGED startupVars
  BY <1>23, <1>2 DEF startupVars
<1>24. QED
  BY <1>3, <1>4, <1>5, <1>6, <1>7, <1>8, <1>9, <1>10, <1>11, <1>12, <1>13, <1>14, <1>15, <1>16,
     <1>17, <1>18, <1>19, <1>20, <1>21, <1>22, <1>23, Zenon DEF StartupNext

LEMMA UsedStep ==
  ASSUME TypeInv, AskedForInv, UsedInv, [StartupNext]_startupVars
  PROVE  UsedInv'
<1>1. consul \in [keys : SUBSET Key, index : Nat, level : Level \cup {"TRACE", WrongLevel, NULL}]
      /\ used \in [key : Key \cup {NULL}, file : Key \cup {NULL}, upload : Key \cup {NULL}]
  BY DEF TypeInv
<1>2. ASSUME UNCHANGED <<reached, opt, reg, used, consul>> PROVE UsedInv'
  BY <1>2 DEF UsedInv, NoConfig, KeyOf, DirOf
<1>3. CASE FreeOther \/ PollAsk \/ PollAnswer \/ PollEnds
  BY <1>2, <1>3 DEF FreeOther, PollAsk, PollAnswer, edgex_check_rsp_hdr, edgex_device_updateConf,
     PollEnds, args, levels, registries, watching
<1>4. CASE user_serial_init
  BY <1>1, <1>4 DEF user_serial_init, args, levels, registries, watching, UsedInv, NoConfig, KeyOf,
     DirOf
<1>5. CASE ParseArg
  <2>1. used' = NoConfig /\ reached' \in {"args", "exit"}
    BY <1>5, ParseArgSteps DEF UsedInv
  <2>2. QED
    BY <2>1 DEF UsedInv, NoConfig
<1>6. CASE ServiceNew
  BY <1>1, <1>6 DEF ServiceNew, args, levels, registries, watching, UsedInv, NoConfig, KeyOf, DirOf
<1>7. CASE GetRegistry
  BY <1>1, <1>7 DEF GetRegistry, Failed, Reginit, args, levels, registries, watching, UsedInv,
     NoConfig, KeyOf, DirOf
<1>8. CASE Lookup
  BY <1>1, <1>8 DEF Lookup, Failed, args, levels, registries, watching, UsedInv, NoConfig, KeyOf,
     DirOf
<1>9. CASE ParseUrl
  BY <1>1, <1>9 DEF ParseUrl, Failed, args, levels, registries, watching, UsedInv, NoConfig, KeyOf,
     DirOf
<1>10. CASE PingRegistry
  BY <1>1, <1>10 DEF PingRegistry, Failed, edgex_registry_free, args, levels, registries, watching,
     UsedInv, NoConfig, KeyOf, DirOf
<1>11. CASE AddImpl
  BY <1>1, <1>11 DEF AddImpl, Reginit, args, levels, registries, watching, UsedInv, NoConfig,
     KeyOf, DirOf
<1>12. CASE GetConfig
  <2>1. UNCHANGED <<opt, consul>> /\ used = NoConfig /\ reached' \in {"start", "failed", "load"}
    BY <1>12 DEF GetConfig, args, UsedInv
  <2>2. \/ used' = used /\ reached' # "start"
        \/ used' = [used EXCEPT !.key = KeyOf] /\ KeyOf \in consul.keys /\ reached' = "start"
    BY <1>12 DEF GetConfig
  <2>3. KeyOf # NULL /\ KeyOf' = KeyOf
    BY <2>1, KeyTypes DEF KeyOf
  <2> HIDE DEF KeyOf
  <2>4. /\ used'.file = NULL /\ used'.upload = NULL
        /\ used'.key # NULL => used'.key = KeyOf /\ KeyOf \in consul.keys
        /\ reached' = "start" => used'.key # NULL
        /\ reached' = "load" => used' = NoConfig
    BY <2>1, <2>2, <2>3 DEF NoConfig
  <2>5. QED
    BY <2>1, <2>3, <2>4 DEF UsedInv
<1>13. CASE LoadFile
  <2>1. UNCHANGED <<opt, consul>> /\ used = NoConfig /\ reached' \in {"start", "failed"}
    BY <1>13 DEF LoadFile, Failed, args, watching, UsedInv
  <2>2. \/ used' = used /\ reached' # "start"
        \/ used' = [used EXCEPT !.file = <<DirOf, opt.profile>>]
    BY <1>13 DEF LoadFile, Failed
  <2>3. <<DirOf, opt.profile>> # NULL /\ <<DirOf, opt.profile>>' = <<DirOf, opt.profile>>
    BY <2>1, KeyTypes DEF DirOf
  <2>4. /\ used'.key = NULL /\ used'.upload = NULL
        /\ used'.file # NULL => used'.file = <<DirOf, opt.profile>>
        /\ reached' = "start" => used'.file # NULL
    BY <2>1, <2>2, <2>3 DEF NoConfig
  <2>5. QED
    BY <2>1, <2>3, <2>4 DEF UsedInv
<1>14. CASE ValidateConfig
  <2>1. UNCHANGED <<opt, consul, used>> /\ reached = "start" /\ reached' \in {"upload", "services",
                    "failed"}
    BY <1>14 DEF ValidateConfig, Ended, args, watching
  <2>2. reached' = "services" => reg = NULL \/ used.file = NULL
    BY <1>14 DEF ValidateConfig, Ended
  <2>3. opt.registry # NULL => reg # NULL
    BY <2>1 DEF AskedForInv
  <2>4. QED
    BY <2>1, <2>2, <2>3 DEF UsedInv, KeyOf, DirOf
<1>15. CASE PutConfig
  <2>1. UNCHANGED opt /\ reached = "upload" /\ reached' \in {"services", "failed"}
    BY <1>15 DEF PutConfig, Ended, args
  <2>2. \/ used' = used /\ reached' # "services"
        \/ used' = [used EXCEPT !.upload = KeyOf] /\ KeyOf \in consul'.keys
    BY <1>1, <1>15, KeyTypes DEF PutConfig, Ended
  <2>3. consul.keys \subseteq consul'.keys
    BY <1>15 DEF PutConfig
  <2>4. KeyOf # NULL /\ KeyOf' = KeyOf /\ DirOf' = DirOf
    BY <2>1, KeyTypes DEF KeyOf, DirOf
  <2>5. /\ used'.key = used.key /\ used'.file = used.file
        /\ used'.upload # NULL => used'.upload = KeyOf /\ KeyOf \in consul'.keys
        /\ reached' = "services" => used'.upload # NULL
    BY <1>1, <2>1, <2>2, <2>3, <2>4 DEF UsedInv
  <2>6. QED
    BY <2>1, <2>3, <2>4, <2>5 DEF UsedInv
<1>16. CASE StartServices
  BY <1>1, <1>16 DEF StartServices, Ended, edgex_registry_free, args, levels, registries, watching,
     UsedInv, NoConfig, KeyOf, DirOf
<1>17. CASE edgex_device_service_stop
  BY <1>1, <1>17 DEF edgex_device_service_stop, args, levels, registries, watching, UsedInv,
     NoConfig, KeyOf, DirOf
<1>18. CASE ServiceFree
  BY <1>1, <1>18 DEF ServiceFree, edgex_device_freeConfig, args, levels, registries, watching,
     UsedInv, NoConfig, KeyOf, DirOf
<1>19. CASE Change
  BY <1>1, <1>19 DEF Change, args, levels, registries, watching, UsedInv, NoConfig, KeyOf, DirOf
<1>20. ASSUME NEW t \in DOMAIN setting, LevelSet(t) PROVE UsedInv'
  BY <1>2, <1>1, <1>20 DEF LevelSet, args, levels, registries, watching
<1>21. CASE UNCHANGED startupVars
  BY <1>21, <1>2 DEF startupVars
<1>22. QED
  BY <1>3, <1>4, <1>5, <1>6, <1>7, <1>8, <1>9, <1>10, <1>11, <1>12, <1>13, <1>14, <1>15, <1>16,
     <1>17, <1>18, <1>19, <1>20, <1>21, Zenon DEF StartupNext

(* Setting the level, or not.                                              *)
LEMMA LevelSetting ==
  ASSUME TypeInv, LevelInv, NEW t \in Setter, NEW l, SetLevel(t, l) \/ UNCHANGED levels
  PROVE  LevelInv'
<1>1. setting \in [Setter -> Level \cup {NULL}]
  BY DEF TypeInv
<1>2. CASE UNCHANGED levels
  BY <1>2 DEF levels, LevelInv, Silent
<1>3. CASE SetLevel(t, l) /\ l \in Level /\ l # level.config
  <2>1. /\ level' = [config |-> l, logger |-> "INFO"] /\ setting' = [setting EXCEPT ![t] = l]
        /\ raced' = (raced \/ \E u \in DOMAIN setting : setting[u] # NULL)
    BY <1>3 DEF SetLevel
  <2>2. SUFFICES ASSUME ~raced' PROVE LevelInv'
    BY Zenon DEF LevelInv
  <2>3. \A u \in Setter : setting[u] = NULL
    BY <1>1, <2>1, <2>2
  <2>4. l # NULL
    BY <1>3, StartupAssumptions
  <2>5. setting'[t] = level'.config /\ \A u \in Setter \ {t} : setting'[u] = NULL
    BY <1>1, <2>1, <2>3
  <2>6. setting'[t] # NULL
    BY <1>1, <2>1, <2>4
  <2>7. QED
    BY <2>5, <2>6, Zenon DEF LevelInv, Silent
<1>4. QED
  BY <1>2, <1>3 DEF SetLevel

LEMMA LevelStep ==
  ASSUME TypeInv, LevelInv, [StartupNext]_startupVars
  PROVE  LevelInv'
<1>1. /\ setting \in [Setter -> Level \cup {NULL}]
      /\ level \in [config : Level \cup {"TRACE"}, logger : Level \cup {"TRACE", "INFO"}]
  BY DEF TypeInv
<1>2. ASSUME UNCHANGED <<level, setting, raced>> PROVE LevelInv'
  BY <1>2 DEF LevelInv, Silent
<1>3. CASE user_serial_init \/ ServiceNew \/ GetRegistry \/ Lookup \/ ParseUrl \/ PingRegistry
           \/ AddImpl \/ FreeOther \/ GetConfig \/ ValidateConfig \/ PutConfig \/ StartServices
           \/ edgex_device_service_stop \/ ServiceFree \/ PollAsk \/ PollEnds \/ Change
  BY <1>2, <1>3 DEF user_serial_init, ServiceNew, GetRegistry, Failed, Reginit, Lookup, ParseUrl,
     PingRegistry, edgex_registry_free, AddImpl, FreeOther, GetConfig, ValidateConfig, Ended,
     PutConfig, StartServices, edgex_device_service_stop, ServiceFree, edgex_device_freeConfig,
     PollAsk, PollEnds, Change, args, levels, registries, watching
<1>4. CASE ParseArg
  BY <1>2, <1>1, <1>4, ParseArgSteps DEF args, levels, registries, watching
<1>5. CASE LoadFile
  BY <1>5, LevelSetting DEF LoadFile, Setter, Failed
<1>6. CASE PollAnswer
  BY <1>6, LevelSetting DEF PollAnswer, Setter, edgex_device_updateConf
<1>7. ASSUME NEW t \in DOMAIN setting, LevelSet(t) PROVE LevelInv'
  <2>1. setting[t] # NULL /\ level' = [level EXCEPT !.logger = setting[t]]
        /\ setting' = [setting EXCEPT ![t] = NULL] /\ raced' = raced /\ t \in Setter
    BY <1>1, <1>7 DEF LevelSet
  <2>2. SUFFICES ASSUME ~raced PROVE LevelInv'
    BY <2>1 DEF LevelInv
  <2>3. setting[t] = level.config /\ \A u \in Setter \ {t} : setting[u] = NULL
    BY <2>1, <2>2 DEF LevelInv
  <2>4. \A u \in Setter : setting'[u] = NULL
    BY <1>1, <2>1, <2>3
  <2>5. level'.logger = level'.config
    BY <1>1, <2>1, <2>3
  <2>6. QED
    BY <2>4, <2>5 DEF LevelInv
<1>8. CASE UNCHANGED startupVars
  BY <1>8, <1>2 DEF startupVars
<1>9. QED
  BY <1>3, <1>4, <1>5, <1>6, <1>7, <1>8, Zenon DEF StartupNext

(* No index that the watcher has seen is the next one.                     *)
LEMMA LaterIndex ==
  ASSUME TypeInv, WatchInv
  PROVE  /\ Seen # consul.index + 1 /\ consul.index <= consul.index + 1
         /\ watch.url # NULL => watch.url <= consul.index + 1
         /\ watch.header # NULL => watch.header <= consul.index + 1
<1>1. /\ watch.url \in Nat \cup {NULL} /\ watch.header \in Nat \cup {NULL} /\ consul.index \in Nat
  BY DEF TypeInv
<1>2. NULL \notin Nat /\ consul.index + 1 \in Nat
  BY <1>1, StartupAssumptions
<1>3. QED
  BY <1>1, <1>2 DEF WatchInv, Seen

LEMMA WatchStep ==
  ASSUME TypeInv, AskedForInv, UsedInv, WatchInv, [StartupNext]_startupVars
  PROVE  WatchInv'
<1>1. /\ watch \in [pc : {"none", "ask", "wait", "done"}, url : Nat \cup {NULL}, header : Nat \cup {NULL}]
      /\ consul \in [keys : SUBSET Key, index : Nat, level : Level \cup {"TRACE", WrongLevel, NULL}]
  BY DEF TypeInv
<1>2. ASSUME UNCHANGED <<watch, used, consul, level, missed>> PROVE WatchInv'
  BY <1>2 DEF WatchInv, Seen
<1>3. CASE user_serial_init \/ ServiceNew \/ GetRegistry \/ Lookup \/ ParseUrl \/ PingRegistry
           \/ AddImpl \/ FreeOther \/ ValidateConfig \/ StartServices \/ edgex_device_service_stop
  BY <1>2, <1>3 DEF user_serial_init, ServiceNew, GetRegistry, Failed, Reginit, Lookup, ParseUrl,
     PingRegistry, edgex_registry_free, AddImpl, FreeOther, ValidateConfig, Ended, StartServices,
     edgex_device_service_stop, args, levels, registries, watching
<1>4. CASE ParseArg
  BY <1>2, <1>1, <1>4, ParseArgSteps DEF args, levels, registries, watching
<1>5. CASE GetConfig
  <2>1. /\ UNCHANGED <<consul, level, missed>> /\ watch' = [watch EXCEPT !.pc = "ask"] /\ reached = "config"
    BY <1>5 DEF GetConfig, args, levels, registries
  <2>2. watch.url = NULL /\ watch.header = NULL
    BY <1>1, <2>1 DEF AskedForInv, Pending
  <2>3. watch'.pc = "ask" /\ watch'.url = NULL /\ watch'.header = NULL
    BY <1>1, <2>1, <2>2
  <2>4. NULL # consul'.index
    BY <1>1, <2>1, StartupAssumptions
  <2>5. QED
    BY <2>3, <2>4 DEF WatchInv, Seen
<1>6. CASE LoadFile
  <2>1. UNCHANGED <<consul, watch, missed>> /\ used = NoConfig
    BY <1>6 DEF LoadFile, watching, UsedInv
  <2>2. used'.key = NULL /\ used'.upload = NULL
    BY <1>6, <2>1 DEF LoadFile, Failed, NoConfig
  <2>3. QED
    BY <2>1, <2>2 DEF WatchInv
<1>7. CASE PutConfig
  <2>1. UNCHANGED <<watch, level, missed>>
    BY <1>7 DEF PutConfig, levels
  <2>2. CASE consul' = consul
    <3>1. used' = used
      BY <1>7, <2>2 DEF PutConfig
    <3>2. QED
      BY <2>1, <2>2, <3>1 DEF WatchInv, Seen
  <2>3. CASE consul' # consul
    <3>1. consul'.index = consul.index + 1
      BY <1>7, <2>3 DEF PutConfig
    <3>2. QED
      BY <1>1, <2>1, <3>1, LaterIndex DEF WatchInv, Seen
  <2>4. QED
    BY <2>2, <2>3
<1>8. CASE ServiceFree
  BY <1>1, <1>8 DEF ServiceFree, edgex_device_freeConfig, args, levels, registries, watching,
     WatchInv, Seen
<1>9. CASE PollAsk
  <2>1. UNCHANGED <<consul, level, missed, used>> /\ watch' = [pc |-> "wait", url |-> Seen,
                    header |-> NULL]
    BY <1>9 DEF PollAsk, levels, Seen
  <2>2. Seen' = Seen /\ (Seen # NULL => Seen <= consul.index)
    BY <2>1 DEF WatchInv, Seen
  <2>3. watch'.url = Seen /\ watch'.header = NULL
    BY <2>1
  <2> HIDE DEF Seen
  <2>4. QED
    BY <2>1, <2>2, <2>3 DEF WatchInv
<1>10. CASE PollAnswer
  <2>1. UNCHANGED <<consul, used, opt>> /\ watch.pc = "wait" /\ watch.header = NULL
    BY <1>10 DEF PollAnswer, args, WatchInv
  <2>2. \/ edgex_check_rsp_hdr /\ edgex_device_updateConf /\ UNCHANGED missed
        \/ edgex_check_rsp_hdr /\ missed' = TRUE
        \/ watch' = [watch EXCEPT !.pc = "ask"] /\ UNCHANGED <<levels, missed>>
    BY <1>10, Zenon DEF PollAnswer
  <2>3. CASE watch' = [watch EXCEPT !.pc = "ask"] /\ UNCHANGED <<levels, missed>>
    BY <1>1, <2>1, <2>3 DEF WatchInv, Seen, levels
  <2>4. CASE edgex_check_rsp_hdr /\ missed' = TRUE
    BY <1>1, <2>1, <2>4 DEF edgex_check_rsp_hdr, WatchInv
  <2>5. CASE edgex_check_rsp_hdr /\ edgex_device_updateConf /\ UNCHANGED missed
    <3>1. watch'.pc = "ask" /\ watch'.url = watch.url /\ watch'.header = consul.index
      BY <1>1, <2>5 DEF edgex_check_rsp_hdr
    <3>2. SUFFICES ASSUME used.key # NULL \/ used.upload # NULL, consul.level \in Level
                   PROVE  level'.config = consul.level
      BY <1>1, <2>1, <3>1 DEF WatchInv
    <3>3. SetLevel("poll", consul.level)
      BY <2>5, <3>2, StartupAssumptions DEF edgex_device_updateConf, UsedInv
    <3>4. QED
      BY <3>2, <3>3 DEF SetLevel, levels
  <2>6. QED
    BY <2>2, <2>3, <2>4, <2>5
<1>11. CASE PollEnds
  BY <1>1, <1>11 DEF PollEnds, args, levels, registries, watching, WatchInv, Seen
<1>12. CASE Change
  <2>1. UNCHANGED <<watch, level, missed, used>>
    BY <1>12 DEF Change, levels
  <2>2. consul'.index = consul.index + 1
    BY <1>1, <1>12 DEF Change
  <2>3. QED
    BY <1>1, <2>1, <2>2, LaterIndex DEF WatchInv, Seen
<1>13. ASSUME NEW t \in DOMAIN setting, LevelSet(t) PROVE WatchInv'
  <2>1. UNCHANGED <<watch, used, consul, missed>> /\ level'.config = level.config
    <3>1. level \in [config : Level \cup {"TRACE"}, logger : Level \cup {"TRACE", "INFO"}]
      BY DEF TypeInv
    <3>2. QED
      BY <1>13, <3>1 DEF LevelSet, watching
  <2>2. QED
    BY <2>1 DEF WatchInv, Seen
<1>14. CASE UNCHANGED startupVars
  BY <1>14, <1>2 DEF startupVars
<1>15. QED
  BY <1>3, <1>4, <1>5, <1>6, <1>7, <1>8, <1>9, <1>10, <1>11, <1>12, <1>13, <1>14, Zenon
     DEF StartupNext

(* A URL is its scheme, "://" and a location; a location is a host, ":"    *)
(* and a port, if it can be read as such.                                  *)
LEMMA UrlParts ==
  ASSUME opt.registry \in Text, Colon # 0
  PROVE  LET location == From(opt.registry, Colon + 1) IN
         /\ Scheme \in Text /\ <<"://">> \in Text /\ location \in Text
         /\ opt.registry = Scheme \o <<"://">> \o location
<1> DEFINE url == opt.registry  c == Colon
<1>1. c \in 0..Len(url) /\ Len(url) \in Nat /\ url \in Seq(Word) /\ url[c] = "://"
  BY IndexOfWords DEF Text, Colon
<1>2. c # 0 /\ url \in Text
  OBVIOUS
<1> HIDE DEF c, url
<1>3. c \in 1..Len(url) /\ c \in Nat /\ c + 1 \in Nat /\ c + 1 \in 1..(Len(url) + 1)
  BY <1>1, <1>2
<1>4. url[c] \in Word
  BY <1>1, <1>3
<1>5. <<"://">> \in Text
  BY <1>1, <1>4 DEF Text
<1>6. SubSeq(url, 1, c - 1) \in Text /\ From(url, c + 1) \in Text
  BY <1>2, <1>3, Parts
<1>7. url = SubSeq(url, 1, c - 1) \o <<url[c]>> \o SubSeq(url, c + 1, Len(url))
  BY <1>1, <1>3, SplitAt
<1>8. QED
  BY <1>1, <1>5, <1>6, <1>7 DEF url, c, Scheme, From

LEMMA HostAndPort ==
  ASSUME NEW location \in Text, NEW r, r = parse_simple_url(location), r # NULL
  PROVE  \E w \in DOMAIN Port :
           /\ <<":">> \in Text /\ <<w>> \in Text /\ r.host \in Text
           /\ location = r.host \o <<":">> \o <<w>> /\ r.port = Port[w] % (UINT16_MAX + 1)
<1> DEFINE colon == IndexOf(location, {":", "://"})
           port == From(location, colon + 1)
<1>1. /\ colon # 0 /\ location[colon] = ":" /\ Len(port) = 1 /\ port[1] \in DOMAIN Port
      /\ r = [host |-> SubSeq(location, 1, colon - 1), port |-> Port[port[1]] % (UINT16_MAX + 1)]
  BY Zenon DEF parse_simple_url
<1>2. colon \in 0..Len(location) /\ Len(location) \in Nat /\ location \in Seq(Word)
  BY IndexOfWords DEF Text
<1> HIDE DEF colon
<1>3. colon \in 1..Len(location) /\ colon \in Nat /\ colon + 1 \in Nat /\ colon + 1 \in 1..(Len(location) + 1)
  BY <1>1, <1>2
<1>4. SubSeq(location, 1, colon - 1) \in Text /\ port \in Text /\ location[colon] \in Word
  BY <1>2, <1>3, Parts
<1>5. location = SubSeq(location, 1, colon - 1) \o <<location[colon]>> \o port
  BY <1>2, <1>3, SplitAt DEF From
<1> HIDE DEF port
<1>6. port = <<port[1]>>
  BY <1>1, <1>4 DEF Text
<1>7. <<":">> \in Text
  BY <1>1, <1>4 DEF Text
<1>8. /\ r.host = SubSeq(location, 1, colon - 1) /\ r.port = Port[port[1]] % (UINT16_MAX + 1)
      /\ port[1] \in DOMAIN Port
  <2> DEFINE h == SubSeq(location, 1, colon - 1)  q == Port[port[1]] % (UINT16_MAX + 1)
  <2>1. r = [host |-> h, port |-> q]
    BY <1>1, Zenon
  <2> HIDE DEF h, q
  <2>2. r.host = h /\ r.port = q
    BY <2>1
  <2>3. QED
    BY <1>1, <2>2, Zenon DEF h, q
<1>9. <<port[1]>> \in Text
  BY <1>4, <1>6, Zenon
<1>10. location = r.host \o <<":">> \o <<port[1]>> /\ r.host \in Text
  BY <1>1, <1>4, <1>5, <1>6, <1>8, Zenon
<1>11. QED
  BY <1>7, <1>8, <1>9, <1>10, Zenon

LEMMA Regrouped ==
  \A a, b \in Seq(Word), x, y \in Word :
    a \o ((b \o <<x>>) \o <<y>>) = (a \o b) \o <<x, y>>
<1> SUFFICES ASSUME NEW a \in Seq(Word), NEW b \in Seq(Word), NEW x \in Word, NEW y \in Word
             PROVE  a \o ((b \o <<x>>) \o <<y>>) = (a \o b) \o <<x, y>>
  BY Zenon
<1>1. <<x>> \in Seq(Word) /\ <<y>> \in Seq(Word) /\ <<x, y>> \in Seq(Word)
  OBVIOUS
<1>2. <<x>> \o <<y>> = <<x, y>>
  <2> DEFINE s == <<x>> \o <<y>>  t == <<x, y>>
  <2>1. s \in Seq(Word) /\ Len(s) = 2 /\ s[1] = x /\ s[2] = y
    BY <1>1
  <2>2. t \in Seq(Word) /\ Len(t) = 2 /\ t[1] = x /\ t[2] = y
    BY <1>1
  <2> HIDE DEF s, t
  <2>3. \A i \in 1..Len(s) : s[i] = t[i]
    BY <2>1, <2>2
  <2>4. s = t
    BY <2>1, <2>2, <2>3, SeqEqual
  <2>5. QED
    BY <2>4 DEF s, t
<1>3. (b \o <<x>>) \o <<y>> = b \o (<<x>> \o <<y>>)
  BY <1>1, ConcatAssociative
<1>4. a \o (b \o <<x, y>>) = (a \o b) \o <<x, y>>
  BY <1>1, ConcatAssociative
<1>5. QED
  BY <1>2, <1>3, <1>4

LEMMA NamedUrl ==
  ASSUME TypeInv, AskedForInv, RegInv, ParseUrl, reached' = "ping"
  PROVE  Named'
<1> DEFINE location == From(opt.registry, Colon + 1)
<1>1. /\ impl # NULL /\ Colon # 0 /\ opt.registry # NULL /\ opt' = opt
      /\ Parser(impl.impl, location) # NULL
      /\ reg' = [impl |-> impl.impl, location |-> Parser(impl.impl, location)]
  BY ParsedUrl DEF ParseUrl, args
<1>2. opt.registry \in Text
  BY <1>1 DEF TypeInv
<1>3. /\ Scheme \in Text /\ location \in Text /\ <<"://">> \in Text
      /\ opt.registry = Scheme \o <<"://">> \o location
  BY <1>1, <1>2, UrlParts
<1>4. Scheme' = Scheme
  BY <1>1 DEF Scheme, Colon
<1> HIDE DEF location
<1>5. CASE impl.impl # "consul"
  <2>1. reg'.impl # "consul" /\ reg'.location = location
    BY <1>1, <1>5 DEF Parser
  <2>2. QED
    BY <1>1, <1>3, <1>4, <2>1 DEF Named
<1>6. CASE impl.impl = "consul"
  <2> DEFINE r == parse_simple_url(location)
  <2>1. reg'.impl = "consul" /\ reg'.location = r /\ r # NULL
    BY <1>1, <1>6 DEF Parser
  <2>2. PICK w \in DOMAIN Port :
          /\ <<":">> \in Text /\ <<w>> \in Text /\ r.host \in Text
          /\ location = r.host \o <<":">> \o <<w>> /\ r.port = Port[w] % (UINT16_MAX + 1)
    BY <1>3, <2>1, HostAndPort
  <2> HIDE DEF r
  <2> DEFINE start == Scheme \o <<"://">>
             host == r.host
  <2>3. start \in Seq(Word) /\ host \in Seq(Word) /\ ":" \in Word /\ w \in Word
    BY <1>3, <2>2 DEF Text
  <2>4. opt.registry = start \o ((host \o <<":">>) \o <<w>>)
    BY <1>3, <2>2
  <2> HIDE DEF start, host
  <2>5. start \o ((host \o <<":">>) \o <<w>>) = (start \o host) \o <<":", w>>
    BY <2>3, Regrouped, Zenon
  <2>8. opt.registry = start \o host \o <<":", w>>
    BY <2>4, <2>5
  <2>9. opt'.registry = Scheme' \o <<"://">> \o reg'.location.host \o <<":", w>>
    BY <1>1, <1>4, <2>1, <2>8 DEF start, host
  <2>10. QED
    BY <2>1, <2>2, <2>9 DEF Named
<1>7. QED
  BY <1>5, <1>6

(* The implementations stay until the application frees a service.         *)
MapGrows ==
  regmap # NULL => regmap' # NULL /\ \A s \in DOMAIN regmap : s \in DOMAIN regmap' /\ regmap'[s] = regmap[s]

LEMMA MapUsed ==
  ASSUME RegInv, opt' = opt, finis' = 0 => finis = 0 /\ MapGrows
  PROVE  /\ Scheme' = Scheme /\ Colon' = Colon
         /\ \A i : (finis = 0 => InMap(i)) => (finis' = 0 => InMap(i)')
<1>1. Scheme' = Scheme /\ Colon' = Colon
  BY DEF Scheme, Colon
<1>2. ASSUME NEW i, finis = 0 => InMap(i), finis' = 0 PROVE InMap(i)'
  <2>1. InMap(i) /\ MapGrows
    BY <1>2
  <2>2. /\ regmap # NULL /\ Scheme \in DOMAIN regmap /\ regmap[Scheme] = i
    BY <2>1, Zenon DEF InMap
  <2>3. regmap' # NULL /\ Scheme \in DOMAIN regmap' /\ regmap'[Scheme] = i
    BY <2>1, <2>2, Zenon DEF MapGrows
  <2>4. QED
    BY <1>1, <2>3, Zenon DEF InMap
<1>3. QED
  BY <1>1, <1>2, Zenon

(* The registry keeps its name.                                            *)
LEMMA RegistryKept ==
  ASSUME RegInv, opt' = opt, finis' = 0 => finis = 0 /\ MapGrows, reg' = reg \/ reg' = NULL
  PROVE  reg' # NULL => Named' /\ (finis' = 0 => InMap(reg.impl)')
<1>1. SUFFICES ASSUME reg' = reg, reg # NULL PROVE Named' /\ (finis' = 0 => InMap(reg.impl)')
  OBVIOUS
<1>2. Named /\ (finis = 0 => InMap(reg.impl))
  BY <1>1, Zenon DEF RegInv
<1>3. Scheme' = Scheme /\ (finis' = 0 => InMap(reg.impl)')
  <2> DEFINE i == reg.impl
  <2>1. finis = 0 => InMap(i)
    BY <1>2
  <2>2. i' = i
    BY <1>1
  <2> HIDE DEF i
  <2>3. Scheme' = Scheme /\ \A j : (finis = 0 => InMap(j)) => (finis' = 0 => InMap(j)')
    BY MapUsed, Zenon
  <2>4. finis' = 0 => InMap(i)'
    BY <2>1, <2>2, <2>3
  <2>5. QED
    BY <2>3, <2>4 DEF i
<1>4. Named'
  BY <1>1, <1>2, <1>3, Zenon DEF Named
<1>5. QED
  BY <1>3, <1>4

LEMMA RegKept ==
  ASSUME RegInv, opt' = opt, finis \in Nat, finis' \in Nat, finis' = 0 => finis = 0 /\ MapGrows,
         other' = "add" /\ watch'.pc = "none" => regmap' # NULL,
         reg' = reg \/ reg' = NULL,
         (reached' = reached /\ impl' = impl) \/ reached' \notin {"lookup", "parse", "crash"}
  PROVE  RegInv'
<1>1. reg' # NULL => Named' /\ (finis' = 0 => InMap(reg.impl)')
  BY RegistryKept, Zenon
<1>2. reached' = "crash" => finis' > 0
  BY DEF RegInv
<1>3. reached' \in {"lookup", "parse"} => Colon' # 0 /\ (finis' = 0 => regmap' # NULL)
  BY MapUsed DEF RegInv, MapGrows
<1>4. reached' = "parse" => impl' # NULL /\ (finis' = 0 => InMap(impl.impl)')
  BY MapUsed, Zenon DEF RegInv
<1>5. QED
  BY <1>1, <1>2, <1>3, <1>4, Zenon DEF RegInv

LEMMA RegStep ==
  ASSUME TypeInv, AskedForInv, RegInv, [StartupNext]_startupVars
  PROVE  RegInv'
<1>1. /\ finis \in Nat /\ regmap \in Regmaps \cup {NULL} /\ first = regmap
      /\ watch \in [pc : {"none", "ask", "wait", "done"}, url : Nat \cup {NULL}, header : Nat \cup {NULL}]
  BY DEF TypeInv
<1>2. ASSUME UNCHANGED <<other, watch, regmap, reached, opt, finis, impl, reg>> PROVE RegInv'
  BY <1>2 DEF RegInv, Named, InMap, Scheme, Colon
<1>3. CASE user_serial_init
  <2>1. /\ opt' = opt /\ finis' = finis /\ MapGrows /\ (reg' = reg \/ reg' = NULL)
        /\ other' = "add" /\ watch'.pc = "none" => regmap' # NULL
        /\ (reached' = reached /\ impl' = impl) \/ reached' \notin {"lookup", "parse", "crash"}
    BY <1>1, <1>3 DEF user_serial_init, args, levels, registries, watching, MapGrows, RegInv
  <2>2. QED
    BY <1>1, <2>1, RegKept, Zenon
<1>4. CASE ParseArg
  <2>1. /\ reached = "args" /\ reached' \in {"args", "exit"} /\ reg' = reg
        /\ UNCHANGED <<other, watch, regmap>>
    BY <1>4, ParseArgSteps DEF registries, watching
  <2>2. reg = NULL
    BY <2>1 DEF AskedForInv
  <2>3. QED
    BY <2>1, <2>2 DEF RegInv
<1>5. CASE ServiceNew
  <2>1. /\ opt' = opt /\ finis' = finis /\ MapGrows /\ (reg' = reg \/ reg' = NULL)
        /\ other' = "add" /\ watch'.pc = "none" => regmap' # NULL
        /\ (reached' = reached /\ impl' = impl) \/ reached' \notin {"lookup", "parse", "crash"}
    BY <1>1, <1>5 DEF ServiceNew, args, levels, registries, watching, MapGrows, RegInv
  <2>2. QED
    BY <1>1, <2>1, RegKept, Zenon
<1>6. CASE GetRegistry
  <2>1. opt' = opt /\ reg' = reg /\ UNCHANGED <<other, watch, finis, impl>>
    BY <1>6 DEF GetRegistry, args, watching, registries
  <2>2. \/ UNCHANGED regmap /\ reached' = "failed"
        \/ Reginit /\ reached' = "lookup" /\ Colon # 0
    BY <1>6 DEF GetRegistry, registries, Failed
  <2>3. CASE UNCHANGED regmap /\ reached' = "failed"
    BY <1>1, <2>1, <2>3, RegKept DEF MapGrows, RegInv
  <2>4. CASE Reginit /\ reached' = "lookup" /\ Colon # 0
    <3>1. MapGrows /\ regmap' # NULL
      BY <1>1, <2>4, ReginitType, StartupAssumptions DEF MapGrows
    <3>2. reg' # NULL => Named' /\ (finis' = 0 => InMap(reg.impl)')
      BY <2>1, <3>1, RegistryKept, Zenon
    <3>3. Colon' # 0
      BY <2>1, <2>4 DEF Colon
    <3>4. QED
      BY <2>4, <3>1, <3>2, <3>3 DEF RegInv
  <2>5. QED
    BY <2>2, <2>3, <2>4
<1>7. CASE Lookup
  <2>1. opt' = opt /\ reg' = reg /\ UNCHANGED <<other, watch, finis, regmap>> /\ MapGrows /\ reached = "lookup"
    BY <1>7 DEF Lookup, args, watching, registries, MapGrows
  <2>2. \/ reached' = "crash" /\ regmap = NULL
        \/ reached' = "failed"
        \/ /\ reached' = "parse" /\ regmap # NULL /\ Scheme \in DOMAIN regmap
           /\ impl' = [scheme |-> Scheme, impl |-> regmap[Scheme]]
    BY <1>7 DEF Lookup, Failed
  <2>3. /\ reg' # NULL => Named' /\ (finis' = 0 => InMap(reg.impl)')
        /\ other' = "add" /\ watch'.pc = "none" => regmap' # NULL
        /\ Colon' # 0 /\ (finis' = 0 => regmap' # NULL)
    <3>1. reg' # NULL => Named' /\ (finis' = 0 => InMap(reg.impl)')
      BY <2>1, RegistryKept, Zenon
    <3>2. QED
      BY <2>1, <3>1 DEF RegInv, Colon
  <2>4. CASE reached' = "crash" /\ regmap = NULL
    BY <1>1, <2>1, <2>3, <2>4 DEF RegInv
  <2>5. CASE reached' = "failed"
    BY <2>3, <2>5 DEF RegInv
  <2>6. CASE /\ reached' = "parse" /\ regmap # NULL /\ Scheme \in DOMAIN regmap
             /\ impl' = [scheme |-> Scheme, impl |-> regmap[Scheme]]
    <3>1. regmap \in Regmaps /\ impl'.impl = regmap[Scheme]
      BY <1>1, <2>6
    <3>2. regmap[Scheme] \in Impl /\ Scheme \in Text
      BY <2>6, <3>1, LookupType
    <3>3. impl' # NULL
      <4>1. impl' \in [scheme : Text, impl : Impl]
        BY <2>6, <3>2, Zenon
      <4>2. QED
        BY <4>1, StartupAssumptions
    <3>4. InMap(impl.impl)'
      BY <2>1, <2>6, <3>1 DEF InMap, Scheme, Colon
    <3>5. QED
      BY <2>3, <2>6, <3>3, <3>4 DEF RegInv
  <2>7. QED
    BY <2>2, <2>4, <2>5, <2>6
<1>8. CASE ParseUrl
  <2>1. opt' = opt /\ UNCHANGED <<other, watch, finis, regmap>> /\ MapGrows /\ reached = "parse"
    BY <1>8 DEF ParseUrl, args, watching, registries, MapGrows
  <2>2. CASE reg' = reg /\ reached' = "crash" /\ regmap = NULL
    <3>1. reg' # NULL => Named' /\ (finis' = 0 => InMap(reg.impl)')
      BY <2>1, <2>2, RegistryKept, Zenon
    <3>2. QED
      BY <1>1, <2>1, <2>2, <3>1 DEF RegInv
  <2>3. CASE reg' = reg /\ reached' = "failed"
    BY <1>1, <2>1, <2>3, RegKept DEF RegInv
  <2>4. CASE reached' = "ping"
    <3>1. Named'
      BY <1>8, <2>4, NamedUrl
    <3>2. reg'.impl = impl.impl
      BY <1>8, <2>4, ParsedUrl
    <3>3. finis' = 0 => InMap(reg.impl)'
      BY <2>1, <3>2, MapUsed, Zenon DEF RegInv
    <3>4. QED
      BY <2>1, <2>4, <3>1, <3>3 DEF RegInv
  <2>5. QED
    BY <1>8, <2>2, <2>3, <2>4 DEF ParseUrl, Failed
<1>9. CASE PingRegistry
  <2>1. /\ opt' = opt /\ finis' = finis /\ MapGrows /\ (reg' = reg \/ reg' = NULL)
        /\ other' = "add" /\ watch'.pc = "none" => regmap' # NULL
        /\ (reached' = reached /\ impl' = impl) \/ reached' \notin {"lookup", "parse", "crash"}
    BY <1>1, <1>9 DEF PingRegistry, Failed, edgex_registry_free, args, levels, registries,
       watching, MapGrows, RegInv
  <2>2. QED
    BY <1>1, <2>1, RegKept, Zenon
<1>10. CASE AddImpl
  <2>1. opt' = opt /\ reg' = reg /\ UNCHANGED <<watch, finis, impl>> /\ watch.pc = "none"
    BY <1>10 DEF AddImpl, args, watching
  <2>2. CASE other = "idle" /\ other' = "add" /\ Reginit /\ UNCHANGED reached
    <3>1. MapGrows /\ regmap' # NULL
      BY <1>1, <2>2, ReginitType, StartupAssumptions DEF MapGrows
    <3>2. QED
      BY <1>1, <2>1, <2>2, <3>1, RegKept
  <2>3. CASE other = "add" /\ other' = "done" /\ regmap # NULL /\ regmap' = Plug(regmap) /\ UNCHANGED reached
    <3>1. MapGrows
      <4>1. regmap' \in Regmaps /\ \A s \in DOMAIN regmap : s \in DOMAIN regmap' /\ regmap'[s] = regmap[s]
        BY <1>1, <2>3, PlugType
      <4>2. QED
        BY <4>1, StartupAssumptions DEF MapGrows
    <3>2. QED
      BY <1>1, <2>1, <2>3, <3>1, RegKept
  <2>4. regmap # NULL \/ other # "add"
    BY <2>1 DEF RegInv
  <2>5. QED
    BY <1>10, <2>2, <2>3, <2>4 DEF AddImpl
<1>11. CASE FreeOther
  <2>1. /\ opt' = opt /\ reg' = reg /\ reached' = reached /\ impl' = impl
        /\ finis' = finis + 1 /\ other' = "done"
    BY <1>11 DEF FreeOther, args
  <2>2. finis' \in Nat /\ finis' # 0
    BY <1>1, <2>1
  <2>3. QED
    BY <1>1, <2>1, <2>2, RegKept
<1>12. CASE GetConfig
  <2>1. /\ opt' = opt /\ finis' = finis /\ MapGrows /\ (reg' = reg \/ reg' = NULL)
        /\ other' = "add" /\ watch'.pc = "none" => regmap' # NULL
        /\ (reached' = reached /\ impl' = impl) \/ reached' \notin {"lookup", "parse", "crash"}
    BY <1>1, <1>12 DEF GetConfig, edgex_registry_free, args, levels, registries, watching,
       MapGrows, RegInv
  <2>2. QED
    BY <1>1, <2>1, RegKept, Zenon
<1>13. CASE LoadFile
  <2>1. /\ opt' = opt /\ finis' = finis /\ MapGrows /\ (reg' = reg \/ reg' = NULL)
        /\ other' = "add" /\ watch'.pc = "none" => regmap' # NULL
        /\ (reached' = reached /\ impl' = impl) \/ reached' \notin {"lookup", "parse", "crash"}
    BY <1>1, <1>13 DEF LoadFile, Failed, edgex_registry_free, args, levels, registries, watching,
       MapGrows, RegInv
  <2>2. QED
    BY <1>1, <2>1, RegKept, Zenon
<1>14. CASE ValidateConfig
  <2>1. /\ opt' = opt /\ finis' = finis /\ MapGrows /\ (reg' = reg \/ reg' = NULL)
        /\ other' = "add" /\ watch'.pc = "none" => regmap' # NULL
        /\ (reached' = reached /\ impl' = impl) \/ reached' \notin {"lookup", "parse", "crash"}
    BY <1>1, <1>14 DEF ValidateConfig, Ended, edgex_registry_free, args, levels, registries,
       watching, MapGrows, RegInv
  <2>2. QED
    BY <1>1, <2>1, RegKept, Zenon
<1>15. CASE PutConfig
  <2>1. /\ opt' = opt /\ finis' = finis /\ MapGrows /\ (reg' = reg \/ reg' = NULL)
        /\ other' = "add" /\ watch'.pc = "none" => regmap' # NULL
        /\ (reached' = reached /\ impl' = impl) \/ reached' \notin {"lookup", "parse", "crash"}
    BY <1>1, <1>15 DEF PutConfig, Ended, edgex_registry_free, args, levels, registries, watching,
       MapGrows, RegInv
  <2>2. QED
    BY <1>1, <2>1, RegKept, Zenon
<1>16. CASE StartServices
  <2>1. /\ opt' = opt /\ finis' = finis /\ MapGrows /\ (reg' = reg \/ reg' = NULL)
        /\ other' = "add" /\ watch'.pc = "none" => regmap' # NULL
        /\ (reached' = reached /\ impl' = impl) \/ reached' \notin {"lookup", "parse", "crash"}
    BY <1>1, <1>16 DEF StartServices, Ended, edgex_registry_free, args, levels, registries,
       watching, MapGrows, RegInv
  <2>2. QED
    BY <1>1, <2>1, RegKept, Zenon
<1>17. CASE edgex_device_service_stop
  <2>1. /\ opt' = opt /\ finis' = finis /\ MapGrows /\ (reg' = reg \/ reg' = NULL)
        /\ other' = "add" /\ watch'.pc = "none" => regmap' # NULL
        /\ (reached' = reached /\ impl' = impl) \/ reached' \notin {"lookup", "parse", "crash"}
    BY <1>1, <1>17 DEF edgex_device_service_stop, args, levels, registries, watching, MapGrows,
       RegInv
  <2>2. QED
    BY <1>1, <2>1, RegKept, Zenon
<1>18. CASE ServiceFree
  <2>1. /\ opt' = opt /\ reg' = reg /\ reached' = "freed"
        /\ finis' = finis + 1 /\ watch'.pc = "done"
    BY <1>1, <1>18 DEF ServiceFree, args
  <2>2. finis' \in Nat /\ finis' # 0
    BY <1>1, <2>1
  <2>3. QED
    BY <1>1, <2>1, <2>2, RegKept
<1>19. CASE PollAsk
  <2>1. /\ opt' = opt /\ finis' = finis /\ MapGrows /\ (reg' = reg \/ reg' = NULL)
        /\ other' = "add" /\ watch'.pc = "none" => regmap' # NULL
        /\ (reached' = reached /\ impl' = impl) \/ reached' \notin {"lookup", "parse", "crash"}
    BY <1>1, <1>19 DEF PollAsk, args, levels, registries, watching, MapGrows, RegInv
  <2>2. QED
    BY <1>1, <2>1, RegKept, Zenon
<1>20. CASE PollAnswer
  <2>1. /\ opt' = opt /\ finis' = finis /\ MapGrows /\ (reg' = reg \/ reg' = NULL)
        /\ other' = "add" /\ watch'.pc = "none" => regmap' # NULL
        /\ (reached' = reached /\ impl' = impl) \/ reached' \notin {"lookup", "parse", "crash"}
    BY <1>1, <1>20 DEF PollAnswer, edgex_check_rsp_hdr, edgex_device_updateConf, SetLevel, args,
       levels, registries, watching, MapGrows, RegInv
  <2>2. QED
    BY <1>1, <2>1, RegKept, Zenon
<1>21. CASE PollEnds
  <2>1. /\ opt' = opt /\ finis' = finis /\ MapGrows /\ (reg' = reg \/ reg' = NULL)
        /\ other' = "add" /\ watch'.pc = "none" => regmap' # NULL
        /\ (reached' = reached /\ impl' = impl) \/ reached' \notin {"lookup", "parse", "crash"}
    BY <1>1, <1>21 DEF PollEnds, args, levels, registries, watching, MapGrows, RegInv
  <2>2. QED
    BY <1>1, <2>1, RegKept, Zenon
<1>22. CASE Change
  <2>1. /\ opt' = opt /\ finis' = finis /\ MapGrows /\ (reg' = reg \/ reg' = NULL)
        /\ other' = "add" /\ watch'.pc = "none" => regmap' # NULL
        /\ (reached' = reached /\ impl' = impl) \/ reached' \notin {"lookup", "parse", "crash"}
    BY <1>1, <1>22 DEF Change, args, levels, registries, watching, MapGrows, RegInv
  <2>2. QED
    BY <1>1, <2>1, RegKept, Zenon
<1>23. ASSUME NEW t \in DOMAIN setting, LevelSet(t) PROVE RegInv'
  <2>1. /\ opt' = opt /\ finis' = finis /\ MapGrows /\ (reg' = reg \/ reg' = NULL)
        /\ other' = "add" /\ watch'.pc = "none" => regmap' # NULL
        /\ (reached' = reached /\ impl' = impl) \/ reached' \notin {"lookup", "parse", "crash"}
    BY <1>1, <1>23 DEF LevelSet, args, levels, registries, watching, MapGrows, RegInv
  <2>2. QED
    BY <1>1, <2>1, RegKept, Zenon
<1>24. CASE UNCHANGED startupVars
  BY <1>24, <1>2 DEF startupVars
<1>25. QED
  BY <1>3, <1>4, <1>5, <1>6, <1>7, <1>8, <1>9, <1>10, <1>11, <1>12, <1>13, <1>14, <1>15, <1>16,
     <1>17, <1>18, <1>19, <1>20, <1>21, <1>22, <1>23, <1>24, Zenon DEF StartupNext

LEMMA ArgStep ==
  ASSUME TypeInv, RegInv, AskedForInv, ArgInv, [StartupNext]_startupVars
  PROVE  ArgInv'
<1>1. CASE user_serial_init
  BY <1>1, ArgOpened
<1>2. CASE ParseArg
  BY <1>2, ArgParsed
<1>3. CASE ServiceNew
  BY <1>3, ArgServed
<1>4. CASE GetRegistry
  BY <1>4, ArgKept DEF GetRegistry, Failed, Early
<1>5. CASE Lookup
  BY <1>5, ArgKept DEF Lookup, Failed, Early
<1>6. CASE ParseUrl
  BY <1>6, ArgKept DEF ParseUrl, Failed, Early
<1>7. CASE PingRegistry
  BY <1>7, ArgKept DEF PingRegistry, Failed, edgex_registry_free, Early
<1>8. CASE AddImpl
  BY <1>8, ArgKept DEF AddImpl, RegInv
<1>9. CASE FreeOther
  BY <1>9, ArgKept DEF FreeOther, Early
<1>10. CASE GetConfig
  BY <1>10, ArgKept DEF GetConfig, edgex_registry_free, Early
<1>11. CASE LoadFile
  BY <1>11, ArgKept DEF LoadFile, Failed, edgex_registry_free, Early
<1>12. CASE ValidateConfig
  BY <1>12, ArgKept DEF ValidateConfig, Ended, edgex_registry_free, Early
<1>13. CASE PutConfig
  BY <1>13, ArgKept DEF PutConfig, Ended, edgex_registry_free, Early
<1>14. CASE StartServices
  BY <1>14, ArgKept DEF StartServices, Ended, edgex_registry_free, Early
<1>15. CASE edgex_device_service_stop
  BY <1>15, ArgKept DEF edgex_device_service_stop, Early
<1>16. CASE ServiceFree
  BY <1>16, ArgKept DEF ServiceFree, edgex_device_freeConfig, Early
<1>17. CASE PollAsk
  BY <1>17, ArgKept DEF PollAsk, Early
<1>18. CASE PollAnswer
  BY <1>18, ArgKept DEF PollAnswer, edgex_check_rsp_hdr, edgex_device_updateConf, Early
<1>19. CASE PollEnds
  BY <1>19, ArgKept DEF PollEnds, Early
<1>20. CASE Change
  BY <1>20, ArgKept DEF Change, Early
<1>21. ASSUME NEW t \in DOMAIN setting, LevelSet(t) PROVE ArgInv'
  BY <1>21, ArgKept DEF LevelSet
<1>22. CASE UNCHANGED startupVars
  BY <1>22, ArgKept DEF startupVars, args
<1>23. QED
  BY <1>1, <1>2, <1>3, <1>4, <1>5, <1>6, <1>7, <1>8, <1>9, <1>10, <1>11, <1>12, <1>13, <1>14,
     <1>15, <1>16, <1>17, <1>18, <1>19, <1>20, <1>21, <1>22, Zenon DEF StartupNext

----------------------------------------------------------------------------
(* The theorems                                                            *)

LEMMA InitInv == StartupInit => IInv
<1> SUFFICES ASSUME StartupInit PROVE IInv
  OBVIOUS
<1>1. opt = Default /\ opt \in [registry : Text \cup {NULL}, name : Text, profile : Text, confdir : Text]
  <2>1. <<"device-random">> \in Text /\ <<>> \in Text
    BY DEF Text, Word
  <2>2. env \in Text \cup {NULL}
    BY StartupAssumptions DEF StartupInit
  <2>3. QED
    BY <2>1, <2>2 DEF StartupInit, Default
<1>2. TypeInv
  <2>0. reached \in Stage
    BY DEF StartupInit, Stage
  <2>1. /\ asked \in CommandLine /\ env \in Environment /\ n \in Nat \ {0}
        /\ regmap = NULL /\ first = NULL /\ impl = NULL /\ reg = NULL
    BY DEF StartupInit
  <2>8. held \subseteq Block /\ other \in {"idle", "add", "done"} /\ finis \in Nat
    BY DEF StartupInit
  <2>9. raced \in BOOLEAN /\ missed \in BOOLEAN
    BY DEF StartupInit
  <2>2. used \in [key : Key \cup {NULL}, file : Key \cup {NULL}, upload : Key \cup {NULL}]
    BY DEF StartupInit
  <2>3. consul \in [keys : SUBSET Key, index : Nat, level : Level \cup {"TRACE", WrongLevel, NULL}]
    BY StartupAssumptions DEF StartupInit, Key
  <2>4. watch \in [pc : {"none", "ask", "wait", "done"}, url : Nat \cup {NULL}, header : Nat \cup {NULL}]
    BY DEF StartupInit
  <2>5. level \in [config : Level \cup {"TRACE"}, logger : Level \cup {"TRACE", "INFO"}]
    BY DEF StartupInit
  <2>6. setting \in [Setter -> Level \cup {NULL}]
    BY DEF StartupInit, Setter
  <2>7. QED
    BY <1>1, <2>0, <2>1, <2>2, <2>3, <2>4, <2>5, <2>6, <2>8, <2>9 DEF TypeInv
<1>3. HeldInv /\ AskedForInv
  BY DEF StartupInit, HeldInv, AskedForInv, Pending
<1>4. UsedInv
  BY DEF StartupInit, UsedInv, NoConfig
<1>5. RegInv
  BY DEF StartupInit, RegInv
<1>6. LevelInv
  BY DEF StartupInit, LevelInv, Silent, Setter
<1>7. WatchInv
  BY StartupAssumptions DEF StartupInit, WatchInv, Seen
<1>8. ArgInv
  <2>1. n = At[0] + 1 /\ 0 \in 0..Len(asked)
    BY <1>2, ArgvPlaces, AskedType DEF StartupInit, Places, TypeInv
  <2>2. \A o \in Option : opt[o] = AskedBy(0, o)
    BY <1>1, AskedNone
  <2>3. QED
    BY <1>1, <2>1, <2>2 DEF StartupInit, ArgInv
<1>9. QED
  BY <1>2, <1>3, <1>4, <1>5, <1>6, <1>7, <1>8 DEF IInv

LEMMA StepInv == IInv /\ [StartupNext]_startupVars => IInv'
BY TypeStep, HeldStep, AskedForStep, UsedStep, RegStep, LevelStep, WatchStep, ArgStep DEF IInv

LEMMA InvImplies == IInv => StartedAsAsked
<1> SUFFICES ASSUME TypeInv, HeldInv, AskedForInv, UsedInv, RegInv, LevelInv, WatchInv, ArgInv
             PROVE  StartedAsAsked
  BY DEF IInv
<1>1. ArgumentsTaken
  <2>1. DOMAIN opt = Option
    BY DEF TypeInv, Option
  <2>2. QED
    BY <2>1 DEF ArgInv, ArgumentsTaken
<1>2. RegistryAsNamed
  BY DEF TypeInv, RegInv, Named, InMap, RegistryAsNamed
<1>3. ConfiguredAsNamed
  <2>1. WellFormed /\ (used.key # NULL \/ used.file # NULL) =>
          opt.name = Asked("name") /\ opt.profile = Asked("profile") /\ opt.confdir = Asked("confdir")
    <3>1. NoConfig.key = NULL /\ NoConfig.file = NULL
      BY DEF NoConfig
    <3>2. QED
      BY <3>1 DEF UsedInv, ArgInv, Option
  <2>2. WellFormed /\ used.key # NULL =>
          used.key = IF Asked("profile") = <<>> THEN <<Asked("name")>> ELSE <<Asked("name"), Asked("profile")>>
    BY <2>1 DEF UsedInv, KeyOf
  <2>3. WellFormed /\ used.file # NULL =>
          used.file = <<Otherwise(Asked("confdir"), <<"res">>), Asked("profile")>>
    BY <2>1 DEF UsedInv, DirOf, Otherwise
  <2>4. reached = "running" /\ opt.registry # NULL /\ used.file # NULL => used.upload # NULL
    BY DEF UsedInv
  <2>5. QED
    BY <2>2, <2>3, <2>4 DEF UsedInv, ConfiguredAsNamed
<1>4. LevelFollows
  BY DEF TypeInv, LevelInv, Silent, LevelFollows
<1>5. ChangesTaken
  <2>1. SUFFICES ASSUME watch.pc = "wait", watch.url = consul.index, ~missed,
                        reached \in {"services", "running"}, consul.level \in Level
                 PROVE  level.config = consul.level
    BY DEF ChangesTaken
  <2>2. used.key # NULL \/ used.upload # NULL
    BY <2>1 DEF AskedForInv, UsedInv
  <2>3. Seen = consul.index
    BY <2>1 DEF WatchInv, Seen
  <2>4. QED
    BY <2>1, <2>2, <2>3 DEF WatchInv
<1>6. NothingLeft
  BY DEF RegInv, HeldInv, Rest, NothingLeft
<1>7. QED
  BY <1>1, <1>2, <1>3, <1>4, <1>5, <1>6 DEF StartedAsAsked

LEMMA Invariant == StartupSpec => []IInv
<1>1. StartupInit => IInv
  BY InitInv
<1>2. IInv /\ [StartupNext]_startupVars => IInv'
  BY StepInv
<1>3. QED
  BY <1>1, <1>2, PTL DEF StartupSpec

(* device-random.c main, registry.c, config.c: for every command line,     *)
(* environment, registry and table of ports, and whatever another thread   *)
(* plugs in, frees or changes in Consul, the service starts with the       *)
(* settings, the registry, the configuration and the log level that were   *)
(* asked for, or not at all.                                               *)
THEOREM StartsAsAsked == StartupSpec => []StartedAsAsked
<1>1. IInv => StartedAsAsked
  BY InvImplies
<1>2. QED
  BY Invariant, <1>1, PTL
=============================================================================
