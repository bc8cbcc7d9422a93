---------------------------- MODULE ConfigProofs ----------------------------
(***************************************************************************)
(* The parser, the mutex and the getters of Config, for any threads, files *)
(* and contents, any number of calls and any changes of the files.         *)
(***************************************************************************)
EXTENDS Config, SequenceTheorems, TLAPS

USE DEF parsevars

-----------------------------------------------------------------------------
(* The inductive invariant, in parts *)

\* config_mutex_ is held by the thread that parses, and by no other.
Owned ==
    /\ \A t \in Threads : pc[t] = "parse" <=> config_mutex_ = t
    /\ \A t \in Threads : pc[t] \in {"lock", "parse"} => buffer[t].content \in Contents
                                                         /\ buffer[t].file \in Files

\* How many lines of what it read thread t has parsed.
Done(t) == Len(buffer[t].content) - Len(lines)

\* The state of the parser is the meaning of the lines it has read.
Parsed ==
    \A t \in Threads : pc[t] = "parse" =>
        /\ Len(lines) <= Len(buffer[t].content)
        /\ \A i \in 1..Len(lines) : lines[i] = buffer[t].content[Done(t) + i]
        /\ section = SectionAt(buffer[t].content, Done(t))
        /\ configs_ = MeaningTo(buffer[t].content, Done(t))

IInv == TypeOK /\ Owned /\ Parsed /\ WholeConfig

\* Once a file is loaded, every steady key is in the configuration, with a value
\* that converts.
SteadyKept ==
    base.file # NoFile =>
        \A tk \in Steady : /\ tk[2] \in DOMAIN current
                           /\ Typed(tk[1], current[tk[2]]) # "default"

-----------------------------------------------------------------------------
(* What a file means, line by line *)

\* The last of the indices is their maximum.
LEMMA MaxIs ==
    ASSUME NEW S \in SUBSET Nat, NEW m \in S, \A y \in S : m >= y
    PROVE  Max(S) = m
<1>1. \E x \in S : \A y \in S : x >= y
  OBVIOUS
<1>2. Max(S) \in S /\ \A y \in S : Max(S) >= y
  BY <1>1 DEF Max
<1>3. Max(S) >= m /\ m >= Max(S) /\ Max(S) \in Nat /\ m \in Nat
  BY <1>2
<1> QED
  BY <1>3

\* A section line names the section of what follows it; any other line stands in
\* the section of the line before.
LEMMA SectionNext ==
    ASSUME NEW c, NEW p \in Nat
    PROVE  SectionAt(c, p + 1) = IF IsSection(c[p + 1]) THEN c[p + 1].name ELSE SectionAt(c, p)
<1> DEFINE above(i) == {j \in 1..i : IsSection(c[j])}
<1>1. CASE IsSection(c[p + 1])
  <2>1. above(p + 1) \in SUBSET Nat /\ p + 1 \in above(p + 1) /\ \A y \in above(p + 1) : p + 1 >= y
    BY <1>1
  <2>2. Max(above(p + 1)) = p + 1
    BY <2>1, MaxIs
  <2> HIDE DEF above
  <2>3. SectionAt(c, p + 1) = IF above(p + 1) = {} THEN << >> ELSE c[Max(above(p + 1))].name
    BY Zenon DEF SectionAt, above
  <2> QED
    BY <1>1, <2>1, <2>2, <2>3
<1>2. CASE ~IsSection(c[p + 1])
  <2>1. above(p + 1) = above(p)
    <3>1. 1..(p + 1) = (1..p) \cup {p + 1}
      OBVIOUS
    <3> QED
      BY <1>2, <3>1
  <2> HIDE DEF above
  <2>2. \A i : SectionAt(c, i) = IF above(i) = {} THEN << >> ELSE c[Max(above(i))].name
    BY Zenon DEF SectionAt, above
  <2> QED
    BY <1>2, <2>1, <2>2
<1> QED
  BY <1>1, <1>2

\* One more line: a pair is stored under its section, over what was there; any
\* other line means nothing by itself.
LEMMA MeaningNext ==
    ASSUME NEW c, NEW p \in Nat
    PROVE  MeaningTo(c, p + 1) = IF IsPair(c[p + 1])
                                 THEN Stored(KeyAt(c, p + 1), c[p + 1].value, MeaningTo(c, p))
                                 ELSE MeaningTo(c, p)
<1> DEFINE at(n, k) == {i \in Pairs(c, n) : KeyAt(c, i) = k}
           dom(n) == {KeyAt(c, i) : i \in Pairs(c, n)}
<1>0. 1..(p + 1) = (1..p) \cup {p + 1} /\ p + 1 \notin 1..p
  OBVIOUS
<1>1. CASE ~IsPair(c[p + 1])
  <2>1. Pairs(c, p + 1) = Pairs(c, p)
    BY <1>0, <1>1 DEF Pairs
  <2> QED
    BY <1>1, <2>1, Zenon DEF MeaningTo
<1>2. CASE IsPair(c[p + 1])
  <2>1. Pairs(c, p + 1) = Pairs(c, p) \cup {p + 1}
    BY <1>0, <1>2 DEF Pairs
  <2>2. dom(p + 1) = dom(p) \cup {KeyAt(c, p + 1)}
    BY <2>1
  <2>3. Max(at(p + 1, KeyAt(c, p + 1))) = p + 1
    <3>1. Pairs(c, p + 1) \subseteq 1..(p + 1)
      BY DEF Pairs
    <3> DEFINE S == at(p + 1, KeyAt(c, p + 1))
    <3>2. S \in SUBSET Nat /\ p + 1 \in S /\ \A y \in S : p + 1 >= y
      BY <2>1, <3>1
    <3> HIDE DEF S
    <3>3. Max(S) = p + 1
      BY <3>2, MaxIs
    <3> QED
      BY <3>3 DEF S
  <2>4. \A k : k # KeyAt(c, p + 1) => at(p + 1, k) = at(p, k)
    BY <2>1
  <2>5. /\ MeaningTo(c, p) = [k \in dom(p) |-> c[Max(at(p, k))].value]
        /\ MeaningTo(c, p + 1) = [k \in dom(p + 1) |-> c[Max(at(p + 1, k))].value]
    BY Zenon DEF MeaningTo
  <2> HIDE DEF at, dom
  <2>6. Stored(KeyAt(c, p + 1), c[p + 1].value, MeaningTo(c, p)) =
           [k \in dom(p + 1) |-> IF k = KeyAt(c, p + 1) THEN c[p + 1].value
                                 ELSE MeaningTo(c, p)[k]]
    BY <2>2, <2>5 DEF Stored
  <2>7. \A k \in dom(p + 1) :
           c[Max(at(p + 1, k))].value = IF k = KeyAt(c, p + 1) THEN c[p + 1].value
                                        ELSE MeaningTo(c, p)[k]
    BY <2>2, <2>3, <2>4, <2>5
  <2> QED
    BY <1>2, <2>5, <2>6, <2>7
<1> QED
  BY <1>1, <1>2

\* Before the first line nothing is configured and there is no section.
LEMMA MeaningOfNothing ==
    ASSUME NEW c PROVE MeaningTo(c, 0) = Empty /\ SectionAt(c, 0) = << >>
<1>1. 1..0 = {}
  OBVIOUS
<1>2. Pairs(c, 0) = {}
  BY <1>1 DEF Pairs
<1>3. SectionAt(c, 0) = << >>
  BY <1>1 DEF SectionAt
<1>4. MeaningTo(c, 0) = Empty
  BY <1>2 DEF MeaningTo, Empty
<1> QED
  BY <1>3, <1>4

-----------------------------------------------------------------------------
(* One step of the parser *)

\* The line a thread parses next, and what it finds.
LEMMA ParseFacts ==
    ASSUME IInv, NEW t \in Threads, ParseLine(t), NEW c, c = buffer[t].content,
           NEW p, p = Done(t)
    PROVE  /\ c \in Contents /\ c \in Seq(Line)
           /\ p \in Nat /\ p + 1 \in 1..Len(c)
           /\ Done(t)' = p + 1
           /\ Head(lines) = c[p + 1]
           /\ Len(lines') <= Len(c)
           /\ \A i \in 1..Len(lines') : lines'[i] = c[p + 1 + i]
           /\ section' = SectionAt(c, p + 1)
           /\ configs_' = MeaningTo(c, p + 1)
<1> USE ConfigAssumption
<1>1. /\ lines # << >> /\ lines' = Tail(lines) /\ lines \in Seq(Line)
      /\ pc[t] = "parse" /\ UNCHANGED buffer
  BY DEF ParseLine, IInv, TypeOK
<1>2. c \in Contents /\ c \in Seq(Line) /\ Len(c) \in Nat
  BY <1>1 DEF IInv, Owned
<1>3. /\ Len(lines) <= Len(c)
      /\ \A i \in 1..Len(lines) : lines[i] = c[p + i]
      /\ section = SectionAt(c, p)
      /\ configs_ = MeaningTo(c, p)
  BY <1>1 DEF IInv, Parsed
<1>4. /\ Len(lines) \in Nat /\ Len(lines) >= 1 /\ Len(lines') = Len(lines) - 1
      /\ Head(lines) = lines[1]
      /\ \A i \in 1..Len(lines') : lines'[i] = lines[i + 1]
  BY <1>1
<1>5. p \in Nat /\ p + 1 \in 1..Len(c) /\ Done(t)' = p + 1
  BY <1>1, <1>2, <1>3, <1>4 DEF Done
<1>6. Head(lines) = c[p + 1]
  BY <1>3, <1>4
<1>7. \A i \in 1..Len(lines') : lines'[i] = c[p + 1 + i]
  <2> TAKE i \in 1..Len(lines')
  <2>1. i + 1 \in 1..Len(lines) /\ lines'[i] = lines[i + 1]
    BY <1>4
  <2>2. p + (i + 1) = p + 1 + i
    BY <1>5
  <2> QED
    BY <1>3, <2>1, <2>2
<1>8. section' = SectionAt(c, p + 1)
  <2>1. section' = IF IsSection(c[p + 1]) THEN c[p + 1].name ELSE section
    BY <1>6 DEF ParseLine, NextSection
  <2>2. SectionAt(c, p + 1) = IF IsSection(c[p + 1]) THEN c[p + 1].name ELSE SectionAt(c, p)
    BY <1>5, SectionNext
  <2> QED
    BY <1>3, <2>1, <2>2
<1>9. configs_' = MeaningTo(c, p + 1)
  <2>1. ASSUME IsPair(c[p + 1]) PROVE FullKey(section, c[p + 1].key) = KeyAt(c, p + 1)
    <3>1. SectionAt(c, p + 1) = section
      BY <1>3, <1>5, <2>1, SectionNext DEF IsPair
    <3> QED
      BY <3>1 DEF FullKey, KeyAt
  <2>2. configs_' = IF IsPair(c[p + 1])
                    THEN Stored(FullKey(section, c[p + 1].key), c[p + 1].value, configs_)
                    ELSE configs_
    BY <1>6 DEF ParseLine
  <2>3. MeaningTo(c, p + 1) = IF IsPair(c[p + 1])
                              THEN Stored(KeyAt(c, p + 1), c[p + 1].value, MeaningTo(c, p))
                              ELSE MeaningTo(c, p)
    BY <1>5, MeaningNext
  <2> QED
    BY <1>3, <2>1, <2>2, <2>3
<1> QED
  BY <1>2, <1>3, <1>4, <1>5, <1>6, <1>7, <1>8, <1>9

-----------------------------------------------------------------------------
(* The parts of the invariant, one by one *)

\* A stored value adds its key and changes no other.
LEMMA StoredIs ==
    ASSUME NEW k \in Keys, NEW v \in Values, NEW map,
           DOMAIN map \subseteq Keys, \A x \in DOMAIN map : map[x] \in Values
    PROVE  /\ DOMAIN Stored(k, v, map) \subseteq Keys
           /\ \A x \in DOMAIN Stored(k, v, map) : Stored(k, v, map)[x] \in Values
BY DEF Stored

\* What Call and Return do to pc and arg.
LEMMA CallTypes ==
    ASSUME TypeOK, NEW t \in Threads
    PROVE  /\ \A a \in Files \cup {"ref"} : Call(t, a) =>
                 /\ pc' \in [Threads -> {"idle", "store", "open", "lock", "parse"}]
                 /\ arg' \in [Threads -> Files \cup {NoFile, "ref"}]
           /\ Return(t) =>
                 /\ pc' \in [Threads -> {"idle", "store", "open", "lock", "parse"}]
                 /\ arg' \in [Threads -> Files \cup {NoFile, "ref"}]
BY DEF TypeOK, Call, Return

\* Every step keeps the types.
LEMMA TypeStep == ASSUME IInv, Next PROVE TypeOK'
<1> USE ConfigAssumption
<1>0. TypeOK
  BY DEF IInv
<1>1. ASSUME NEW t \in Threads, NEW f \in Files, Load(t, f) PROVE TypeOK'
  BY <1>0, <1>1, CallTypes DEF TypeOK, Load, Counted
<1>2. ASSUME NEW t \in Threads, Reload(t) PROVE TypeOK'
  BY <1>0, <1>2, CallTypes DEF TypeOK, Reload, Counted
<1>3. ASSUME NEW t \in Threads, LoadStore(t) PROVE TypeOK'
  <2>1. config_file_' \in Files \cup {NoFile}
    BY <1>0, <1>3 DEF TypeOK, LoadStore, FileName
  <2> QED
    BY <1>0, <1>3, <2>1 DEF TypeOK, LoadStore
<1>4. ASSUME NEW t \in Threads, LoadOpen(t) PROVE TypeOK'
  <2>1. PICK name : IF name \in Files => files[name].content = Missing
                    THEN Return(t) /\ UNCHANGED buffer
                    ELSE /\ buffer' = [buffer EXCEPT ![t] = [content |-> files[name].content,
                                                            number |-> files[name].number,
                                                            file |-> name]]
                         /\ pc' = [pc EXCEPT ![t] = "lock"]
                         /\ UNCHANGED arg
    BY <1>4 DEF LoadOpen
  <2>2. CASE name \in Files => files[name].content = Missing
    BY <1>0, <1>4, <2>1, <2>2, CallTypes DEF TypeOK, LoadOpen
  <2>3. CASE ~(name \in Files => files[name].content = Missing)
    <3>1. files[name] \in Version
      BY <1>0, <2>3 DEF TypeOK
    <3>2. [content |-> files[name].content, number |-> files[name].number, file |-> name] \in Buffer
      BY <2>3, <3>1 DEF Version, Buffer
    <3>3. buffer' \in [Threads -> Buffer]
      BY <1>0, <2>1, <2>3, <3>2 DEF TypeOK
    <3> QED
      BY <1>0, <1>4, <2>1, <2>3, <3>3 DEF TypeOK, LoadOpen
  <2> QED
    BY <2>2, <2>3
<1>5. ASSUME NEW t \in Threads, ParseLock(t) PROVE TypeOK'
  <2>1. lines' \in Seq(Line)
    BY <1>5 DEF ParseLock, IInv, Owned
  <2> QED
    BY <1>0, <1>5, <2>1 DEF TypeOK, ParseLock, Empty
<1>6. ASSUME NEW t \in Threads, ParseLine(t) PROVE TypeOK'
  <2>1. lines' \in Seq(Line)
    BY <1>0, <1>6 DEF TypeOK, ParseLine
  <2>2. PICK c, p : c = buffer[t].content /\ p = Done(t)
    OBVIOUS
  <2>3. /\ c \in Contents /\ p + 1 \in 1..Len(c) /\ p \in Nat
        /\ configs_' = MeaningTo(c, p + 1)
    BY <1>6, <2>2, ParseFacts
  <2>4. configs_ = MeaningTo(c, p)
    BY <1>6, <2>2 DEF ParseLine, IInv, Parsed
  <2>5. CASE IsPair(c[p + 1])
    <3>1. KeyAt(c, p + 1) \in Keys /\ c[p + 1].value \in Values
      BY <2>3, <2>5, ContentAssumption DEF Pairs
    <3>2. configs_' = Stored(KeyAt(c, p + 1), c[p + 1].value, configs_)
      BY <2>3, <2>4, <2>5, MeaningNext
    <3>3. DOMAIN configs_' \subseteq Keys /\ \A x \in DOMAIN configs_' : configs_'[x] \in Values
      BY <1>0, <3>1, <3>2, StoredIs DEF TypeOK
    <3> QED
      BY <1>0, <1>6, <2>1, <3>3 DEF TypeOK, ParseLine
  <2>6. CASE ~IsPair(c[p + 1])
    <3>1. configs_' = configs_
      BY <2>3, <2>4, <2>6, MeaningNext
    <3> QED
      BY <1>0, <1>6, <2>1, <3>1 DEF TypeOK, ParseLine
  <2> QED
    BY <2>5, <2>6
<1>7. ASSUME NEW t \in Threads, ParseEnd(t) PROVE TypeOK'
  <2>1. buffer[t] \in Buffer
    BY <1>0 DEF TypeOK
  <2>2. base' \in Origin
    BY <1>7, <2>1 DEF ParseEnd, Buffer, Origin
  <2>3. buffer' \in [Threads -> Buffer]
    <3>1. NoBuffer \in Buffer
      BY DEF NoBuffer, Buffer, Content
    <3> QED
      BY <1>0, <1>7, <3>1 DEF TypeOK, ParseEnd
  <2> QED
    BY <1>0, <1>7, <2>2, <2>3, CallTypes DEF TypeOK, ParseEnd
<1>8. ASSUME NEW t \in Threads, NEW s \in Sets, SetValue(t, s[1], s[2]) PROVE TypeOK'
  <2>1. s[1] \in Keys /\ s[2] \in Values
    OBVIOUS
  <2>2. DOMAIN configs_' \subseteq Keys /\ \A x \in DOMAIN configs_' : configs_'[x] \in Values
    BY <1>0, <1>8, <2>1, StoredIs DEF TypeOK, SetValue
  <2> QED
    BY <1>0, <1>8, <2>2 DEF TypeOK, SetValue, Counted
<1>9. ASSUME NEW t \in Threads,
             GetAllConfigs(t) \/ \E type \in Types, k \in Keys : Get(t, type, k)
      PROVE  TypeOK'
  BY <1>0, <1>9 DEF TypeOK, GetAllConfigs, Get
<1>10. ASSUME NEW f \in Files, NEW c \in Content, Edit(f, c) PROVE TypeOK'
  <2>1. files[f] \in Version
    BY <1>0 DEF TypeOK
  <2>2. [content |-> c, number |-> files[f].number + 1] \in Version
    BY <1>10, <2>1 DEF Edit, Version
  <2>3. files' \in [Files -> Version]
    BY <1>0, <1>10, <2>2 DEF Edit, TypeOK
  <2> QED
    BY <1>0, <1>10, <2>3 DEF TypeOK, Edit
<1> QED
  BY <1>1, <1>2, <1>3, <1>4, <1>5, <1>6, <1>7, <1>8, <1>9, <1>10 DEF Next

\* The steps outside parseINI and the setters leave the parser, the mutex and the
\* configuration alone.
LEMMA OutsideStep ==
    ASSUME TypeOK,
           \/ \E t \in Threads, f \in Files : Load(t, f)
           \/ \E t \in Threads : Reload(t) \/ LoadStore(t) \/ LoadOpen(t)
           \/ \E t \in Threads : GetAllConfigs(t)
           \/ \E t \in Threads, type \in Types, k \in Keys : Get(t, type, k)
           \/ \E f \in Files, c \in Content : Edit(f, c)
    PROVE  /\ UNCHANGED <<configs_, config_mutex_, lines, section, current, base>>
           /\ \A u \in Threads : /\ pc'[u] = "parse" <=> pc[u] = "parse"
                                 /\ pc[u] = "parse" => buffer'[u] = buffer[u]
                                 /\ pc'[u] = "lock" =>
                                       \/ pc[u] = "lock" /\ buffer'[u] = buffer[u]
                                       \/ buffer'[u].content \in Contents /\ buffer'[u].file \in Files
<1> DEFINE Kept == \A u \in Threads :
              /\ pc'[u] = "parse" <=> pc[u] = "parse"
              /\ pc[u] = "parse" => buffer'[u] = buffer[u]
              /\ pc'[u] = "lock" =>
                    \/ pc[u] = "lock" /\ buffer'[u] = buffer[u]
                    \/ buffer'[u].content \in Contents /\ buffer'[u].file \in Files
<1>1. UNCHANGED <<configs_, config_mutex_, lines, section, current, base>>
  BY DEF Load, Reload, LoadStore, LoadOpen, GetAllConfigs, Get, Edit
<1>2. DOMAIN pc = Threads /\ DOMAIN buffer = Threads
  BY DEF TypeOK
<1>3. ASSUME NEW t \in Threads, NEW f \in Files, Load(t, f) PROVE Kept
  BY <1>2, <1>3 DEF Load, Call
<1>4. ASSUME NEW t \in Threads, Reload(t) PROVE Kept
  <2>1. UNCHANGED buffer /\ pc[t] = "idle" /\ (pc' = pc \/ pc' = [pc EXCEPT ![t] = "store"])
    BY <1>4 DEF Reload, Call
  <2> QED
    BY <1>2, <2>1
<1>5. ASSUME NEW t \in Threads, LoadStore(t) PROVE Kept
  BY <1>2, <1>5 DEF LoadStore
<1>6. ASSUME NEW t \in Threads, LoadOpen(t) PROVE Kept
  <2>1. PICK name : IF name \in Files => files[name].content = Missing
                    THEN Return(t) /\ UNCHANGED buffer
                    ELSE /\ buffer' = [buffer EXCEPT ![t] = [content |-> files[name].content,
                                                            number |-> files[name].number,
                                                            file |-> name]]
                         /\ pc' = [pc EXCEPT ![t] = "lock"]
                         /\ UNCHANGED arg
    BY <1>6 DEF LoadOpen
  <2>2. pc[t] = "open"
    BY <1>6 DEF LoadOpen
  <2>3. CASE name \in Files => files[name].content = Missing
    BY <1>2, <2>1, <2>2, <2>3 DEF Return
  <2>4. CASE ~(name \in Files => files[name].content = Missing)
    <3>1. files[name] \in Version
      BY <2>4 DEF TypeOK
    <3>2. files[name].content \in Contents
      BY <2>4, <3>1 DEF Version, Content
    <3> QED
      BY <1>2, <2>1, <2>2, <2>4, <3>2
  <2> QED
    BY <2>3, <2>4
<1>7. ASSUME NEW t \in Threads,
             GetAllConfigs(t) \/ \E type \in Types, k \in Keys : Get(t, type, k)
      PROVE  Kept
  BY <1>7 DEF GetAllConfigs, Get
<1>8. ASSUME NEW f \in Files, NEW c \in Content, Edit(f, c) PROVE Kept
  BY <1>8 DEF Edit
<1>9. Kept
  BY <1>3, <1>4, <1>5, <1>6, <1>7, <1>8
<1> QED
  BY <1>1, <1>9

\* The mutex keeps all parsers but one out, and that one sees the file to its end
\* (config.cpp:35-81).
LEMMA ParserStep == ASSUME IInv, Next PROVE Owned' /\ Parsed' /\ WholeConfig'
<1> USE ConfigAssumption
<1>0. TypeOK /\ Owned /\ Parsed /\ WholeConfig
  BY DEF IInv
<1>1. DOMAIN pc = Threads /\ DOMAIN buffer = Threads
      /\ config_mutex_ \in Threads \cup {NoThread}
  BY <1>0 DEF TypeOK
<1>2. CASE \/ \E t \in Threads, f \in Files : Load(t, f)
           \/ \E t \in Threads : Reload(t) \/ LoadStore(t) \/ LoadOpen(t)
           \/ \E t \in Threads : GetAllConfigs(t)
           \/ \E t \in Threads, type \in Types, k \in Keys : Get(t, type, k)
           \/ \E f \in Files, c \in Content : Edit(f, c)
  <2>1. /\ UNCHANGED <<configs_, config_mutex_, lines, section, current>>
        /\ \A u \in Threads : /\ pc'[u] = "parse" <=> pc[u] = "parse"
                              /\ pc[u] = "parse" => buffer'[u] = buffer[u]
                              /\ pc'[u] = "lock" =>
                                    \/ pc[u] = "lock" /\ buffer'[u] = buffer[u]
                                    \/ buffer'[u].content \in Contents /\ buffer'[u].file \in Files
    BY <1>0, <1>2, OutsideStep
  <2>2. Owned'
    BY <1>0, <2>1 DEF Owned
  <2>3. Parsed'
    BY <1>0, <2>1 DEF Parsed, Done
  <2>4. WholeConfig'
    BY <1>0, <2>1 DEF WholeConfig, Unlocked
  <2> QED
    BY <2>2, <2>3, <2>4
<1>3. ASSUME NEW t \in Threads, ParseLock(t) PROVE Owned' /\ Parsed' /\ WholeConfig'
  <2>1. /\ pc[t] = "lock" /\ config_mutex_ = NoThread /\ config_mutex_' = t
        /\ configs_' = Empty /\ lines' = buffer[t].content /\ section' = << >>
        /\ \A u \in Threads : pc'[u] = IF u = t THEN "parse" ELSE pc[u]
        /\ UNCHANGED buffer
    BY <1>1, <1>3 DEF ParseLock, Unlocked
  <2>2. \A u \in Threads : pc[u] # "parse"
    BY <1>0, <2>1 DEF Owned
  <2>3. Owned'
    BY <1>0, <2>1, <2>2 DEF Owned
  <2>4. buffer[t].content \in Seq(Line)
    BY <1>0, <2>1 DEF Owned
  <2>5. Len(buffer[t].content) \in Nat /\ Done(t)' = 0
    BY <2>1, <2>4 DEF Done
  <2>6. Parsed'
    <3>1. \A u \in Threads : pc'[u] = "parse" => u = t
      BY <2>1, <2>2
    <3>2. \A i \in 1..Len(lines') : lines'[i] = buffer[t].content[0 + i]
      BY <2>1, <2>5
    <3>3. /\ section' = SectionAt(buffer[t].content, 0)
          /\ configs_' = MeaningTo(buffer[t].content, 0)
      BY <2>1, MeaningOfNothing
    <3>4. Len(lines') <= Len(buffer[t].content)
      BY <2>1, <2>5
    <3> QED
      BY <2>1, <2>5, <3>1, <3>2, <3>3, <3>4 DEF Parsed
  <2>7. WholeConfig'
    BY <2>1 DEF WholeConfig, Unlocked
  <2> QED
    BY <2>3, <2>6, <2>7
<1>4. ASSUME NEW t \in Threads, ParseLine(t) PROVE Owned' /\ Parsed' /\ WholeConfig'
  <2>1. pc[t] = "parse" /\ UNCHANGED <<config_mutex_, pc, buffer>>
    BY <1>4 DEF ParseLine
  <2>2. config_mutex_ = t /\ \A u \in Threads : pc[u] = "parse" => u = t
    BY <1>0, <2>1 DEF Owned
  <2>3. Owned'
    BY <1>0, <2>1 DEF Owned
  <2>4. PICK c, p : c = buffer[t].content /\ p = Done(t)
    OBVIOUS
  <2>5. /\ Done(t)' = p + 1
        /\ Len(lines') <= Len(c)
        /\ \A i \in 1..Len(lines') : lines'[i] = c[p + 1 + i]
        /\ section' = SectionAt(c, p + 1)
        /\ configs_' = MeaningTo(c, p + 1)
    BY <1>4, <2>4, ParseFacts
  <2>6. Parsed'
    BY <2>1, <2>2, <2>4, <2>5 DEF Parsed
  <2>7. WholeConfig'
    BY <2>1, <2>2 DEF WholeConfig, Unlocked
  <2> QED
    BY <2>3, <2>6, <2>7
<1>5. ASSUME NEW t \in Threads, ParseEnd(t) PROVE Owned' /\ Parsed' /\ WholeConfig'
  <2>1. /\ pc[t] = "parse" /\ lines = << >> /\ config_mutex_' = NoThread
        /\ current' = Meaning(buffer[t].content) /\ UNCHANGED configs_
        /\ \A u \in Threads : pc'[u] = IF u = t THEN "idle" ELSE pc[u]
        /\ \A u \in Threads \ {t} : buffer'[u] = buffer[u]
    BY <1>1, <1>5 DEF ParseEnd, Return
  <2>2. \A u \in Threads : pc[u] = "parse" => u = t
    BY <1>0, <2>1 DEF Owned
  <2>3. Owned'
    BY <1>0, <2>1, <2>2 DEF Owned
  <2>4. Parsed'
    BY <2>1, <2>2 DEF Parsed
  <2>5. configs_ = Meaning(buffer[t].content)
    <3>1. Len(buffer[t].content) \in Nat
      <4>1. buffer[t].content \in Seq(Line)
        BY <1>0, <2>1 DEF Owned
      <4> QED
        BY <4>1
    <3>2. Done(t) = Len(buffer[t].content)
      BY <2>1, <3>1 DEF Done
    <3> QED
      BY <1>0, <2>1, <3>2 DEF Parsed, Meaning
  <2>6. WholeConfig'
    BY <2>1, <2>5 DEF WholeConfig
  <2> QED
    BY <2>3, <2>4, <2>6
<1>6. ASSUME NEW t \in Threads, NEW s \in Sets, SetValue(t, s[1], s[2])
      PROVE  Owned' /\ Parsed' /\ WholeConfig'
  <2>1. /\ config_mutex_ = NoThread /\ UNCHANGED <<config_mutex_, pc, buffer>>
        /\ configs_' = Stored(s[1], s[2], configs_) /\ current' = Stored(s[1], s[2], current)
    BY <1>6 DEF SetValue, Unlocked
  <2>2. \A u \in Threads : pc[u] # "parse"
    BY <1>0, <2>1 DEF Owned
  <2>3. Owned' /\ Parsed'
    BY <1>0, <2>1, <2>2 DEF Owned, Parsed
  <2>4. WholeConfig'
    BY <1>0, <2>1 DEF WholeConfig, Unlocked
  <2> QED
    BY <2>3, <2>4
<1> QED
  BY <1>2, <1>3, <1>4, <1>5, <1>6 DEF Next

-----------------------------------------------------------------------------
(* The theorems *)

\* Nothing is configured at the start.
LEMMA InitInvariant == Init => IInv
<1> SUFFICES ASSUME Init PROVE IInv
  OBVIOUS
<1> USE ConfigAssumption
<1>1. TypeOK
  <2>1. NoBuffer \in Buffer
    BY DEF NoBuffer, Buffer, Content
  <2>2. \A c \in Content : [content |-> c, number |-> 0] \in Version
    BY DEF Version
  <2>3. files \in [Files -> Version]
    BY <2>2 DEF Init
  <2>4. base \in Origin
    BY DEF Init, Origin
  <2>5. buffer \in [Threads -> Buffer]
    BY <2>1 DEF Init
  <2> QED
    BY <2>3, <2>4, <2>5 DEF Init, TypeOK, Empty
<1>2. Owned /\ Parsed /\ WholeConfig
  BY DEF Init, Owned, Parsed, WholeConfig
<1> QED
  BY <1>1, <1>2 DEF IInv

\* Every step keeps the invariant.
LEMMA NextInvariant == IInv /\ [Next]_vars => IInv'
<1>1. ASSUME IInv, Next PROVE IInv'
  BY <1>1, TypeStep, ParserStep DEF IInv
<1>2. ASSUME IInv, UNCHANGED vars PROVE IInv'
  BY <1>2 DEF IInv, vars, TypeOK, Owned, Parsed, Done, WholeConfig, Unlocked
<1> QED
  BY <1>1, <1>2

\* IInv is an invariant of Config.
THEOREM Invariance == Spec => []IInv
BY InitInvariant, NextInvariant, PTL DEF Spec

\* Every variable keeps its type; the keys and values in configs_ are those of
\* the files and of the setters (config.cpp:35-81, 143-157).
THEOREM TypeCorrect == Spec => []TypeOK
<1>1. IInv => TypeOK
  BY DEF IInv
<1> QED
  BY <1>1, Invariance, PTL

\* Whatever threads load, reload and set, and however the files change under
\* them, the configuration outside the mutex is the meaning of one version of one
\* file, with the sets since: the line by line parser agrees with the reference
\* on every file (config.cpp:35-81).  The reference is the code's: a section lasts
\* over comments, other than tests/test_config.cpp:39-41 and 58 expect.
THEOREM ConfigIsWhole == Spec => []WholeConfig
<1>1. IInv => WholeConfig
  BY DEF IInv
<1> QED
  BY <1>1, Invariance, PTL

\* getAllConfigs() copies a whole configuration (config.cpp:164-167).
THEOREM SnapshotIsWhole == Spec => ReadsWhole
<1>1. ASSUME IInv, [Next]_vars
      PROVE  [result' # result /\ result'.op = "all" => result'.map = current]_vars
  <2> SUFFICES ASSUME Next, result' # result, result'.op = "all"
               PROVE  result'.map = current
    BY <1>1
  <2>1. PICK t \in Threads : GetAllConfigs(t) \/ \E type \in Types, k \in Keys : Get(t, type, k)
    BY DEF Next, Load, Reload, LoadStore, LoadOpen, ParseLock, ParseLine, ParseEnd,
           SetValue, Edit
  <2>2. ASSUME NEW type, NEW k, Get(t, type, k) PROVE FALSE
    BY <2>2 DEF Get
  <2>3. result'.map = configs_ /\ Unlocked
    BY <2>1, <2>2 DEF GetAllConfigs, SnapshotMayRead
  <2> QED
    BY <1>1, <2>3 DEF IInv, WholeConfig
<1> QED
  BY <1>1, Invariance, PTL DEF Spec, ReadsWhole

-----------------------------------------------------------------------------
(* The getters *)

Steadiness == IInv /\ SteadyKept /\ NoFallback

\* A load brings all steady keys back, and a set does not take one away.
LEMMA SteadyStep == ASSUME Steadiness, Next PROVE SteadyKept'
<1>0. IInv /\ SteadyKept
  BY DEF Steadiness
<1>1. CASE UNCHANGED <<base, current>>
  BY <1>0, <1>1 DEF SteadyKept
<1>2. ASSUME NEW t \in Threads, ParseEnd(t) PROVE SteadyKept'
  <2>1. current' = Meaning(buffer[t].content) /\ pc[t] = "parse"
    BY <1>2 DEF ParseEnd
  <2>2. buffer[t].content \in Contents
    BY <1>0, <2>1 DEF IInv, Owned
  <2> QED
    BY <2>1, <2>2 DEF SteadyKept, Steady
<1>3. ASSUME NEW t \in Threads, NEW s \in Sets, SetValue(t, s[1], s[2]) PROVE SteadyKept'
  <2>1. current' = Stored(s[1], s[2], current) /\ UNCHANGED base
    BY <1>3 DEF SetValue
  <2> SUFFICES ASSUME base.file # NoFile, NEW tk \in Steady
               PROVE  tk[2] \in DOMAIN current' /\ Typed(tk[1], current'[tk[2]]) # "default"
    BY <2>1 DEF SteadyKept
  <2>2. tk[2] \in DOMAIN current /\ Typed(tk[1], current[tk[2]]) # "default"
    BY <1>0 DEF SteadyKept
  <2>3. s[1] = tk[2] => Typed(tk[1], s[2]) # "default"
    BY DEF Steady
  <2>4. tk[2] \in DOMAIN current' /\ current'[tk[2]] = IF tk[2] = s[1] THEN s[2] ELSE current[tk[2]]
    BY <2>1, <2>2 DEF Stored
  <2> QED
    BY <2>2, <2>3, <2>4
<1> QED
  BY <1>1, <1>2, <1>3 DEF Next, Load, Reload, LoadStore, LoadOpen, ParseLock, ParseLine,
                          GetAllConfigs, Get, Edit

\* A getter that finds the mutex free sees the configuration with its steady keys.
LEMMA FallbackStep == ASSUME Steadiness, Next PROVE NoFallback'
<1>1. CASE UNCHANGED result
  BY <1>1 DEF Steadiness, NoFallback
<1>2. ASSUME NEW t \in Threads, GetAllConfigs(t) PROVE NoFallback'
  BY <1>2 DEF GetAllConfigs, NoFallback
<1>3. ASSUME NEW t \in Threads, NEW type \in Types, NEW k \in Keys, Get(t, type, k)
      PROVE  NoFallback'
  <2>1. /\ result'.key = k /\ result'.type = type /\ result'.found = Found(k)
        /\ result'.value = Typed(type, IF Found(k) THEN configs_[k] ELSE "")
        /\ result'.loaded = (base.file # NoFile)
        /\ Unlocked
    BY <1>3 DEF Get, GetMayRead
  <2> SUFFICES ASSUME base.file # NoFile, <<type, k>> \in Steady
               PROVE  result'.found /\ result'.value # "default"
    BY <2>1 DEF NoFallback
  <2>2. configs_ = current
    BY <2>1 DEF Steadiness, IInv, WholeConfig
  <2>3. k \in DOMAIN configs_ /\ Typed(type, configs_[k]) # "default"
    BY <2>2 DEF Steadiness, SteadyKept
  <2> QED
    BY <2>1, <2>3 DEF Found
<1> QED
  BY <1>1, <1>2, <1>3 DEF Next, Load, Reload, LoadStore, LoadOpen, ParseLock, ParseLine,
                          ParseEnd, SetValue, Edit

\* A thread that reads while others load and set never finds a steady key absent,
\* nor gets its default in place of a value that converts (config.cpp:83-141,
\* 159-173).
THEOREM GettersDoNotFallBack == Spec => []NoFallback
<1>1. Init => Steadiness
  BY InitInvariant DEF Init, Steadiness, SteadyKept, NoFallback
<1>2. Steadiness /\ [Next]_vars => Steadiness'
  <2>1. ASSUME Steadiness, Next PROVE Steadiness'
    BY <2>1, NextInvariant, SteadyStep, FallbackStep DEF Steadiness
  <2>2. ASSUME Steadiness, UNCHANGED vars PROVE Steadiness'
    <3>1. IInv'
      BY <2>2, NextInvariant DEF Steadiness
    <3>2. SteadyKept' /\ NoFallback'
      BY <2>2 DEF Steadiness, SteadyKept, NoFallback, vars
    <3> QED
      BY <3>1, <3>2 DEF Steadiness
  <2> QED
    BY <2>1, <2>2
<1>3. Steadiness => NoFallback
  BY DEF Steadiness
<1> QED
  BY <1>1, <1>2, <1>3, PTL DEF Spec
=============================================================================
