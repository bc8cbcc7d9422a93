------------------------------- MODULE Config -------------------------------
(***************************************************************************)
(* src/common/config.cpp: an INI file read into configs_, read, changed    *)
(* and loaded again by any thread.  config_mutex_ guards configs_ but not  *)
(* config_file_, nor the reading of the file.                              *)
(*                                                                         *)
(* A line is a record of what parseINI looks at: its first and last        *)
(* character, whether it has a "=", and the name or the key and value in   *)
(* it, all without surrounding blanks.  A name is the sequence of its      *)
(* dot-separated parts, so that "section.key" and a key with a dot in it   *)
(* meet as they do in the code.                                            *)
(***************************************************************************)
EXTENDS Naturals, Sequences, FiniteSets, FiniteSetsExt

CONSTANTS
    Threads,
    Files, NoFile,   \* file names, and the empty name
    Contents,        \* what a file may contain: sequences of lines
    Missing,         \* ... or that it cannot be opened
    Keys, Values,
    Sets,            \* the <<key, value>> pairs given to the setters
    Types,           \* "string" and the types with a conversion
    Convertible,     \* <<type, value>>: the value converts to the type
    MaxCalls,        \* bound on load(), reload() and set calls
    MaxEdits,        \* bound on changes of the files
    NoThread

Line == [first : STRING, last : STRING, eq : BOOLEAN,
         name : Seq(STRING), key : Seq(STRING), value : STRING]

ASSUME ConfigAssumption ==
    /\ NoFile \notin Files
    /\ Contents \subseteq Seq(Line)
    /\ Missing \notin Contents
    /\ Sets \subseteq Keys \X Values
    /\ MaxCalls \in Nat /\ MaxEdits \in Nat
    /\ NoThread \notin Threads

VARIABLES
    configs_, config_file_, config_mutex_,
    pc,            \* where each thread is in load()
    arg,           \* its argument: a name, or "ref" for a reference to config_file_
    buffer,        \* what it read
    lines, section, \* what the owner of the mutex still has to parse
    files,         \* each file's content and how often it was changed (external)
    base,          \* history: the file and version configs_ was parsed from
    current,       \* history: the meaning of base, with the sets since
    result,        \* the last result of getAllConfigs(), hasKey() or a getter
    calls

parsevars == <<lines, section>>
vars == <<configs_, config_file_, config_mutex_, pc, arg, buffer, parsevars,
          files, base, current, result, calls>>

Empty == [k \in {} |-> ""]
Content == Contents \cup {Missing}
Version == [content : Content, number : 0..MaxEdits]
Origin == [file : Files \cup {NoFile}, number : 0..MaxEdits]
Buffer == [content : Content, number : 0..MaxEdits, file : Files \cup {NoFile}]
NoBuffer == [content |-> Missing, number |-> 0, file |-> NoFile]

TypeOK ==
    /\ DOMAIN configs_ \subseteq Keys
    /\ \A k \in DOMAIN configs_ : configs_[k] \in Values
    /\ config_file_ \in Files \cup {NoFile}
    /\ config_mutex_ \in Threads \cup {NoThread}
    /\ pc \in [Threads -> {"idle", "store", "open", "lock", "parse"}]
    /\ arg \in [Threads -> Files \cup {NoFile, "ref"}]
    /\ buffer \in [Threads -> Buffer]
    /\ lines \in Seq(Line)
    /\ files \in [Files -> Version]
    /\ base \in Origin
    /\ calls \in 0..MaxCalls

Init ==
    /\ configs_ = Empty
    /\ config_file_ = NoFile
    /\ config_mutex_ = NoThread
    /\ pc = [t \in Threads |-> "idle"]
    /\ arg = [t \in Threads |-> NoFile]
    /\ buffer = [t \in Threads |-> NoBuffer]
    /\ lines = << >>
    /\ section = << >>
    /\ files \in [Files -> {[content |-> c, number |-> 0] : c \in Content}]
    /\ base = [file |-> NoFile, number |-> 0]
    /\ current = Empty
    /\ result = [op |-> "none"]
    /\ calls = 0

-----------------------------------------------------------------------------
(* What a line is, and what a file means *)

IsSkipped(l) == l.first \in {"none", "#", ";"}
IsSection(l) == ~IsSkipped(l) /\ l.first = "[" /\ l.last = "]"
IsPair(l) == ~IsSkipped(l) /\ ~IsSection(l) /\ l.eq

\* Mutant: a section without a name leaves the key out.
Mut_FullKey(s, k) == IF s = << >> THEN s ELSE s \o k
FullKey(s, k) == IF s = << >> THEN k ELSE s \o k

\* Mutant: insert() or emplace(), which keep the first value of a key.
Mut_Stored(k, v, map) ==
    IF k \in DOMAIN map THEN map
    ELSE [x \in DOMAIN map \cup {k} |-> IF x = k THEN v ELSE map[x]]
\* configs_[k] = v
Stored(k, v, map) == [x \in DOMAIN map \cup {k} |-> IF x = k THEN v ELSE map[x]]
Found(k) == k \in DOMAIN configs_

\* The reference: a pair counts under the nearest section line above it, and
\* among pairs for one key the last.  A comment does not end a section, here as in
\* the code; tests/test_config.cpp:39-41, 58-59 and 102 expect that the comment
\* "# Global settings" does (GlobalAfterComment in MCConfig).
SectionAt(c, i) ==
    LET above == {j \in 1..i : IsSection(c[j])}
    IN  IF above = {} THEN << >> ELSE c[Max(above)].name
KeyAt(c, i) ==
    IF SectionAt(c, i) = << >> THEN c[i].key ELSE SectionAt(c, i) \o c[i].key
Pairs(c, n) == {i \in 1..n : IsPair(c[i])}
MeaningTo(c, n) ==
    [k \in {KeyAt(c, i) : i \in Pairs(c, n)} |->
        c[Max({i \in Pairs(c, n) : KeyAt(c, i) = k})].value]
Meaning(c) == MeaningTo(c, Len(c))

\* Keys and Values are those of the files, and of the setters.
ASSUME ContentAssumption ==
    \A c \in Contents : \A i \in Pairs(c, Len(c)) : KeyAt(c, i) \in Keys /\ c[i].value \in Values

-----------------------------------------------------------------------------
(* load() and reload() *)

Storing(t) == \E u \in Threads \ {t} : pc[u] = "store"

\* Reading config_file_ while another thread assigns it is a race on a string:
\* any name may come out, or one that does not exist.
FileName(t) == IF Storing(t) THEN Files \cup {NoFile} ELSE {config_file_}

Call(t, a) ==
    /\ pc' = [pc EXCEPT ![t] = "store"]
    /\ arg' = [arg EXCEPT ![t] = a]

Counted == calls < MaxCalls /\ calls' = calls + 1

Load(t, f) ==
    /\ pc[t] = "idle"
    /\ Counted
    /\ Call(t, f)
    /\ UNCHANGED <<configs_, config_file_, config_mutex_, buffer, parsevars, files,
                   base, current, result>>

Reload(t) ==
    /\ pc[t] = "idle"
    /\ Counted
    /\ \E name \in FileName(t) :
          IF name = NoFile THEN UNCHANGED <<pc, arg>> ELSE Call(t, "ref")
    /\ UNCHANGED <<configs_, config_file_, config_mutex_, buffer, parsevars, files,
                   base, current, result>>

\* The assignment comes before the file is known to be readable.
LoadStore(t) ==
    /\ pc[t] = "store"
    /\ config_file_' \in IF arg[t] = "ref" \/ Storing(t) THEN FileName(t) ELSE {arg[t]}
    /\ pc' = [pc EXCEPT ![t] = "open"]
    /\ UNCHANGED <<configs_, config_mutex_, arg, buffer, parsevars, files, base,
                   current, result, calls>>

Return(t) ==
    /\ pc' = [pc EXCEPT ![t] = "idle"]
    /\ arg' = [arg EXCEPT ![t] = NoFile]

\* The file is opened and read into a buffer, outside the mutex.
LoadOpen(t) ==
    /\ pc[t] = "open"
    /\ \E name \in IF arg[t] = "ref" THEN FileName(t) ELSE {arg[t]} :
          IF name \in Files => files[name].content = Missing
          THEN Return(t) /\ UNCHANGED buffer
          ELSE /\ buffer' = [buffer EXCEPT ![t] = [content |-> files[name].content,
                                                  number |-> files[name].number,
                                                  file |-> name]]
               /\ pc' = [pc EXCEPT ![t] = "lock"]
               /\ UNCHANGED arg
    /\ UNCHANGED <<configs_, config_file_, config_mutex_, parsevars, files, base,
                   current, result, calls>>

Unlocked == config_mutex_ = NoThread

ParseLock(t) ==
    /\ pc[t] = "lock"
    /\ Unlocked
    /\ config_mutex_' = t
    /\ configs_' = Empty
    /\ lines' = buffer[t].content
    /\ section' = << >>
    /\ pc' = [pc EXCEPT ![t] = "parse"]
    /\ UNCHANGED <<config_file_, arg, buffer, files, base, current, result, calls>>

NextSection(l) == IF IsSection(l) THEN l.name ELSE section

ParseLine(t) ==
    /\ pc[t] = "parse"
    /\ lines # << >>
    /\ LET l == Head(lines)
       IN  /\ section' = NextSection(l)
           /\ configs_' = IF IsPair(l)
                          THEN Stored(FullKey(section, l.key), l.value, configs_)
                          ELSE configs_
    /\ lines' = Tail(lines)
    /\ UNCHANGED <<config_file_, config_mutex_, pc, arg, buffer, files, base, current,
                   result, calls>>

ParseEnd(t) ==
    /\ pc[t] = "parse"
    /\ lines = << >>
    /\ config_mutex_' = NoThread
    /\ section' = << >>
    /\ base' = [file |-> buffer[t].file, number |-> buffer[t].number]
    /\ current' = Meaning(buffer[t].content)
    /\ buffer' = [buffer EXCEPT ![t] = NoBuffer]
    /\ Return(t)
    /\ UNCHANGED <<configs_, config_file_, lines, files, result, calls>>

-----------------------------------------------------------------------------
(* Setters, getters, and the files *)

\* setString, setInt, setDouble and setBool, the value formatted as the file
\* would have it.
SetValue(t, k, v) ==
    /\ pc[t] = "idle"
    /\ Unlocked
    /\ Counted
    /\ configs_' = Stored(k, v, configs_)
    /\ current' = Stored(k, v, current)
    /\ UNCHANGED <<config_file_, config_mutex_, pc, arg, buffer, parsevars, files,
                   base, result>>

\* Mutant: getAllConfigs() does not lock.
Mut_SnapshotMayRead == TRUE
SnapshotMayRead == Unlocked

GetAllConfigs(t) ==
    /\ pc[t] = "idle"
    /\ SnapshotMayRead
    /\ result' = [op |-> "all", map |-> configs_]
    /\ UNCHANGED <<configs_, config_file_, config_mutex_, pc, arg, buffer, parsevars,
                   files, base, current, calls>>

\* Mutant: getValue() does not lock.
Mut_GetMayRead == TRUE
GetMayRead == Unlocked

\* An absent key and an empty value are the same to the typed getters, and a
\* value that does not convert gives the default.
Typed(type, v) == IF v = "" \/ <<type, v>> \notin Convertible THEN "default" ELSE v

Get(t, type, k) ==
    /\ pc[t] = "idle"
    /\ GetMayRead
    /\ result' = [op |-> "get", key |-> k, type |-> type, found |-> Found(k),
                  value |-> Typed(type, IF Found(k) THEN configs_[k] ELSE ""),
                  loaded |-> base.file # NoFile]
    /\ UNCHANGED <<configs_, config_file_, config_mutex_, pc, arg, buffer, parsevars,
                   files, base, current, calls>>

\* Somebody replaces or deletes a file (external).
Edit(f, c) ==
    /\ files[f].content # c
    /\ files[f].number < MaxEdits
    /\ files' = [files EXCEPT ![f] = [content |-> c, number |-> @.number + 1]]
    /\ UNCHANGED <<configs_, config_file_, config_mutex_, pc, arg, buffer, parsevars,
                   base, current, result, calls>>

Next ==
    \/ \E t \in Threads, f \in Files : Load(t, f)
    \/ \E t \in Threads : Reload(t)
    \/ \E t \in Threads : LoadStore(t)
    \/ \E t \in Threads : LoadOpen(t)
    \/ \E t \in Threads : ParseLock(t)
    \/ \E t \in Threads : ParseLine(t)
    \/ \E t \in Threads : ParseEnd(t)
    \/ \E t \in Threads, s \in Sets : SetValue(t, s[1], s[2])
    \/ \E t \in Threads : GetAllConfigs(t)
    \/ \E t \in Threads, type \in Types, k \in Keys : Get(t, type, k)
    \/ \E f \in Files, c \in Content : Edit(f, c)

Spec == Init /\ [][Next]_vars

-----------------------------------------------------------------------------
\* Whenever the mutex is free, configs_ is what the last file parsed means line
\* by line, with the sets made since: concurrent loads do not mix, the parser
\* gives every pair the section it stands in, comments in between or not, and the
\* last of equal keys wins (config.cpp:35-81).
WholeConfig == Unlocked => configs_ = current

\* getAllConfigs() returns a whole configuration, never one that a load has
\* cleared and not yet filled again (config.cpp:164-167).
ReadsWhole ==
    [][result' # result /\ result'.op = "all" => result'.map = current]_vars

\* Keys that every file has with a value that converts, and that no setter is
\* given one that does not.
Steady == {tk \in Types \X Keys :
              /\ \A c \in Contents :
                    /\ tk[2] \in DOMAIN Meaning(c)
                    /\ Typed(tk[1], Meaning(c)[tk[2]]) # "default"
              /\ \A s \in Sets : s[1] = tk[2] => Typed(tk[1], s[2]) # "default"}

\* Once a file has been loaded, a key that is in every version of every file is
\* never reported absent and never falls back to its default while another
\* thread loads (config.cpp:83-141, 159-173).
NoFallback ==
    result.op = "get" =>
        (result.loaded /\ <<result.type, result.key>> \in Steady
            => result.found /\ result.value # "default")

\* The configuration never goes back to an older version of the file it is from
\* (config.h:15, "thread-safe reading and updating").
NoRegress ==
    [][base'.file = base.file => base'.number >= base.number]_vars

\* reload() reads the file the configuration came from (config.h:25, "reload the
\* configuration").
ReloadsLoadedFile ==
    \A t \in Threads :
        pc[t] = "open" /\ arg[t] = "ref" /\ base.file # NoFile => config_file_ = base.file
=============================================================================
