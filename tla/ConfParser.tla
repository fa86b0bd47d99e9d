------------------------------ MODULE ConfParser ------------------------------
(***************************************************************************)
(* naesala/configure/conf_parser.h: options with keys and values, read     *)
(* from a file and set by the client.                                      *)
(*                                                                         *)
(* A line of the file is what load takes it for, once it has trimmed it: a *)
(* blank or a comment ("skip"), an option, an item, or one of the two that *)
(* it throws on, an option without its bracket and a line that has not     *)
(* just one equals sign.  The file may be another one at each load.        *)
(***************************************************************************)
EXTENDS Naturals, Sequences

CONSTANTS Options, NoOption,   \* the options' names, and the empty name
          Keys,
          Texts, Numbers,      \* what items and set's arguments look like, and
                               \* which of it lexical_cast takes for a number
          MaxLines             \* bound: how long a file is

ConfAssumption ==
    NoOption \in Options /\ Numbers \subseteq Texts /\ Numbers # {} /\ MaxLines \in Nat

Lines ==
    {<<"skip">>, <<"badOption">>, <<"badItem">>} \cup {<<"option", o>> : o \in Options}
        \cup {<<"item", k, x>> : k \in Keys, x \in Texts}

Files == UNION {[1..n -> Lines] : n \in 0..MaxLines}

VARIABLES conf,     \* _conf, from pairs of an option and a key to texts
          loaded,   \* _loaded
          var,      \* the variable the client passes to get
          thrown    \* has the last call thrown?

vars == <<conf, loaded, var, thrown>>

Init ==
    /\ conf = <<>>
    /\ loaded = FALSE
    /\ var = CHOOSE x \in Numbers : TRUE
    /\ thrown = FALSE

\* _conf[o][k] = x.
With(c, o, k, x) ==
    [pair \in {<<o, k>>} \cup DOMAIN c |-> IF pair = <<o, k>> THEN x ELSE c[pair]]

-----------------------------------------------------------------------------
\* load.  s holds _conf, cur_option, and whether load has thrown.

\* A defect to catch: an item closes its option.
ItemCloses(s, line) ==
    [s EXCEPT !.conf = With(@, s.option, line[2], line[3]), !.option = NoOption]

Item(s, line) == [s EXCEPT !.conf = With(@, s.option, line[2], line[3])]

ReadLine(s, line) ==
    CASE s.thrown \/ line[1] = "skip" -> s
      [] ~s.thrown /\ line[1] = "option" -> [s EXCEPT !.option = line[2]]
      [] ~s.thrown /\ line[1] = "item" -> Item(s, line)
      [] ~s.thrown /\ line[1] \in {"badOption", "badItem"} -> [s EXCEPT !.thrown = TRUE]

\* s after each line.
Steps(c, lines) ==
    LET s[i \in 0..Len(lines)] ==
            IF i = 0 THEN [conf |-> c, option |-> NoOption, thrown |-> FALSE]
            ELSE ReadLine(s[i - 1], lines[i])
    IN  s

Read(c, lines) == Steps(c, lines)[Len(lines)]

\* What was read before a bad line stays; what was there before the load is
\* never cleared.
Load(lines) ==
    LET s == Read(conf, lines)
    IN  /\ conf' = s.conf
        /\ thrown' = s.thrown
        /\ loaded' = (loaded \/ ~s.thrown)
        /\ UNCHANGED var

\* The file cannot be opened.
LoadNothing ==
    /\ thrown' = TRUE
    /\ UNCHANGED <<conf, loaded, var>>

-----------------------------------------------------------------------------
\* set and get.

Set(o, k, x) ==
    /\ conf' = With(conf, o, k, x)
    /\ thrown' = FALSE
    /\ UNCHANGED <<loaded, var>>

\* lexical_cast makes no text of the value.
SetUnsupported ==
    /\ thrown' = TRUE
    /\ UNCHANGED <<conf, loaded, var>>

\* Can the value be read, as a number if it must be one?
Readable(o, k, number) ==
    /\ <<o, k>> \in DOMAIN conf
    /\ number => conf[<<o, k>>] \in Numbers

Get(o, k, number) ==
    /\ IF Readable(o, k, number) THEN var' = conf[<<o, k>>] ELSE UNCHANGED var
    /\ thrown' = ~Readable(o, k, number)
    /\ UNCHANGED <<conf, loaded>>

GetDefault(o, k, number, default) ==
    /\ var' = IF Readable(o, k, number) THEN conf[<<o, k>>] ELSE default
    /\ thrown' = FALSE
    /\ UNCHANGED <<conf, loaded>>

Next ==
    \/ \E lines \in Files : Load(lines)
    \/ LoadNothing
    \/ SetUnsupported
    \/ \E o \in Options, k \in Keys :
        \/ \E x \in Texts : Set(o, k, x)
        \/ \E number \in BOOLEAN :
            \/ Get(o, k, number)
            \/ \E d \in (IF number THEN Numbers ELSE Texts) : GetDefault(o, k, number, d)

Spec == Init /\ [][Next]_vars

-----------------------------------------------------------------------------
\* Type invariant.
TypeOK ==
    /\ DOMAIN conf \subseteq Options \X Keys
    /\ \A pair \in DOMAIN conf : conf[pair] \in Texts
    /\ loaded \in BOOLEAN /\ var \in Texts /\ thrown \in BOOLEAN

\* The lines before the first bad one.
Good(lines) ==
    LET bad == {i \in DOMAIN lines : lines[i][1] \in {"badOption", "badItem"}}
    IN  {i \in DOMAIN lines : \A j \in bad : i < j}

\* The option line i belongs to: the one named last before it.
OptionOf(lines, i) ==
    LET named == {j \in 1..i : lines[j][1] = "option"}
    IN  IF named = {} THEN NoOption ELSE lines[CHOOSE j \in named : \A h \in named : h <= j][2]

\* The items of a pair of an option and a key.
ItemsOf(lines, pair) ==
    {i \in Good(lines) : lines[i][1] = "item" /\ <<OptionOf(lines, i), lines[i][2]>> = pair}

\* Whatever was there before, load gives each key of each option the value it
\* has last in the lines before the first bad one, and leaves all others as
\* they were (load of conf_parser.h).
LoadReads ==
    \A lines \in Files :
        LET s == Read(conf, lines) IN
        /\ s.thrown <=> Good(lines) # DOMAIN lines
        /\ \A pair \in Options \X Keys :
            LET items == ItemsOf(lines, pair) IN
            IF items = {}
            THEN pair \in DOMAIN s.conf <=> pair \in DOMAIN conf
            ELSE pair \in DOMAIN s.conf
        /\ \A pair \in DOMAIN s.conf :
            LET items == ItemsOf(lines, pair) IN
            s.conf[pair] = IF items = {} THEN conf[pair]
                           ELSE lines[CHOOSE i \in items : \A j \in items : j <= i][3]
=============================================================================
