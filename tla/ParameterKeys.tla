--------------------------- MODULE ParameterKeys ---------------------------
(* Names of parameters, configurations and metadata as keys of documents    *)
(* (utilities/parameter_key_escaper.py), and the paths by which a request   *)
(* names them in an update (bll/task/hyperparams.py).  A name is a sequence *)
(* of characters; "2E" stands for the two characters in the code of the     *)
(* dot, and one of Operators for a whole name that the mapper takes for an  *)
(* operator.  The mapper, mongoengine, is external.                         *)
EXTENDS Naturals, Sequences

CONSTANT Operators \* names like size, in or type

VARIABLE named \* what a request names: a section and a parameter

-----------------------------------------------------------------------------
\* str.replace: from the left, without overlaps.
WithReplaced(s, old, new) ==
  LET IsAt(i) == i + Len(old) <= Len(s) + 1 /\ SubSeq(s, i, i + Len(old) - 1) = old
      from[i \in 1..(Len(s) + 1)] ==
        IF i > Len(s) THEN <<>>
        ELSE IF IsAt(i) THEN new \o from[i + Len(old)] ELSE <<s[i]>> \o from[i + 1]
  IN  from[1]

StartsWith(s, prefix) == Len(s) >= Len(prefix) /\ SubSeq(s, 1, Len(prefix)) = prefix

\* Mutant of Escaped: the percent signs are doubled last.
PercentLast(s) ==
  LET key == WithReplaced(WithReplaced(WithReplaced(s, <<".">>, <<"%", "2E">>), <<"_", "_">>, <<"%", "_", "%", "_">>),
                          <<"%">>, <<"%", "%">>)
  IN  IF StartsWith(key, <<"_">>) THEN <<"%">> \o key ELSE key

\* escape
Escaped(s) ==
  LET key == WithReplaced(WithReplaced(WithReplaced(s, <<"%">>, <<"%", "%">>), <<".">>, <<"%", "2E">>),
                      <<"_", "_">>, <<"%", "_", "%", "_">>)
  IN  IF StartsWith(key, <<"_">>) THEN <<"%">> \o key ELSE key

\* unescape: the mark stands where the key is split and joined.
Unescaped(key) ==
  LET parts == WithReplaced(key, <<"%", "%">>, <<"mark">>)
      plain == WithReplaced(WithReplaced(parts, <<"%", "2E">>, <<".">>), <<"%", "_", "%", "_">>, <<"_", "_">>)
      s     == WithReplaced(plain, <<"mark">>, <<"%">>)
  IN  IF StartsWith(s, <<"%", "_">>) THEN Tail(s) ELSE s

-----------------------------------------------------------------------------
Between == <<"_", "_">> \* what separates the steps of a path

\* mongoengine_safe
Safe(key) == IF Len(key) = 1 /\ key[1] \in Operators THEN key \o Between ELSE key

\* edit_params and delete_params write the path of a parameter differently.
EditPath(section, name) == Escaped(section) \o Between \o Safe(Escaped(name))
DeletePath(section, name) == Escaped(section) \o Between \o Escaped(name)

\* How the mapper reads a path: an operator at the end is none of its steps, and nothing
\* at the end keeps an operator from being one.
Steps(path) ==
  LET marked == WithReplaced(path, Between, <<"mark">>)
      ends   == {0, Len(marked) + 1} \cup {i \in DOMAIN marked : marked[i] = "mark"}
      next(i) == CHOOSE j \in ends : j > i /\ \A k \in ends : k > i => j <= k
      step(i) == SubSeq(marked, i + 1, next(i) - 1)
      from[i \in ends] == IF i = Len(marked) + 1 THEN <<>> ELSE <<step(i)>> \o from[next(i)]
  IN  from[0]
Addressed(path) ==
  LET steps == Steps(path)
      last  == steps[Len(steps)]
  IN  IF Len(last) = 1 /\ last[1] \in Operators THEN SubSeq(steps, 1, Len(steps) - 1)
      ELSE IF last = <<>> THEN SubSeq(steps, 1, Len(steps) - 1) ELSE steps

-----------------------------------------------------------------------------
(* Reference: the names that go astray.                                    *)

\* Three underscores, of which two are taken for a separator.
Odd(s) ==
  \E i, j \in DOMAIN s :
    /\ j >= i + 2 /\ (j - i) % 2 = 0 /\ \A k \in i..j : s[k] = "_"
    /\ (i > 1 => s[i - 1] # "_") /\ (j < Len(s) => s[j + 1] # "_")

\* Different names have different keys, and a key gives its name back, unless this begins
\* with %_; a request reaches the parameter that it names and no other, unless a name has
\* an odd number of underscores, three or more, in a row, the section ends with one, or a
\* parameter with the name of an operator is deleted: then the whole section goes.
KeysReachTheirParameters ==
  LET section == named[1]
      name    == named[2]
      exact   == <<Escaped(section), Escaped(name)>>
      plain   == ~Odd(section) /\ ~Odd(name) /\ section[Len(section)] # "_"
  IN  /\ Escaped(section) = Escaped(name) => section = name
      /\ Unescaped(Escaped(name)) = name <=> ~StartsWith(name, <<"%", "_">>)
      /\ Addressed(EditPath(section, name)) = exact <=> plain
      /\ Addressed(DeletePath(section, name)) = exact <=> plain /\ name \notin {<<o>> : o \in Operators}
      /\ name \in {<<o>> : o \in Operators} /\ plain =>
           Addressed(DeletePath(section, name)) = <<Escaped(section)>>
=============================================================================
