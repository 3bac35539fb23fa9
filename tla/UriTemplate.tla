---------------------------- MODULE UriTemplate ----------------------------
(***************************************************************************)
(* resources/read by URI template: uri_template_to_regex, the names taken  *)
(* from the template, and what a match hands to the handler.  A template   *)
(* or a URI is a sequence of characters; "a" and "b" stand for letters,    *)
(* "+" for any other character a name does not begin with.                 *)
(***************************************************************************)
EXTENDS Integers, Sequences, SequencesExt

Word == {"a", "b"}
Braces == {"{", "}"}

-----------------------------------------------------------------------------
(* Faulty variants, used only to show that the properties notice them.       *)

\* A variable is whatever follows a brace, the literal before it included.
NamesStepKeeps(st, c) ==
  CASE c = "}" -> [var |-> <<>>, found |-> Append(st.found, st.var)]
    [] OTHER -> [st EXCEPT !.var = Append(@, c)]

-----------------------------------------------------------------------------
\* uri_template_to_regex: literals and captures, in order.
PatternStep(st, c) ==
  CASE c = "{" -> [st EXCEPT !.in = TRUE, !.var = <<>>]
    [] c = "}" -> [st EXCEPT !.in = FALSE,
                     !.parts = IF st.in /\ st.var # <<>>
                               THEN Append(@, <<"capture", st.var>>) ELSE @]
    [] c \notin Braces /\ st.in -> [st EXCEPT !.var = Append(@, c)]
    [] OTHER -> [st EXCEPT !.parts = Append(@, <<"literal", <<c>>>>)]

Pattern(tpl) ==
  FoldLeft(PatternStep, [in |-> FALSE, var |-> <<>>, parts |-> <<>>], tpl).parts

Captures(tpl) ==
  LET c == SelectSeq(Pattern(tpl), LAMBDA p : p[1] = "capture")
  IN  [i \in DOMAIN c |-> c[i][2]]

\* The names, extracted again by handle_resources_read.
NamesStep(st, c) ==
  CASE c = "{" -> [st EXCEPT !.var = <<>>]
    [] c = "}" -> [var |-> <<>>,
                   found |-> IF st.var = <<>> THEN st.found
                             ELSE Append(st.found, st.var)]
    [] c \notin Braces /\ (st.var # <<>> \/ c \in Word) ->
         [st EXCEPT !.var = Append(@, c)]
    [] OTHER -> st

Names(tpl) == FoldLeft(NamesStep, [var |-> <<>>, found |-> <<>>], tpl).found

\* The text a pattern stands for when its captures take the values.
RECURSIVE Filled(_, _)
Filled(parts, values) ==
  IF parts = <<>> THEN <<>>
  ELSE IF Head(parts)[1] = "literal"
       THEN Head(parts)[2] \o Filled(Tail(parts), values)
       ELSE Head(values) \o Filled(Tail(parts), Tail(values))

\* ECMAScript captures are greedy, the first before the others.
Prefers(v, w) ==
  \E i \in DOMAIN v :
    Len(v[i]) > Len(w[i]) /\ \A j \in 1..(i - 1) : Len(v[j]) = Len(w[j])

\* regex_match: every capture takes one or more characters other than "/".
Texts(uri) ==
  {t \in {SubSeq(uri, i, j) : i \in 1..Len(uri), j \in 1..Len(uri)} :
     t # <<>> /\ "/" \notin ToSet(t)}

Matches(tpl, uri) ==
  {v \in [DOMAIN Captures(tpl) -> Texts(uri)] : Filled(Pattern(tpl), v) = uri}

Match(tpl, uri) ==
  CHOOSE v \in Matches(tpl, uri) :
    \A w \in Matches(tpl, uri) \ {v} : Prefers(v, w)

Captured(tpl, uri, i) == Match(tpl, uri)[i]

\* The variables: a later capture replaces an earlier one of the same name.
Variables(tpl, uri) ==
  LET paired == DOMAIN Names(tpl) \cap DOMAIN Captures(tpl)
      last(name) == CHOOSE i \in paired :
        Names(tpl)[i] = name /\ \A j \in paired : Names(tpl)[j] = name => j <= i
  IN  [name \in {Names(tpl)[i] : i \in paired} |-> Captured(tpl, uri, last(name))]

-----------------------------------------------------------------------------
(* Properties of a template, and of a template filled with values *)

\* The expressions of a template as RFC 6570 has them: from a brace to the next.
Expressions(tpl) ==
  LET starts == SelectSeq([i \in DOMAIN tpl |-> i],
        LAMBDA i : tpl[i] = "{" /\ \E j \in (i + 1)..Len(tpl) :
                     tpl[j] = "}" /\ \A k \in (i + 1)..(j - 1) : tpl[k] \notin Braces)
      close(i) == CHOOSE j \in (i + 1)..Len(tpl) :
                    tpl[j] = "}" /\ \A k \in (i + 1)..(j - 1) : tpl[k] \notin Braces
  IN  [n \in DOMAIN starts |->
         SubSeq(tpl, starts[n] + 1, close(starts[n]) - 1)]

\* Braces that pair up, and a name in each that begins with a letter.
WellFormed(tpl) ==
  LET count(c) == Cardinality({i \in DOMAIN tpl : tpl[i] = c})
  IN  /\ count("{") = Len(Expressions(tpl)) /\ count("}") = Len(Expressions(tpl))
      /\ \A n \in DOMAIN Expressions(tpl) :
           Expressions(tpl)[n] # <<>> /\ Expressions(tpl)[n][1] \in Word

\* What the comment "regex captures align" relies on: in a well-formed template
\* the n-th capture and the n-th name come from the n-th expression.
CapturesAlign(tpl) ==
  WellFormed(tpl) => /\ Captures(tpl) = Expressions(tpl)
                     /\ Names(tpl) = Expressions(tpl)

\* No two variables meet and no name is used twice.
Unambiguous(tpl) ==
  /\ \A i \in 1..(Len(tpl) - 1) : tpl[i] = "}" => tpl[i + 1] = "/"
  /\ IsInjective(Expressions(tpl))

\* A handler gets the values that the URI was made with.
ValuesComeBack(tpl, values) ==
  LET uri == Filled(Pattern(tpl), values)
  IN  WellFormed(tpl) /\ Unambiguous(tpl) =>
        Variables(tpl, uri) = [name \in Range(Expressions(tpl)) |->
          values[CHOOSE i \in DOMAIN values : Expressions(tpl)[i] = name]]

=============================================================================
