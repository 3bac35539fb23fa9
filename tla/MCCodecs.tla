------------------------------ MODULE MCCodecs ------------------------------
(* What a request and its answer are made of, over small domains: the list   *)
(* requests of ListRequests (two lists and two threads for the cache; for    *)
(* the pages a std::size_t of three bits, cursors of every value and beyond, *)
(* and page sizes from none to the largest), the messages and event streams  *)
(* of WireFormats (an int64_t of three bits and every integer that it, or    *)
(* its unsigned sibling, has; six frames), and the algorithm of UriTemplate, *)
(* one case in a behaviour.  A behaviour is one of them (`subject`).         *)
EXTENDS ListRequests, WireFormats, UriTemplate

CONSTANTS tools, prompts, t1, t2,
          MaxTemplate  \* bound: characters of a template

VARIABLES subject, case

MCLists == {tools, prompts}
MCThreads == {t1, t2}
AllSizes == {0, 1, 2, SizeLimit - 1}
AllNumbers == -1..SizeLimit

AllInts == (-IdLimit)..(2 * IdLimit - 1)

NoCase == [of |-> "none"]

Init ==
  /\ ListsInit /\ WireInit /\ case = NoCase
  /\ \/ subject = "lists" /\ format = "messages" /\ mode = "get"
     \/ /\ subject = "wire"
        /\ half = "pages" /\ ~paginates /\ request = [t \in MCThreads |-> tools]
     \/ /\ subject = "uri" /\ format = "messages" /\ mode = "get"
        /\ half = "pages" /\ ~paginates /\ request = [t \in MCThreads |-> tools]

Choose(c) == case' = c /\ UNCHANGED <<subject, listvars, wirevars>>

Template ==
  \E tpl \in SeqOf({"a", "b", "+", "/", "{", "}"}, MaxTemplate) :
    Choose([of |-> "template", tpl |-> tpl])

\* Templates of two variables and literals, and values for them.
Values == SeqOf(Word, 2) \ {<<>>}
Filling ==
  \E pre \in {<<>>, <<"a", "/">>}, between \in {<<>>, <<"/">>, <<"a">>, <<"/", "b">>},
     second \in {<<"a">>, <<"b">>, <<"b", "+">>}, v \in Values, w \in Values :
    Choose([of |-> "filling",
            tpl |-> pre \o <<"{", "a", "}">> \o between \o <<"{">> \o second \o <<"}">>,
            values |-> <<v, w>>])

Next ==
  \/ subject = "lists" /\ ListsNext /\ UNCHANGED <<subject, wirevars, case>>
  \/ subject = "wire" /\ WireNext /\ UNCHANGED <<subject, listvars, case>>
  \/ subject = "uri" /\ case = NoCase /\ (Template \/ Filling)

Spec == Init /\ [][Next]_<<subject, listvars, wirevars, case>>

-----------------------------------------------------------------------------
\* The captures of uri_template_to_regex and the names handle_resources_read
\* takes from the template are those of the template's expressions, and a
\* template's handler gets the values the URI was made with.
TemplatesOK ==
  /\ case.of = "template" => CapturesAlign(case.tpl)
  /\ case.of = "filling" => ValuesComeBack(case.tpl, case.values)

=============================================================================
