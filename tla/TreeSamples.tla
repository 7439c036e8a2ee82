---------------------------- MODULE TreeSamples ----------------------------
(***************************************************************************)
(* Small documents for TreeQuality: sections cut at ordinals, at the marks  *)
(* of the fallbacks, at tables, and documents without a hierarchy.          *)
(***************************************************************************)
EXTENDS Verdict

Frag(kind, val, len, harm) == [kind |-> kind, val |-> val, len |-> len, harm |-> harm]
Clean(kind, len) == Frag(kind, 0, len, "clean")

Prose == Clean("prose", 3)
Gap == Clean("blank", 1)
Ordinal(v) == Frag("ord", v, 2, "clean")
Legal == {Ordinal(v) : v \in 1 .. 3} \cup {Frag("roman", 2, 2, "clean"), Prose}
Marked == {Frag("num", v, 2, "clean") : v \in 1 .. 3}
            \cup {Clean("head", 2), Clean("para", 2), Clean("leader", 2), Gap, Prose}
Tabular == {Clean("row", 2), Clean("single", 2), Clean("sep", 2), Gap, Clean("pad", 2), Prose}
Loose == {Frag("prose", 0, 3, "noise"), Frag("prose", 0, 1, "mark"), Clean("image", 2), Clean("figure", 3),
          Frag("figure", 0, 3, "mark"),
          Frag("num", 1, 2, "clean"), Clean("row", 2), Clean("sep", 2), Gap, Prose}

\* Tables that go on in tables of their own, or look as if they did.
Figures == Frag("row", 1, 2, "clean")
TableOf(head, rows) == <<head, Clean("sep", 2)>> \o [k \in 1 .. rows |-> Clean("row", 2 + k)]
Paginated ==
  {TableOf(first, m) \o between \o TableOf(second, n) \o after :
     first \in {Clean("row", 2), Figures}, second \in {Clean("single", 2), Figures},
     m \in 0 .. 2, n \in 0 .. 2, between \in {<<Gap>>, <<Prose>>},
     after \in {<< >>, <<Prose>>, <<Gap>> \o TableOf(Figures, 1), <<Gap>> \o TableOf(Figures, 2)}}

Node(level, title, text, page) ==
  [level |-> level, title |-> title, text |-> text, page |-> page]

\* A section of one long leaf beside a short one.
Section(text) == <<Node(1, 1, << >>, 1), Node(2, 2, text, 1), Node(2, 1, <<Prose, Prose>>, 2)>>
\* A document that is one node, and one whose second part starts before the first.
Alone(text) == <<Node(1, 0, text, 1)>>
Backward(text) == <<Node(1, 1, << >>, 1), Node(2, 2, text, 2), Node(2, 1, <<Prose>>, 1)>>

Texts(kinds, n) == UNION {[1 .. k -> kinds] : k \in 0 .. n}

Plain == [pages |-> NoPages, script |-> "Latn", reversed |-> FALSE, presForms |-> FALSE,
          orientation |-> "portrait", pictures |-> NoPictures, inspector |-> "none"]
Known == {Plain,
          [Plain EXCEPT !.orientation = "landscape", !.inspector = "text_based"],
          [Plain EXCEPT !.pages = 2, !.script = "Arab", !.presForms = TRUE]}
Pictured == {Plain, [Plain EXCEPT !.pictures = 40], [Plain EXCEPT !.pictures = 80],
             [Plain EXCEPT !.reversed = TRUE], [Plain EXCEPT !.pages = 6]}

All(docs, known) == [doc : docs, facts : known]
SampleCases ==
  All({Section(t) : t \in Texts(Legal, 5)}, {Plain})
    \cup All({Section(t) : t \in Texts(Marked, 4)}, {Plain})
    \cup All({Section(t) : t \in Texts(Tabular, 4)}, Known)
    \cup All({Alone(t) : t \in Texts(Loose, 4) \cup Paginated}, {Plain})
    \cup All({Alone(t) : t \in Texts(Loose, 3)} \cup {Section(t) : t \in Texts(Loose, 2)}
               \cup {Backward(t) : t \in Texts(Loose, 2)}, Pictured)
=============================================================================
