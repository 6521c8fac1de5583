---------------------------- MODULE MCKnowledge ----------------------------
EXTENDS KnowledgeBase

T(n, blank, says) == [len |-> n, blank |-> blank, says |-> says]
D(source, t) == [source |-> source, text |-> t]

MCNoText == T(0, {}, "")

\* Texts around the chunk size, one with blanks at the ends of its chunks, one
\* with a chunk of nothing but blanks, and a corpus with an empty text.
MCCorpora ==
    { <<D("a", T(3, {}, "old"))>>, <<D("a", T(4, {}, "new"))>>,
      <<D("a", T(7, {2, 5}, "old")), D("b", T(2, {}, "old"))>>,
      <<D("a", T(7, {2, 3, 4}, "old"))>>,
      <<D("a", T(2, {}, "old")), D("b", T(0, {}, "old"))>> }

MCBodies == {T(0, {}, ""), T(2, {}, "old"), T(2, {}, "new")}
MCFallbackModels == <<"nano", "", "super", "nano">>
=============================================================================
