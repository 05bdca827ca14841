-------------------------- MODULE MCProviderStream --------------------------
(* ProviderStream for TLC: a few answers, each of them cut at every place and
   ended or failed at every point.                                          *)
EXTENDS ProviderStream

Content(s) == [kind |-> "content", text |-> s]
Reasoning == [kind |-> "reasoning"]
Call(i, id, named, name, a) ==
    [kind |-> "call", call |-> [index |-> i, hasId |-> id, named |-> named, name |-> name, args |-> a]]

Call1 == Function \o Parameter \o <<"x">> \o EndOfParameter

Texts ==
    { <<"x">> \o OpenTag \o <<"x">> \o CloseTag \o <<"x">>,
      CloseTag \o OpenTag \o CloseTag \o OpenTag \o <<"<", "x">>,
      <<"<">> \o OpenTag \o <<"<">> \o OpenTag \o CloseTag \o CloseTag \o <<"<">>,
      <<"x">> \o Control \o <<"x">>,
      <<"x">> \o Call1 \o Parameter \o <<"x">> \o EndOfParameter \o <<"x">>,
      Call1 \o Call1,
      <<"o", "x", "x", "x">> \o Function \o <<"x">>,
      OpenTag \o Call1 \o CloseTag \o Call1 }

TaskCalls == << Call(0, TRUE, TRUE, <<"Ta", "sk">>, <<>>), Call(0, FALSE, FALSE, <<>>, <<"{">>),
                Call(1, TRUE, TRUE, <<"Re">>, <<"{">>),
                Call(0, FALSE, TRUE, <<"Ta", "sk">>, <<"a", "}">>),
                Call(1, FALSE, FALSE, <<>>, <<"}">>) >>

Mixed == { << Reasoning, Content(<<"x">>) >> \o TaskCalls \o << Content(<<"x", "<">>), Reasoning >>,
           << Content(<<"x">>), Call(-1, FALSE, FALSE, <<>>, <<"{", "}">>), Content(Call1),
              Reasoning, Call(-1, FALSE, TRUE, <<>>, <<>>), Call(1, FALSE, TRUE, <<"Ta">>, <<>>),
              Call(1, FALSE, TRUE, <<"sk">>, <<"{">>) >> }

\* Every text of up to six symbols made of brackets, tags' names and text.
TagTexts == BoundedSeq({"<", "think>", "/think>", "x"}, 6) \ {<<>>}

\* White space between the parameters of a call.
Spaced == {<<Content(Function \o Parameter \o <<"x">> \o EndOfParameter \o <<" ">>
                     \o Parameter \o <<"x">> \o EndOfParameter)>>}

Answers == {<<Content(t)>> : t \in TagTexts} \union {<<Content(t)>> : t \in Texts} \union Mixed

=============================================================================
