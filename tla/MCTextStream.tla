----------------------------- MODULE MCTextStream -----------------------------
EXTENDS TextStream

MCEos == <<"eos">>
MCDelimiter == <<"<", "/", ">">>

\* Tokens that hold whole characters, a part of one, or the end of one and the
\* beginning of the next (the last two).
MCVocabulary == {<<"C1">>, <<"C2">>, <<"C1", "C2">>, <<"L1">>, <<"L2">>, <<" ", "L1">>,
                 <<"a", " ">>, <<"<">>, <<"<", "/">>, <<"/", ">">>, <<">", "a">>, <<"\n">>,
                 <<"C2", "L1">>, <<"L2", "C1">>}
===============================================================================
