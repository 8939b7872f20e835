------------------------------ MODULE MCEncode ------------------------------
(* Encode on texts that differ in what the tokenizer and the batches make of *)
(* them: nothing, longer than fits, cut at a NUL, not UTF-8.                 *)
EXTENDS Encode

Words(k) == [j \in 1..k |-> "word"]

MCContents == {<< >>, Words(8), <<"word", "nul", "bad">>, <<"bad">>}
MCDocPrefix == << >>
MCQueryPrefix == Words(2)
=============================================================================
