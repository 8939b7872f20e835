------------------------------ MODULE Tokenizer ------------------------------
(***************************************************************************)
(* The tokenizer behind an encoder: the class (src/tokenizer.{hpp,cpp})    *)
(* and the shim it calls across the C boundary (tokenizer/src/lib.rs).  A  *)
(* text is a sequence of units, each a "word" that becomes one token, a    *)
(* "nul" byte or a "bad" sequence of bytes that is not UTF-8.              *)
(***************************************************************************)
EXTENDS Integers, Sequences

Units == {"word", "nul", "bad"}
Ids == {"cls", "sep", "pad", "word"}

\* The null pointer: no handle truncates to nothing.
NoHandle == [adds |-> FALSE, max_length |-> 0, pads |-> FALSE]

\* What a tokenizer.json may be: accepted by the library or not, adding [CLS] and
\* [SEP] or not, asking for padding or not.
Definitions == [accepted : BOOLEAN, adds : BOOLEAN, pads : BOOLEAN]

Handle(json, max_length, pads) == [adds |-> json.adds, max_length |-> max_length, pads |-> pads]

\* Mutant: the padding strategy of the definition stays.
MutKeepsPadding(json, max_length) ==
  IF json.accepted /\ max_length # 0 THEN Handle(json, max_length, json.pads) ELSE NoHandle

\* cyborgdb_tokenizer_new: truncation is set and any padding strategy is cleared.
New(json, max_length) ==
  IF json.accepted /\ max_length # 0 THEN Handle(json, max_length, FALSE) ELSE NoHandle

\* Tokenizer::load yields a tokenizer.
Loads(json, max_tokens) == New(json, max_tokens) # NoHandle

\* The special tokens before the text, and behind it.
Special(h) == IF h.adds THEN 1 ELSE 0

\* How many units of a text go in: truncation leaves room for the special tokens.
Kept(h, text) ==
  IF Len(text) + 2 * Special(h) <= h.max_length THEN Len(text) ELSE h.max_length - 2 * Special(h)

\* Encoding to which the library pads for a fixed strategy.
Padded(h, size) == IF h.pads THEN h.max_length ELSE size

\* The ids of a text.
Encoding(h, text) ==
  LET size == Kept(h, text) + 2 * Special(h) IN
  [k \in 1..Padded(h, size) |->
     IF k > size THEN "pad"
     ELSE IF h.adds /\ k = 1 THEN "cls"
     ELSE IF h.adds /\ k = size THEN "sep"
     ELSE text[k - Special(h)]]

\* The part of a std::string that c_str() shows a callee which looks for its end.
CString(text) ==
  LET ends == {k \in 1..Len(text) : text[k] = "nul"}
  IN  IF ends = {} THEN text
      ELSE SubSeq(text, 1, (CHOOSE k \in ends : \A l \in ends : k <= l) - 1)

IsUtf8(text) == \A k \in 1..Len(text) : text[k] # "bad"

\* cyborgdb_tokenizer_encode: 0 and the ids, 1 if they do not fit, -1 on an error.
ShimEncode(h, text, capacity) ==
  LET source == Encoding(h, CString(text)) IN
  IF ~IsUtf8(CString(text)) THEN [rc |-> -1, ids |-> << >>]
  ELSE IF Len(source) > capacity THEN [rc |-> 1, ids |-> << >>]
  ELSE [rc |-> 0, ids |-> source]

\* Tokenizer::encode: the prefix goes before the text, and the buffer is as long as
\* the truncated encoding may be.
EncodeText(h, prefix, text) == ShimEncode(h, prefix \o text, h.max_length)
=============================================================================
