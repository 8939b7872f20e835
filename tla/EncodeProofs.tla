---------------------------- MODULE EncodeProofs ----------------------------
(***************************************************************************)
(* Proofs about Encode, for any number of texts of any lengths, any budget *)
(* and any dimension.                                                      *)
(***************************************************************************)
EXTENDS Encode, TLAPS, SequenceTheorems, WellFoundedInduction

\* While a call runs the buffer is big enough, and nothing is written before the
\* batches start.
CallInv ==
  /\ out = [i \in Texts |-> out[i]]
  /\ pc # "idle" => ~TooSmall(n, capacity)
  /\ pc = "tokenize" => start = 0 /\ \A i \in Texts : out[i] = Untouched
  /\ batch = [rows |-> batch.rows, width |-> batch.width]
  /\ ~handle.pads

EncodeInv ==
  /\ TypeOK
  /\ TokensRight
  /\ CallInv
  /\ ProgressInv
  /\ RowsRight
  /\ OkMeansComplete
  /\ WritesInBounds
  /\ BatchInBudget

-----------------------------------------------------------------------------
(* The tokenizer                                                           *)

LEMMA LeastOf ==
  ASSUME NEW T, T \subseteq Nat, T # {}
  PROVE  \E k \in T : \A l \in T : k <= l
<1> DEFINE R == OpToRel(<, Nat)
<1>1. IsWellFoundedOn(R, Nat)
  BY NatLessThanWellFounded
<1>2. \A k, l \in Nat : <<k, l>> \in R <=> k < l
  BY DEF OpToRel
<1> HIDE DEF R
<1>3. PICK k \in T : \A l \in T : <<l, k>> \notin R
  BY <1>1, WFMin
<1>4. \A l \in T : ~(l < k)
  BY <1>2, <1>3
<1>5. \A l \in T : k <= l
  BY <1>4
<1> QED
  BY <1>5

\* What c_str() shows is a text without a NUL.
LEMMA CStringCut ==
  ASSUME NEW s \in Seq(Units)
  PROVE  /\ CString(s) \in Seq(Units)
         /\ \A k \in 1..Len(CString(s)) : CString(s)[k] # "nul"
<1> DEFINE ends == {k \in 1..Len(s) : s[k] = "nul"}
           cut == CHOOSE k \in ends : \A l \in ends : k <= l
<1>1. CASE ends = {}
  BY <1>1 DEF CString
<1>2. CASE ends # {}
  <2>1. ends \subseteq Nat
    OBVIOUS
  <2>2. cut \in ends /\ \A l \in ends : cut <= l
    BY <1>2, <2>1, LeastOf
  <2>3. CString(s) = SubSeq(s, 1, cut - 1)
    BY <1>2 DEF CString
  <2> HIDE DEF cut
  <2>4. cut \in 1..Len(s) /\ cut - 1 \in Nat
    BY <2>2
  <2>5. \A k \in 1..cut - 1 : s[k] \in Units /\ s[k] # "nul"
    BY <2>2, <2>4
  <2>6. /\ SubSeq(s, 1, cut - 1) \in Seq(Units)
        /\ Len(SubSeq(s, 1, cut - 1)) = cut - 1
        /\ \A k \in 1..cut - 1 : SubSeq(s, 1, cut - 1)[k] = s[k]
    BY <2>4, <2>5
  <2> QED
    BY <2>3, <2>5, <2>6
<1> QED
  BY <1>1, <1>2

\* The ids of a text fit a buffer of max_length, and are the special ones around as much
\* of the text as fits.
LEMMA EncodingRight ==
  ASSUME NEW h \in Handles, ~h.pads, NEW s \in Seq(Units),
         \A k \in 1..Len(s) : s[k] = "word"
  PROVE  LET e == Encoding(h, s) IN
         /\ e \in Seq(Ids)
         /\ Len(e) <= MaxSeqLength
         /\ Len(e) = MaxSeqLength \/ Len(e) = Len(s) + 2 * Special(h)
         /\ \A k \in 1..Len(e) - 2 * Special(h) : k <= Len(s) /\ e[Special(h) + k] = s[k]
         /\ h.adds => e[1] = "cls" /\ e[Len(e)] = "sep"
<1> DEFINE size == Kept(h, s) + 2 * Special(h)
           e == [k \in 1..size |->
                   IF k > size THEN "pad"
                   ELSE IF h.adds /\ k = 1 THEN "cls"
                   ELSE IF h.adds /\ k = size THEN "sep"
                   ELSE s[k - Special(h)]]
<1>1. Encoding(h, s) = e
  BY DEF Encoding, Padded
<1>2. Special(h) \in {0, 1} /\ (h.adds <=> Special(h) = 1)
  BY DEF Special, Handles
<1>3. h.max_length = MaxSeqLength /\ MaxSeqLength \in Nat /\ MaxSeqLength >= 2 /\ Len(s) \in Nat
  BY EncodeAssumption DEF Handles
<1>4. Kept(h, s) \in Nat /\ Kept(h, s) <= Len(s) /\ size <= MaxSeqLength
  BY <1>2, <1>3 DEF Kept
<1>5. size \in Nat /\ (size = MaxSeqLength \/ size = Len(s) + 2 * Special(h))
  BY <1>2, <1>3, <1>4 DEF Kept
<1>6. \A k \in 1..size : e[k] \in Ids
  BY <1>2, <1>3, <1>4, <1>5 DEF Ids
<1>7. e \in [1..size -> Ids]
  BY <1>6
<1>8. e \in Seq(Ids) /\ Len(e) = size
  BY <1>5, <1>7
<1>9. ASSUME NEW k \in 1..size - 2 * Special(h)
      PROVE  k <= Len(s) /\ e[Special(h) + k] = s[k]
  BY <1>2, <1>3, <1>4, <1>5
<1>10. h.adds => e[1] = "cls" /\ e[size] = "sep"
  BY <1>2, <1>4, <1>5
<1> HIDE DEF e, size
<1> QED
  BY <1>1, <1>4, <1>5, <1>8, <1>9, <1>10

\* A return code of 0 comes with the ids of all the text that the shim was shown.
LEMMA EncodedRight ==
  ASSUME NEW h \in Handles, ~h.pads, NEW before \in Seq(Units), NEW s \in Seq(Units),
         EncodeText(h, before, s).rc = 0
  PROVE  LET ids == EncodeText(h, before, s).ids
             said == CString(before \o s)
         IN  /\ ids \in Seq(Ids)
             /\ Len(ids) <= MaxSeqLength
             /\ Len(ids) = MaxSeqLength \/ Len(ids) = Len(said) + 2 * Special(h)
             /\ \A k \in 1..Len(ids) - 2 * Special(h) : k <= Len(said) /\ ids[Special(h) + k] = said[k]
             /\ h.adds => ids[1] = "cls" /\ ids[Len(ids)] = "sep"
<1> DEFINE said == CString(before \o s)
<1>1. before \o s \in Seq(Units)
  BY ConcatProperties
<1>2. said \in Seq(Units) /\ \A k \in 1..Len(said) : said[k] # "nul"
  BY <1>1, CStringCut
<1>3. IsUtf8(said) /\ EncodeText(h, before, s).ids = Encoding(h, said)
  BY DEF EncodeText, ShimEncode
<1> HIDE DEF said
<1>4. \A k \in 1..Len(said) : said[k] = "word"
  BY <1>2, <1>3 DEF IsUtf8, Units
<1>5. LET e == Encoding(h, said) IN
      /\ e \in Seq(Ids)
      /\ Len(e) <= MaxSeqLength
      /\ Len(e) = MaxSeqLength \/ Len(e) = Len(said) + 2 * Special(h)
      /\ \A k \in 1..Len(e) - 2 * Special(h) : k <= Len(said) /\ e[Special(h) + k] = said[k]
      /\ h.adds => e[1] = "cls" /\ e[Len(e)] = "sep"
  BY <1>2, <1>4, EncodingRight
<1> QED
  BY <1>3, <1>5 DEF said

-----------------------------------------------------------------------------
(* One row                                                                 *)

\* A row that comes out of the graph is never mistaken for one not written.
LEMMA RowWritten ==
  ASSUME mode \in Modes, NEW i, NEW width
  PROVE  Row(i, width).is \in Kinds /\ Row(i, width) # Untouched
<1> DEFINE pooled == Pool(mode, Hidden(i, width), Mask(i, width))
<1>1. pooled.is \in Kinds
  BY DEF Pool, Vector, Modes, Kinds
<1>2. \E k \in Kinds : \E of : pooled = [is |-> k, of |-> of]
  BY DEF Pool, Vector, Modes, Kinds
<1>3. L2Normalize(pooled).is \in Kinds
  BY <1>2 DEF L2Normalize, Kinds
<1>4. Row(i, width).is \in Kinds
  BY <1>1, <1>3 DEF Row
<1>5. Untouched.is \notin Kinds
  BY DEF Untouched, Vector, Kinds
<1> QED
  BY <1>4, <1>5

\* In a batch as wide as the text is long, all of its tokens and no padding go into
\* its row.
LEMMA RowAlone ==
  ASSUME mode \in Modes, NEW i, Size(i) \in Nat, NEW width \in Nat, width >= 1, width >= Size(i),
         Size(i) # 0 \/ mode # "ClsToken"
  PROVE  Row(i, width) = Alone(i)
<1> DEFINE pooled == Pool(mode, Hidden(i, width), Mask(i, width))
<1>1. Mask(i, width) = 0..Size(i) - 1
  BY DEF Mask
<1>2. Size(i) = 0 => Mask(i, width) = {}
  BY <1>1
<1>3. Size(i) # 0 => 0 \in Mask(i, width)
  BY <1>1
<1>4. \A t \in Mask(i, width) : Hidden(i, width)[t] = <<i, t>>
  BY DEF Hidden, Mask
<1>5. CASE mode = "ClsToken"
  <2>1. [t \in {0} |-> Hidden(i, width)[0]] = [t \in {0} |-> <<i, t>>]
    BY <1>3, <1>4, <1>5
  <2>2. pooled = Alone(i)
    BY <1>5, <2>1 DEF Pool, Alone
  <2>3. pooled.is # "-inf"
    BY <1>5 DEF Pool, Vector
  <2> QED
    BY <2>2, <2>3 DEF Row, L2Normalize
<1>6. CASE mode # "ClsToken" /\ Size(i) # 0
  <2>1. [t \in Mask(i, width) |-> Hidden(i, width)[t]] = [t \in 0..Size(i) - 1 |-> <<i, t>>]
    BY <1>1, <1>4
  <2>2. pooled = Vector("finite", [t \in 0..Size(i) - 1 |-> <<i, t>>])
    BY <1>3, <1>6, <2>1 DEF Pool, Modes
  <2>3. pooled = Alone(i)
    BY <1>6, <2>2 DEF Alone
  <2>4. pooled.is # "-inf"
    BY <2>2 DEF Vector
  <2> QED
    BY <2>3, <2>4 DEF Row, L2Normalize
<1>7. CASE mode # "ClsToken" /\ Size(i) = 0
  <2>1. [t \in Mask(i, width) |-> Hidden(i, width)[t]] = << >>
    BY <1>2, <1>7
  <2>2. CASE mode = "MeanTokens"
    <3>1. pooled = Vector("zero", << >>)
      BY <1>2, <1>7, <2>1, <2>2 DEF Pool
    <3>2. pooled = Alone(i)
      BY <1>7, <2>2, <3>1 DEF Alone
    <3>3. pooled.is # "-inf"
      BY <3>1 DEF Vector
    <3> QED
      BY <3>2, <3>3 DEF Row, L2Normalize
  <2>3. CASE mode = "MaxTokens"
    <3>1. pooled = Vector("-inf", << >>)
      BY <1>2, <1>7, <2>1, <2>3 DEF Pool
    <3>2. L2Normalize(pooled) = Vector("nan", << >>)
      BY <3>1 DEF L2Normalize, Vector
    <3>3. Alone(i) = Vector(IF normalize THEN "nan" ELSE "-inf", << >>)
      BY <1>7, <2>3 DEF Alone
    <3> QED
      BY <3>1, <3>2, <3>3 DEF Row
  <2> QED
    BY <1>7, <2>2, <2>3 DEF Modes
<1> QED
  BY <1>5, <1>6, <1>7
-----------------------------------------------------------------------------
(* One batch                                                               *)

\* Sorting gives every text one place.
LEMMA OnePlace ==
  ASSUME TypeOK, Sorted(order), \A i \in 0..n - 1 : Size(i) \in Nat
  PROVE  \A j, k \in 0..n - 1 : order[j] = order[k] => j = k
<1> SUFFICES ASSUME NEW j \in 0..n - 1, NEW k \in 0..n - 1, order[j] = order[k], j # k
             PROVE  FALSE
  OBVIOUS
<1>1. n \in Nat
  BY EncodeAssumption DEF TypeOK
<1>2. order[j] \in 0..n - 1 /\ order[k] \in 0..n - 1
  BY DEF Sorted
<1>3. Size(order[j]) \in Nat /\ Size(order[k]) \in Nat
  BY <1>2
<1>4. j < k \/ k < j
  BY <1>1
<1> QED
  BY <1>1, <1>2, <1>3, <1>4 DEF Sorted

\* What a batch writes: the rows of its places, each right, and nothing else.
LEMMA CopyRows ==
  ASSUME TypeOK, Sorted(order), \A i \in 0..n - 1 : Size(i) \in Nat,
         NEW rows \in 0..kMaxBatchRows, NEW width \in Widths,
         NextBatch(rows, width), Copy(rows, width)
  PROVE  /\ \A k \in start..start + rows - 1 :
              /\ out'[order[k]] # Untouched
              /\ out'[order[k]].is \in Kinds
              /\ Size(order[k]) # 0 \/ mode # "ClsToken" => out'[order[k]] = Alone(order[k])
         /\ \A i \in Texts :
              (\A k \in start..start + rows - 1 : order[k] # i) => out'[i] = out[i]
<1>1. start \in Nat /\ n \in Nat /\ n <= MaxTexts /\ MaxTexts \in Nat /\ rows \in Nat
      /\ start + rows <= n
  BY EncodeAssumption DEF TypeOK, NextBatch
<1>2. width \in Nat /\ width >= 1
  BY EncodeAssumption DEF Widths, NextBatch, IsWidth
<1>3. ASSUME NEW k \in start..start + rows - 1
      PROVE  /\ out'[order[k]] # Untouched
             /\ out'[order[k]].is \in Kinds
             /\ Size(order[k]) # 0 \/ mode # "ClsToken" => out'[order[k]] = Alone(order[k])
  <2>1. k \in 0..n - 1
    BY <1>1
  <2>2. order[k] \in 0..n - 1 /\ order[k] \in Texts
    BY <1>1, <2>1 DEF Sorted, Texts
  <2>3. \E l \in start..start + rows - 1 : Target(l) = order[k]
    BY DEF Target
  <2>4. out'[order[k]] =
          Row(order[CHOOSE l \in start..start + rows - 1 : Target(l) = order[k]], width)
    BY <2>2, <2>3 DEF Copy
  <2>5. order[CHOOSE l \in start..start + rows - 1 : Target(l) = order[k]] = order[k]
    BY <2>3 DEF Target
  <2>6. out'[order[k]] = Row(order[k], width)
    BY <2>4, <2>5
  <2>7. Size(order[k]) \in Nat /\ width >= Size(order[k])
    BY <2>2 DEF NextBatch, IsWidth, Members
  <2>8. mode \in Modes
    BY DEF TypeOK
  <2>9. Row(order[k], width).is \in Kinds /\ Row(order[k], width) # Untouched
    BY <2>8, RowWritten
  <2>10. Size(order[k]) # 0 \/ mode # "ClsToken" => Row(order[k], width) = Alone(order[k])
    BY <1>2, <2>7, <2>8, RowAlone
  <2> QED
    BY <2>6, <2>9, <2>10
<1>4. ASSUME NEW i \in Texts, \A k \in start..start + rows - 1 : order[k] # i
      PROVE  out'[i] = out[i]
  BY <1>4 DEF Copy, Target
<1> QED
  BY <1>3, <1>4

-----------------------------------------------------------------------------
(* Steps                                                                   *)

LEMMA InitEncode == Init => EncodeInv
<1> SUFFICES ASSUME Init PROVE EncodeInv
  OBVIOUS
<1> USE EncodeAssumption DEF Init
<1>0. \E adds \in BOOLEAN : handle = [adds |-> adds, max_length |-> MaxSeqLength, pads |-> FALSE]
  BY DEF Definitions, New, Loads, Handle, NoHandle
<1>1. TypeOK
  <2>1. 0 \in 0..MaxTexts /\ 0 \in 0..0 /\ 0 \in 0..kMaxBatchRows
    OBVIOUS
  <2>2. tokens \in [Texts -> Seq(Ids) \cup {NoTokens}] /\ order \in [Texts -> Texts]
    OBVIOUS
  <2>3. \A i \in Texts : out[i].is \in Kinds \cup {"untouched"}
    BY DEF Untouched, Vector
  <2>4. pc \in {"idle", "tokenize", "run"} /\ status \in Codes
    BY DEF Codes
  <2>5. mode \in Modes /\ normalize \in BOOLEAN
    BY Zenon DEF Init
  <2>6. handle \in Handles /\ prefix \in Seq(Units) /\ text \in [Texts -> Seq(Units)]
    BY <1>0 DEF Handles
  <2> QED
    BY <2>1, <2>2, <2>3, <2>4, <2>5, <2>6 DEF TypeOK, NoBatch
<1>2. CallInv /\ ProgressInv /\ OkMeansComplete /\ BatchInBudget /\ TokensRight
  BY <1>0 DEF CallInv, ProgressInv, OkMeansComplete, BatchInBudget, TokensRight, NoBatch
<1>3. RowsRight /\ WritesInBounds
  BY DEF RowsRight, WritesInBounds
<1> QED
  BY <1>1, <1>2, <1>3 DEF EncodeInv

LEMMA CallStep ==
  ASSUME EncodeInv, NEW texts \in 0..MaxTexts, NEW floats \in Capacities, NEW null \in BOOLEAN,
         NEW before \in Seq(Units), Call(texts, floats, null, before)
  PROVE  EncodeInv'
<1> USE EncodeAssumption DEF EncodeInv, Return
<1>1. TypeOK'
  <2>1. n' \in 0..MaxTexts /\ capacity' \in Nat /\ start' \in 0..n'
    BY DEF Call
  <2>2. tokens' \in [Texts -> Seq(Ids) \cup {NoTokens}] /\ order' \in [Texts -> Texts]
    BY DEF Call
  <2>3. \A i \in Texts : out'[i].is \in Kinds \cup {"untouched"}
    BY DEF Call, Untouched, Vector
  <2>4. pc' \in {"idle", "tokenize", "run"} /\ status' \in Codes
    BY DEF Call, Codes, TypeOK
  <2>5. mode' \in Modes /\ normalize' \in BOOLEAN
    BY Zenon DEF Call, session, TypeOK, EncodeInv
  <2>6. handle' \in Handles /\ prefix' \in Seq(Units) /\ text' \in [Texts -> Seq(Units)]
    BY DEF Call, session, TypeOK
  <2> QED
    BY <2>1, <2>2, <2>3, <2>4, <2>5, <2>6 DEF TypeOK, Call, NoBatch
<1>2. CallInv'
  BY DEF Call, CallInv, TooSmall, NoBatch, session
<1>3. ProgressInv' /\ OkMeansComplete' /\ BatchInBudget' /\ TokensRight'
  BY DEF Call, ProgressInv, OkMeansComplete, BatchInBudget, TokensRight, NoBatch
<1>4. RowsRight' /\ WritesInBounds'
  BY DEF Call, RowsRight, WritesInBounds
<1> QED
  BY <1>1, <1>2, <1>3, <1>4

LEMMA TokenizeStep ==
  ASSUME EncodeInv, Tokenize
  PROVE  EncodeInv'
<1> USE EncodeAssumption DEF EncodeInv, Return
<1>1. PICK i \in 0..n - 1 :
        \/ \E content \in Contents :
             LET r == EncodeText(handle, prefix, content) IN
             /\ r.rc = 0
             /\ text' = [text EXCEPT ![i] = content]
             /\ tokens' = [tokens EXCEPT ![i] = r.ids]
             /\ UNCHANGED <<pc, status>>
        \/ Return("TokenizerFailed") /\ UNCHANGED <<text, tokens>>
  BY DEF Tokenize
<1>2. UNCHANGED <<handle, mode, normalize, n, capacity, prefix, order, start, batch, out>>
  BY DEF Tokenize, session, call
<1>3. pc = "tokenize" /\ pc' \in {"tokenize", "idle"} /\ status' \in Codes
  BY <1>1 DEF Tokenize, TypeOK, Codes
<1>4. /\ text' \in [Texts -> Seq(Units)]
      /\ tokens' \in [Texts -> Seq(Ids) \cup {NoTokens}]
      /\ TokensRight'
  <2>1. CASE Return("TokenizerFailed") /\ UNCHANGED <<text, tokens>>
    BY <1>2, <2>1 DEF TypeOK, TokensRight, Size
  <2>2. ASSUME NEW content \in Contents,
               EncodeText(handle, prefix, content).rc = 0,
               text' = [text EXCEPT ![i] = content],
               tokens' = [tokens EXCEPT ![i] = EncodeText(handle, prefix, content).ids]
        PROVE  <1>4!1 /\ <1>4!2 /\ <1>4!3
    <3> DEFINE ids == EncodeText(handle, prefix, content).ids
    <3>1. handle \in Handles /\ ~handle.pads /\ prefix \in Seq(Units) /\ content \in Seq(Units)
      BY DEF TypeOK, CallInv
    <3>2. LET said == CString(prefix \o content)
          IN  /\ ids \in Seq(Ids)
              /\ Len(ids) <= MaxSeqLength
              /\ Len(ids) = MaxSeqLength \/ Len(ids) = Len(said) + 2 * Special(handle)
              /\ \A k \in 1..Len(ids) - 2 * Special(handle) :
                   k <= Len(said) /\ ids[Special(handle) + k] = said[k]
              /\ handle.adds => ids[1] = "cls" /\ ids[Len(ids)] = "sep"
      BY <2>2, <3>1, EncodedRight
    <3> HIDE DEF ids
    <3>3. text' = [text EXCEPT ![i] = content] /\ tokens' = [tokens EXCEPT ![i] = ids]
      BY <2>2 DEF ids
    <3>4. <1>4!1 /\ <1>4!2
      BY <3>1, <3>2, <3>3 DEF TypeOK
    <3>5. ASSUME NEW j \in Texts, j # i
          PROVE  text'[j] = text[j] /\ tokens'[j] = tokens[j]
      BY <3>3, <3>5 DEF TypeOK
    <3>6. i \in Texts => text'[i] = content /\ tokens'[i] = ids
      BY <3>3 DEF TypeOK
    <3>7. TokensRight'
      <4> SUFFICES ASSUME NEW j \in Texts, tokens'[j] # NoTokens
                   PROVE  LET said == CString(prefix \o text'[j]) IN
                          /\ Len(tokens'[j]) <= MaxSeqLength
                          /\ \/ Len(tokens'[j]) = MaxSeqLength
                             \/ Len(tokens'[j]) = Len(said) + 2 * Special(handle)
                          /\ \A k \in 1..Len(tokens'[j]) - 2 * Special(handle) :
                               k <= Len(said) /\ tokens'[j][Special(handle) + k] = said[k]
                          /\ handle.adds => tokens'[j][1] = "cls" /\ tokens'[j][Len(tokens'[j])] = "sep"
        BY <1>2 DEF TokensRight, Size
      <4>1. CASE j = i
        BY <3>2, <3>6, <4>1
      <4>2. CASE j # i
        BY <3>5, <4>2 DEF TokensRight, Size
      <4> QED
        BY <4>1, <4>2
    <3> QED
      BY <3>4, <3>7
  <2> QED
    BY <1>1, <2>1, <2>2
<1>5. TypeOK'
  BY <1>2, <1>3, <1>4 DEF TypeOK
<1>6. CallInv' /\ ProgressInv' /\ BatchInBudget' /\ WritesInBounds'
  BY <1>2, <1>3 DEF CallInv, ProgressInv, BatchInBudget, WritesInBounds, TooSmall
<1>7. RowsRight'
  BY <1>2, <1>3 DEF RowsRight, CallInv
<1>8. OkMeansComplete'
  BY <1>1, <1>3 DEF OkMeansComplete
<1> QED
  BY <1>4, <1>5, <1>6, <1>7, <1>8

LEMMA SortStep ==
  ASSUME EncodeInv, Sort
  PROVE  EncodeInv'
<1> USE EncodeAssumption DEF EncodeInv
<1>1. UNCHANGED <<handle, mode, normalize, n, capacity, prefix, text, tokens, start, batch, out, status>>
  BY DEF Sort, session, call
<1>2. pc = "tokenize" /\ pc' = "run" /\ \A i \in 0..n - 1 : tokens[i] # NoTokens
  BY DEF Sort
<1>3. order' \in [Texts -> Texts] /\ Sorted(order)'
  BY <1>1 DEF Sort, Sorted, Size
<1>4. \A i \in Texts : out[i] = Untouched
  BY <1>2 DEF CallInv
<1>5. TypeOK'
  BY <1>1, <1>2, <1>3 DEF TypeOK
<1>6. 0..n - 1 \subseteq Texts /\ start = 0 /\ n \in Nat
  BY <1>2 DEF TypeOK, CallInv, Texts
<1>7. \A i \in 0..n - 1 : tokens'[i] # NoTokens
  BY <1>1, <1>2
<1>8. \A k \in 0..n - 1 : order'[k] \in 0..n - 1
  BY <1>1, <1>3 DEF Sorted
<1>9. ProgressInv'
  BY <1>1, <1>3, <1>4, <1>6, <1>7, <1>8 DEF ProgressInv
<1>10. CallInv' /\ OkMeansComplete' /\ BatchInBudget' /\ WritesInBounds'
  BY <1>1, <1>2 DEF CallInv, OkMeansComplete, BatchInBudget, WritesInBounds, TooSmall
<1>11. RowsRight' /\ TokensRight'
  BY <1>1, <1>4 DEF RowsRight, TokensRight, Size
<1> QED
  BY <1>5, <1>9, <1>10, <1>11

\* The rows that are taken keep to the budget.
LEMMA InBudget ==
  ASSUME NEW rows \in 0..kMaxBatchRows, NEW width \in Nat, NextBatch(rows, width)
  PROVE  /\ rows <= kMaxBatchRows
         /\ rows * width <= kMaxBatchTokens \/ rows = 1
<1> USE EncodeAssumption
<1>1. CASE rows = 0
  BY <1>1
<1>2. CASE rows # 0
  BY <1>2 DEF NextBatch, Fits
<1> QED
  BY <1>1, <1>2

LEMMA BatchStep ==
  ASSUME EncodeInv, RunBatch
  PROVE  EncodeInv'
<1> USE EncodeAssumption DEF EncodeInv
<1>1. PICK rows \in 0..kMaxBatchRows, width \in Widths :
        /\ NextBatch(rows, width)
        /\ batch' = [rows |-> rows, width |-> width]
        /\ Copy(rows, width)
        /\ start' = NextStart(rows)
  BY DEF RunBatch
<1>2. UNCHANGED <<handle, mode, normalize, n, capacity, prefix, text, tokens, order, pc, status>>
      /\ pc = "run" /\ start < n
  BY DEF RunBatch, session, call
<1>3. Sorted(order) /\ \A i \in 0..n - 1 : tokens[i] # NoTokens /\ Size(i) \in Nat
  BY <1>2 DEF ProgressInv, TypeOK, Texts, Size
<1>4. rows \in Nat /\ width \in Nat /\ n \in Nat /\ start \in Nat /\ start + rows <= n
  BY <1>1 DEF Widths, NextBatch, TypeOK
<1>5. BatchInBudget'
  BY <1>1, <1>4, InBudget DEF BatchInBudget
<1>6. start' = start + rows /\ pc' = "run" /\ status' = status
  BY <1>1, <1>2 DEF NextStart
<1>7. \A k \in start..start + rows - 1 :
        /\ out'[order[k]] # Untouched
        /\ out'[order[k]].is \in Kinds
        /\ Size(order[k]) # 0 \/ mode # "ClsToken" => out'[order[k]] = Alone(order[k])
  BY <1>1, <1>3, CopyRows
<1>8. \A i \in Texts : (\A k \in start..start + rows - 1 : order[k] # i) => out'[i] = out[i]
  BY <1>1, <1>3, CopyRows
<1>9. TypeOK'
  <2>1. \A i \in Texts : out'[i].is \in Kinds \cup {"untouched"}
    BY <1>7, <1>8 DEF TypeOK
  <2>2. start' \in 0..n'
    BY <1>2, <1>4, <1>6
  <2> QED
    BY <1>1, <1>2, <1>4, <1>6, <2>1, <2>2 DEF TypeOK
<1>10. CallInv'
  <2>1. out' = [i \in Texts |-> out'[i]]
    BY <1>1 DEF Copy
  <2>2. ~TooSmall(n, capacity)'
    BY <1>2 DEF CallInv, TooSmall
  <2> QED
    BY <1>1, <1>2, <1>6, <2>1, <2>2 DEF CallInv
<1>11. RowsRight'
  <2> SUFFICES ASSUME NEW i \in Texts, out'[i] # Untouched, Size(i)' # 0 \/ mode' # "ClsToken"
               PROVE  out'[i] = Alone(i)'
    BY DEF RowsRight
  <2>1. Alone(i)' = Alone(i) /\ Size(i)' = Size(i)
    BY <1>2 DEF Alone, Size
  <2>2. CASE \E k \in start..start + rows - 1 : order[k] = i
    BY <1>2, <1>7, <2>1, <2>2
  <2>3. CASE \A k \in start..start + rows - 1 : order[k] # i
    BY <1>2, <1>8, <2>1, <2>3 DEF RowsRight
  <2> QED
    BY <2>2, <2>3
<1>12. WritesInBounds'
  <2> SUFFICES ASSUME NEW i \in Texts, out'[i] # Untouched
               PROVE  i < n /\ (i + 1) * Dim <= capacity
    BY <1>2 DEF WritesInBounds
  <2>1. CASE \E k \in start..start + rows - 1 : order[k] = i
    <3>1. i \in 0..n - 1
      <4>1. PICK k \in start..start + rows - 1 : order[k] = i
        BY <2>1
      <4>2. k \in 0..n - 1
        BY <1>4
      <4>3. order[k] \in 0..n - 1
        BY <1>3, <4>2 DEF Sorted
      <4> QED
        BY <4>1, <4>3
    <3>2. n * Dim <= capacity
      BY <1>2, <1>4 DEF CallInv, TooSmall, TypeOK
    <3>3. i + 1 <= n /\ i + 1 \in Nat
      BY <1>4, <3>1
    <3>4. (i + 1) * Dim <= n * Dim
      BY <1>4, <3>3
    <3>5. capacity \in Nat
      BY DEF TypeOK
    <3>6. n * Dim \in Nat /\ (i + 1) * Dim \in Nat
      BY <1>4, <3>3
    <3> QED
      BY <1>4, <3>1, <3>2, <3>4, <3>5, <3>6
  <2>2. CASE \A k \in start..start + rows - 1 : order[k] # i
    BY <1>8, <2>2 DEF WritesInBounds
  <2> QED
    BY <2>1, <2>2
<1>13. ProgressInv'
  <2>1. \A j, k \in 0..n - 1 : order[j] = order[k] => j = k
    BY <1>3, OnePlace
  <2>2. ASSUME NEW k \in 0..n - 1
        PROVE  out'[order[k]] # Untouched <=> k < start + rows
    <3>1. order[k] \in Texts
      BY <1>4, <2>2 DEF Sorted, TypeOK, Texts
    <3>2. CASE k \in start..start + rows - 1
      BY <1>4, <1>7, <3>2
    <3>3. CASE k \notin start..start + rows - 1
      <4>1. \A l \in start..start + rows - 1 : order[l] # order[k]
        BY <1>4, <2>1, <3>3
      <4>2. out'[order[k]] = out[order[k]]
        BY <1>8, <3>1, <4>1
      <4>3. out[order[k]] # Untouched <=> k < start
        BY <1>2 DEF ProgressInv
      <4> QED
        BY <1>4, <3>3, <4>2, <4>3
    <3> QED
      BY <3>2, <3>3
  <2>3. Sorted(order)'
    BY <1>2, <1>3 DEF Sorted, Size
  <2> QED
    BY <1>2, <1>3, <1>6, <2>2, <2>3 DEF ProgressInv
<1>14. OkMeansComplete' /\ TokensRight'
  BY <1>2, <1>6 DEF OkMeansComplete, TokensRight, Size
<1> QED
  BY <1>5, <1>9, <1>10, <1>11, <1>12, <1>13, <1>14

LEMMA FailStep ==
  ASSUME EncodeInv, RunFails
  PROVE  EncodeInv'
<1> USE EncodeAssumption DEF EncodeInv
<1>1. PICK rows \in 0..kMaxBatchRows, width \in Widths :
        NextBatch(rows, width) /\ batch' = [rows |-> rows, width |-> width]
  BY DEF RunFails
<1>2. UNCHANGED <<handle, mode, normalize, n, capacity, prefix, text, tokens, order, start, out>>
  BY DEF RunFails, session, call
<1>3. pc' = "idle" /\ status' = "InferenceFailed"
  BY DEF RunFails, Return
<1>4. width \in Nat
  BY DEF Widths
<1>5. BatchInBudget'
  BY <1>1, <1>4, InBudget DEF BatchInBudget
<1>6. TypeOK'
  BY <1>1, <1>2, <1>3, <1>4 DEF TypeOK, Codes
<1>7. CallInv' /\ ProgressInv' /\ OkMeansComplete' /\ WritesInBounds'
  BY <1>1, <1>2, <1>3 DEF CallInv, ProgressInv, OkMeansComplete, WritesInBounds
<1>8. RowsRight' /\ TokensRight'
  BY <1>2 DEF RowsRight, Alone, TokensRight, Size
<1> QED
  BY <1>5, <1>6, <1>7, <1>8

LEMMA FinishStep ==
  ASSUME EncodeInv, Finish
  PROVE  EncodeInv'
<1> USE EncodeAssumption DEF EncodeInv, Return
<1>1. UNCHANGED <<handle, mode, normalize, n, capacity, prefix, text, tokens, order, start, batch, out>>
  BY DEF Finish, session, call
<1>2. pc = "run" /\ pc' = "idle" /\ status' = "Ok" /\ start = n
  BY DEF Finish, AllRun
<1>3. TypeOK'
  BY <1>1, <1>2 DEF TypeOK, Codes
<1>4. \A i \in 0..n - 1 : out[i] # Untouched
  <2>1. \A i \in 0..n - 1 : \E k \in 0..n - 1 : order[k] = i
    BY <1>2 DEF ProgressInv, Sorted
  <2>2. \A k \in 0..n - 1 : out[order[k]] # Untouched <=> k < n
    BY <1>2 DEF ProgressInv
  <2>3. n \in Nat
    BY DEF TypeOK
  <2> QED
    BY <2>1, <2>2, <2>3
<1>5. OkMeansComplete'
  BY <1>1, <1>4 DEF OkMeansComplete
<1>6. CallInv' /\ ProgressInv' /\ BatchInBudget' /\ WritesInBounds'
  BY <1>1, <1>2 DEF CallInv, ProgressInv, BatchInBudget, WritesInBounds
<1>7. RowsRight' /\ TokensRight'
  BY <1>1 DEF RowsRight, Alone, TokensRight, Size
<1> QED
  BY <1>3, <1>5, <1>6, <1>7

-----------------------------------------------------------------------------
(* Theorems                                                                *)

\* The invariant holds in every reachable state.
THEOREM InvariantCorrect == Spec => []EncodeInv
<1>1. EncodeInv /\ UNCHANGED vars => EncodeInv'
  <2> SUFFICES ASSUME EncodeInv, UNCHANGED vars PROVE EncodeInv'
    OBVIOUS
  <2>1. TypeOK' /\ CallInv'
    BY DEF vars, EncodeInv, TypeOK, CallInv, TooSmall
  <2>2. ProgressInv'
    BY DEF vars, EncodeInv, ProgressInv, Sorted, Size
  <2>3. OkMeansComplete' /\ WritesInBounds' /\ BatchInBudget'
    BY DEF vars, EncodeInv, OkMeansComplete, WritesInBounds, BatchInBudget
  <2>4. RowsRight' /\ TokensRight'
    BY DEF vars, EncodeInv, RowsRight, Alone, TokensRight, Size
  <2> QED
    BY <2>1, <2>2, <2>3, <2>4 DEF EncodeInv
<1>2. EncodeInv /\ [Next]_vars => EncodeInv'
  BY <1>1, CallStep, TokenizeStep, SortStep, BatchStep, FailStep, FinishStep, EncodeAssumption
     DEF Next, Proceed, EmbedDocuments, EmbedQueries
<1> QED
  BY <1>2, InitEncode, PTL DEF Spec

\* Every row written is the vector of its own text, whatever else was in the batch
\* (src/session_ort.cpp:97-101 and 167-175).
THEOREM RowsCorrect == Spec => []RowsRight
<1>1. EncodeInv => RowsRight
  BY DEF EncodeInv
<1> QED
  BY <1>1, InvariantCorrect, PTL

\* A call that returns no error has written a row for every text
\* (src/session_ort.cpp:114-178).
THEOREM CompleteCorrect == Spec => []OkMeansComplete
<1>1. EncodeInv => OkMeansComplete
  BY DEF EncodeInv
<1> QED
  BY <1>1, InvariantCorrect, PTL

\* The check of out_capacity (src/session_ort.cpp:89) is enough for all the writes.
THEOREM BoundsCorrect == Spec => []WritesInBounds
<1>1. EncodeInv => WritesInBounds
  BY DEF EncodeInv
<1> QED
  BY <1>1, InvariantCorrect, PTL

\* A batch of several rows keeps to kMaxBatchTokens and kMaxBatchRows
\* (src/session_ort.cpp:115-125).
THEOREM BudgetCorrect == Spec => []BatchInBudget
<1>1. EncodeInv => BatchInBudget
  BY DEF EncodeInv
<1> QED
  BY <1>1, InvariantCorrect, PTL

\* What a text is tokenised to fits the buffer, ends with the separator and is all of
\* the text that fits (src/tokenizer.cpp:46-62, tokenizer/src/lib.rs:70-96).
THEOREM TokensCorrect == Spec => []TokensRight
<1>1. EncodeInv => TokensRight
  BY DEF EncodeInv
<1> QED
  BY <1>1, InvariantCorrect, PTL

\* The places before `start` are the rows written, in a call that is running batches.
THEOREM ProgressCorrect == Spec => []ProgressInv
<1>1. EncodeInv => ProgressInv
  BY DEF EncodeInv
<1> QED
  BY <1>1, InvariantCorrect, PTL

\* Types hold; in particular the batches never run past the last text.
THEOREM TypeCorrect == Spec => []TypeOK
<1>1. EncodeInv => TypeOK
  BY DEF EncodeInv
<1> QED
  BY <1>1, InvariantCorrect, PTL
=============================================================================
