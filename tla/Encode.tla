------------------------------- MODULE Encode -------------------------------
(***************************************************************************)
(* OrtSession::encode (src/session_ort.cpp:82-179): one call that embeds n *)
(* texts.  It tokenises them all, orders them by length, and runs the      *)
(* graph on batches cut from that order against a budget of tokens, each   *)
(* padded to its longest row.  Calls share the session but none of their   *)
(* state, so one call at a time is modelled, and any number one after      *)
(* another.                                                                *)
(*                                                                         *)
(* Texts, rows of `out` and positions count from 0 as in the code.  What a *)
(* text says matters to the Tokenizer only; after it a text is its index   *)
(* and a number of tokens.                                                 *)
(***************************************************************************)
EXTENDS Pooling, Tokenizer

CONSTANTS
  MaxTexts,         \* bound on the texts of a call
  Contents,         \* what a text may say, as a sequence of units
  doc_prefix,       \* entry->doc_prefix, and so on
  query_prefix,
  MaxSeqLength,     \* entry->info.max_seq_length
  Capacities,       \* out_capacity, in floats
  Dim,              \* entry->info.dimension
  kMaxBatchTokens,
  kMaxBatchRows,
  Pad,              \* the state at a position that is only padding
  NoTokens          \* tokens[i] of a text not tokenised yet

ASSUME EncodeAssumption ==
  /\ MaxTexts \in Nat
  /\ Contents \subseteq Seq(Units) /\ doc_prefix \in Seq(Units) /\ query_prefix \in Seq(Units)
  /\ MaxSeqLength \in Nat \ {0, 1}
  /\ Capacities \subseteq Nat
  /\ Dim \in Nat \ {0}
  /\ kMaxBatchTokens \in Nat
  /\ kMaxBatchRows \in Nat \ {0}
  /\ NoTokens \notin Seq(Ids)

VARIABLES
  handle,     \* tokenizer_
  mode,       \* entry->pooling
  normalize,  \* entry->info.normalize
  pc,         \* where the call is; "idle" when none is running
  n,          \* how many texts it was given
  capacity,   \* its out_capacity
  prefix,     \* what goes before each of its texts
  text,       \* text[i]: what texts[i] says, once it is tokenised
  tokens,     \* tokens[i]
  order,      \* order[k]: the text at place k, once sorted
  start,      \* the first place not run yet
  batch,      \* the last batch: [rows, width]
  out,        \* out[i]: row i of the caller's buffer
  status      \* the StatusCode of the last return

session == <<handle, mode, normalize>>
call == <<n, capacity, prefix>>
vars == <<handle, mode, normalize, pc, n, capacity, prefix, text, tokens, order, start, batch, out,
          status>>

Texts == 0..MaxTexts - 1
Widths == 1..MaxSeqLength
Handles == [adds : BOOLEAN, max_length : {MaxSeqLength}, pads : BOOLEAN]
NoBatch == [rows |-> 0, width |-> 1]
Untouched == Vector("untouched", << >>)
Codes == {"none", "Ok", "InvalidArgument", "OutputTooSmall", "TokenizerFailed", "InferenceFailed"}

TypeOK ==
  /\ mode \in Modes /\ normalize \in BOOLEAN
  /\ pc \in {"idle", "tokenize", "run"}
  /\ n \in 0..MaxTexts /\ capacity \in Nat
  /\ handle \in Handles
  /\ prefix \in Seq(Units)
  /\ text \in [Texts -> Seq(Units)]
  /\ tokens \in [Texts -> Seq(Ids) \cup {NoTokens}]
  /\ order \in [Texts -> Texts]
  /\ start \in 0..n
  /\ batch.rows \in 0..kMaxBatchRows /\ batch.width \in Nat
  /\ \A i \in Texts : out[i].is \in Kinds \cup {"untouched"}
  /\ status \in Codes

Init ==
  /\ \E json \in Definitions :
       Loads(json, MaxSeqLength) /\ handle = New(json, MaxSeqLength)
  /\ mode \in Modes /\ normalize \in BOOLEAN
  /\ pc = "idle" /\ n = 0 /\ capacity = 0 /\ prefix = << >>
  /\ text = [i \in Texts |-> << >>]
  /\ tokens = [i \in Texts |-> NoTokens]
  /\ order = [k \in Texts |-> k]
  /\ start = 0 /\ batch = NoBatch
  /\ out = [i \in Texts |-> Untouched]
  /\ status = "none"

Return(code) == pc' = "idle" /\ status' = code

-----------------------------------------------------------------------------
(* The call                                                                *)

\* Mutant: capacity counted in rows.
MutTooSmall(texts, floats) == floats < texts

TooSmall(texts, floats) == floats < texts * Dim

\* The caller passes its buffer; null is whether it or the texts are null pointers.
Call(texts, floats, null, before) ==
  /\ pc = "idle"
  /\ n' = texts /\ capacity' = floats /\ prefix' = before
  /\ text' = [i \in Texts |-> << >>]
  /\ tokens' = [i \in Texts |-> NoTokens]
  /\ order' = [k \in Texts |-> k]
  /\ start' = 0 /\ batch' = NoBatch
  /\ out' = [i \in Texts |-> Untouched]
  /\ IF texts # 0 /\ null
     THEN Return("InvalidArgument")
     ELSE IF TooSmall(texts, floats)
     THEN Return("OutputTooSmall")
     ELSE pc' = "tokenize" /\ UNCHANGED status
  /\ UNCHANGED session

\* The calls of a handle that is open.
EmbedDocuments(texts, floats, null) == Call(texts, floats, null, doc_prefix)
EmbedQueries(texts, floats, null) == Call(texts, floats, null, query_prefix)

\* One round of the loop that tokenises; the library may fail at any text.
Tokenize ==
  /\ pc = "tokenize"
  /\ \E i \in 0..n - 1 :
       /\ tokens[i] = NoTokens /\ \A j \in 0..i - 1 : tokens[j] # NoTokens
       /\ \/ \E content \in Contents :
               LET r == EncodeText(handle, prefix, content) IN
               /\ r.rc = 0
               /\ text' = [text EXCEPT ![i] = content]
               /\ tokens' = [tokens EXCEPT ![i] = r.ids]
               /\ UNCHANGED <<pc, status>>
          \/ Return("TokenizerFailed") /\ UNCHANGED <<text, tokens>>
  /\ UNCHANGED <<session, call, order, start, batch, out>>

\* tokens[i].size()
Size(i) == Len(tokens[i])

\* std::stable_sort of the places by length.
Sorted(o) ==
  /\ \A i \in 0..n - 1 : \E k \in 0..n - 1 : o[k] = i
  /\ \A k \in 0..n - 1 : o[k] \in 0..n - 1
  /\ \A j, k \in 0..n - 1 : j < k =>
       \/ Size(o[j]) < Size(o[k])
       \/ Size(o[j]) = Size(o[k]) /\ o[j] < o[k]
  /\ \A k \in Texts \ (0..n - 1) : o[k] = k

Sort ==
  /\ pc = "tokenize" /\ \A i \in 0..n - 1 : tokens[i] # NoTokens
  /\ order' \in {o \in [Texts -> Texts] : Sorted(o)}
  /\ pc' = "run"
  /\ UNCHANGED <<session, call, text, tokens, start, batch, out, status>>

-----------------------------------------------------------------------------
(* Batches                                                                 *)

Members(rows) == {order[k] : k \in start..start + rows - 1}

\* The width of the next `rows` texts: the longest, and at least 1.
IsWidth(rows, width) ==
  /\ width = 1 \/ \E i \in Members(rows) : width = Size(i)
  /\ width >= 1 /\ \A i \in Members(rows) : width >= Size(i)

\* Mutant: the budget refuses a first row too.
MutFitsFirst(rows, width) == rows * width <= kMaxBatchTokens

\* Mutant: the row about to come in is not counted.
MutFitsLate(rows, width) == rows <= 1 \/ (rows - 1) * width <= kMaxBatchTokens

\* A first row is always taken.
Fits(rows, width) == rows <= 1 \/ rows * width <= kMaxBatchTokens

\* What the loop over `rows` ends with: it stops at the end, at kMaxBatchRows, or
\* before the row that would exceed the budget.
NextBatch(rows, width) ==
  /\ start + rows <= n
  /\ IsWidth(rows, width) /\ Fits(rows, width)
  /\ start + rows < n /\ rows < kMaxBatchRows =>
       \E w \in Widths : IsWidth(rows + 1, w) /\ ~Fits(rows + 1, w)

\* The tensors: real tokens first, padding behind them, and the mask that tells.
Mask(i, width) == {t \in 0..width - 1 : t < Size(i)}

\* What the graph gives for text i in a batch of that width.  Attention is masked, so
\* the state of a real token depends on its own text alone; nothing is known of the
\* states of padded positions.
Hidden(i, width) == [t \in 0..width - 1 |-> IF t \in Mask(i, width) THEN <<i, t>> ELSE Pad]

\* Row i of the result of a batch.
Row(i, width) ==
  LET pooled == Pool(mode, Hidden(i, width), Mask(i, width))
  IN  IF normalize THEN L2Normalize(pooled) ELSE pooled

\* Mutant: rows are written in the order they were run in.
MutTarget(k) == k

\* The row of `out` that place k of the order goes to.
Target(k) == order[k]

Copy(rows, width) ==
  out' = [i \in Texts |->
            IF \E k \in start..start + rows - 1 : Target(k) = i
            THEN Row(order[CHOOSE k \in start..start + rows - 1 : Target(k) = i], width)
            ELSE out[i]]

NextStart(rows) == start + rows

RunBatch ==
  /\ pc = "run" /\ start < n
  /\ \E rows \in 0..kMaxBatchRows, width \in Widths :
       /\ NextBatch(rows, width)
       /\ batch' = [rows |-> rows, width |-> width]
       /\ Copy(rows, width)
       /\ start' = NextStart(rows)
  /\ UNCHANGED <<session, call, text, tokens, order, pc, status>>

\* The graph throws; the rows of earlier batches stay written.
RunFails ==
  /\ pc = "run" /\ start < n
  /\ \E rows \in 0..kMaxBatchRows, width \in Widths :
       NextBatch(rows, width) /\ batch' = [rows |-> rows, width |-> width]
  /\ Return("InferenceFailed")
  /\ UNCHANGED <<session, call, text, tokens, order, start, out>>

\* Mutant: the last text is left out.
MutAllRun == start + 1 >= n

AllRun == start = n

Finish ==
  /\ pc = "run" /\ AllRun
  /\ Return("Ok")
  /\ UNCHANGED <<session, call, text, tokens, order, start, batch, out>>

-----------------------------------------------------------------------------
\* What the call does on its own; that the graph fails is not to be counted on.
Proceed == Tokenize \/ Sort \/ RunBatch \/ Finish

Next ==
  \/ \E texts \in 0..MaxTexts, floats \in Capacities, null \in BOOLEAN :
       EmbedDocuments(texts, floats, null) \/ EmbedQueries(texts, floats, null)
  \/ Proceed
  \/ RunFails

Spec == Init /\ [][Next]_vars /\ WF_vars(Proceed)

-----------------------------------------------------------------------------
(* Safety                                                                  *)

\* What text i embeds to, whatever it is embedded with: all and only its own tokens
\* go in.  Without any the mean is a row of zeros, which normalising leaves alone, and
\* the maximum a row of -inf, which it makes nan.
Alone(i) ==
  IF Size(i) = 0
  THEN Vector(CASE mode = "MeanTokens" -> "zero"
                [] mode # "MeanTokens" /\ normalize -> "nan"
                [] OTHER -> "-inf", << >>)
  ELSE Vector("finite", [t \in IF mode = "ClsToken" THEN {0} ELSE 0..Size(i) - 1 |-> <<i, t>>])

\* Grouping by length is output-equivalent (src/session_ort.cpp:99-101): every row
\* written, in calls that go on to fail too, is the vector of the text at that place
\* and shows nothing of the batch the text was in.  Of a text without
\* tokens CLS pooling takes a padded position, of which nothing is known.
RowsRight ==
  \A i \in Texts :
    out[i] # Untouched /\ (Size(i) # 0 \/ mode # "ClsToken") => out[i] = Alone(i)

\* What text i is tokenised to is its prefix and itself, up to the first NUL, cut where
\* only the special tokens still fit: those survive, no padding is among the ids, and
\* the buffer was big enough (src/tokenizer.hpp:23-30).
TokensRight ==
  \A i \in Texts : tokens[i] # NoTokens =>
    LET said == CString(prefix \o text[i])
        special == Special(handle)
    IN  /\ Size(i) <= MaxSeqLength
        /\ Size(i) = MaxSeqLength \/ Size(i) = Len(said) + 2 * special
        /\ \A k \in 1..Size(i) - 2 * special :
             k <= Len(said) /\ tokens[i][special + k] = said[k]
        /\ handle.adds => tokens[i][1] = "cls" /\ tokens[i][Size(i)] = "sep"

\* A call that succeeds has written the rows of all its texts.
OkMeansComplete ==
  pc = "idle" /\ status = "Ok" => \A i \in 0..n - 1 : out[i] # Untouched

\* No write goes beyond the caller's buffer or to a row of no text.
WritesInBounds ==
  \A i \in Texts : out[i] # Untouched => i < n /\ (i + 1) * Dim <= capacity

\* Activation memory is bounded: a batch of several rows keeps to the budget, padding
\* included, and only a text that is longer by itself exceeds it.
BatchInBudget ==
  /\ batch.rows * batch.width <= kMaxBatchTokens \/ batch.rows = 1
  /\ batch.rows <= kMaxBatchRows

\* The places before `start` are the rows written.
ProgressInv ==
  pc = "run" =>
    /\ Sorted(order)
    /\ \A i \in 0..n - 1 : tokens[i] # NoTokens
    /\ \A k \in 0..n - 1 : out[order[k]] # Untouched <=> k < start

-----------------------------------------------------------------------------
(* Liveness                                                                *)

\* Every call returns: each batch takes at least one text, however long.
EveryCallReturns == pc # "idle" ~> pc = "idle"

-----------------------------------------------------------------------------
(* What the documentation says                                             *)

\* Embedding is numerically equivalent to sentence-transformers
\* (include/cyborgdb_embed/embed.hpp:1), whose tokenizer is given all of the text.
WholeTextEmbedded ==
  \A i \in Texts : tokens[i] # NoTokens => tokens[i] = Encoding(handle, prefix \o text[i])
=============================================================================
