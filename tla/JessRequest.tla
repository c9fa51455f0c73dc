---------------------------- MODULE JessRequest ----------------------------
(***************************************************************************)
(* The request parser (src/runtime/request.c and rt_analyze_req_head of    *)
(* src/runtime/runtime.c).  A text is a sequence of tokens: the characters *)
(* the parser looks at are tokens of their own, a CRLF is the token "CRLF" *)
(* and any other run of characters is one token.  Lengths are counted in   *)
(* tokens, against limits that are constants.                              *)
(***************************************************************************)
EXTENDS Integers, Sequences, SequencesExt, FiniteSets

CONSTANTS
  MaxTitle,       \* MAX_TITLE_SIZE
  MaxOpt,         \* MAX_OPT_SIZE
  MaxSeg,         \* MAX_PRE_SEG_SIZE
  MaxDepth,       \* MAX_DEPTH_REQ
  MaxKey,         \* MAX_KEY_SIZE
  MaxValue,       \* MAX_VALUE_SIZE
  MaxPayload,     \* MAX_PAYLOAD_SIZE
  MaxSect,        \* MAX_REQ_SECT
  MaxAry          \* MAX_ARY_SIZE

ASSUME RequestLimits ==
  {MaxTitle, MaxOpt, MaxSeg, MaxDepth, MaxKey, MaxValue, MaxPayload,
   MaxSect, MaxAry} \subseteq Nat \ {0}

-----------------------------------------------------------------------------
(* Array indexes: plain ones are below MaxAry, the symbols far above it.   *)

NoIndex == -1
SymLast  == 2147483392 + 36     \* JA_SYM_LAST        '$'
SymSize  == 2147483392 + 63     \* JA_SYM_QUERY_SIZE  '?'
SymAdd   == 2147483392 + 43     \* JA_SYM_ADD         '+'
SymAll   == 2147483392 + 42     \* JA_SYM_ENTIRE      '*'

Digit == [d \in {"0","1","2","3","4","5","6","7","8","9"} |->
            CASE d = "0" -> 0 [] d = "1" -> 1 [] d = "2" -> 2 [] d = "3" -> 3
              [] d = "4" -> 4 [] d = "5" -> 5 [] d = "6" -> 6 [] d = "7" -> 7
              [] d = "8" -> 8 [] d = "9" -> 9]

Symbol == [c \in {"$", "?", "+", "*"} |->
             CASE c = "$" -> SymLast [] c = "?" -> SymSize
               [] c = "+" -> SymAdd  [] c = "*" -> SymAll]

\* The positions of a token, and the pieces between them.
At(text, c) == {i \in DOMAIN text : text[i] = c}

First(text, c) == IF At(text, c) = {} THEN 0
                  ELSE CHOOSE i \in At(text, c) : \A j \in At(text, c) : i <= j

Pieces(text, c) ==
  LET cuts == SetToSortSeq(At(text, c) \cup {0, Len(text) + 1}, <)
  IN  [k \in 1 .. Len(cuts) - 1 |-> SubSeq(text, cuts[k] + 1, cuts[k + 1] - 1)]

Fails == [ok |-> FALSE]

-----------------------------------------------------------------------------
(* 1 for name[index], 0 for a plain name, -1 for anything between.         *)
rt_is_array_syntax(key) ==
  LET left == At(key, "[")  right == At(key, "]")
  IN  CASE Cardinality(left) > 1 \/ Cardinality(right) > 1 -> -1
        [] left = {} /\ right = {} -> 0
        [] OTHER ->
             IF \E l \in left, r \in right :
                   1 < l /\ l + 1 < r /\ r = Len(key)
             THEN 1 ELSE -1

\* atoi of a run of digits, saturating far above every limit.
Atoi(digits) ==
  LET v[i \in 0 .. Len(digits)] ==
        IF i = 0 THEN 0
        ELSE LET u == v[i - 1]
             IN  IF u > MaxAry THEN u ELSE 10 * u + Digit[digits[i]]
  IN  v[Len(digits)]

rt_analysis_array_syntax(key) ==
  LET kind  == rt_is_array_syntax(key)
      left  == First(key, "[")
      inner == SubSeq(key, left + 1, Len(key) - 1)
      name  == SubSeq(key, 1, left - 1)
  IN  CASE kind = -1 -> Fails
        [] kind = 0  -> [ok |-> TRUE, name |-> key, index |-> NoIndex]
        [] kind = 1 /\ Len(inner) = 1 /\ inner[1] \in DOMAIN Symbol ->
             [ok |-> TRUE, name |-> name, index |-> Symbol[inner[1]]]
        [] kind = 1 /\ (\A i \in DOMAIN inner : inner[i] \in DOMAIN Digit) ->
             IF Atoi(inner) < MaxAry
             THEN [ok |-> TRUE, name |-> name, index |-> Atoi(inner)]
             ELSE Fails
        [] OTHER -> Fails

\* A segment and its level; directories and archives are no arrays.
Leveled(s, depth) ==
      IF ~s.ok \/ (depth < 2 /\ s.index >= 0) THEN Fails
      ELSE [ok |-> TRUE, name |-> s.name, index |-> s.index,
            jsl |-> CASE depth = 0 -> "dir"
                      [] depth = 1 -> "archive"
                      [] depth > 1 /\ s.index >= 0 -> "array"
                      [] OTHER -> "scope"]

rt_analyze_segment(key, depth) == Leveled(rt_analysis_array_syntax(key), depth)

\* The segments of a key, from its pieces and what each of them is.
Segments(parts, segm) ==
  LET n == Len(parts)
  IN  IF \/ n > MaxDepth
         \/ \E i \in 1 .. n : parts[i] = <<>> \/ Len(parts[i]) >= MaxSeg
         \/ \E i \in 1 .. n : ~segm[i].ok
         \/ \E i \in 1 .. n - 1 : segm[i].index = SymAll
      THEN Fails
      ELSE [ok |-> TRUE,
            segm |-> [i \in 1 .. n |->
              [name  |-> segm[i].name, index |-> segm[i].index,
               jsl   |-> IF i = n /\ n >= 3 /\ segm[i].jsl = "scope"
                         THEN "field" ELSE segm[i].jsl]]]

Analyzed(parts) ==
  Segments(parts, [i \in DOMAIN parts |-> rt_analyze_segment(parts[i], i - 1)])

rt_separate_segment(key) == Analyzed(Pieces(key, "."))

\* Key and value; no value is the empty sequence.
rt_separate_kv_field(text) ==
  LET split == First(text, "=")
      key   == IF split = 0 THEN text ELSE SubSeq(text, 1, split - 1)
      value == IF split = 0 THEN <<>> ELSE SubSeq(text, split + 1, Len(text))
  IN  IF \/ split = 1
         \/ Len(key) \notin 1 .. MaxKey - 1
         \/ split # 0 /\ Len(value) \notin 1 .. MaxValue - 1
      THEN Fails
      ELSE [ok |-> TRUE, key |-> key, value |-> value]

Keyed(kv, sg) ==
  IF ~sg.ok THEN Fails
  ELSE [ok |-> TRUE, key |-> kv.key, value |-> kv.value, segm |-> sg.segm]

WithSegments(kv) == IF ~kv.ok THEN Fails ELSE Keyed(kv, rt_separate_segment(kv.key))

rt_create_jrp(text) == WithSegments(rt_separate_kv_field(text))

\* The sections of a payload; one that is wrong fails the request.
Sections(parts, jrps) ==
      IF \/ Len(parts) > MaxSect
         \/ \E i \in DOMAIN parts : parts[i] = <<>> \/ Len(parts[i]) > MaxPayload
         \/ \E i \in DOMAIN parts : ~jrps[i].ok
      THEN Fails
      ELSE [ok |-> TRUE, jrps |-> jrps]

Built(parts) == Sections(parts, [i \in DOMAIN parts |-> rt_create_jrp(parts[i])])

NoEmptyLast(cut) == IF cut[Len(cut)] = <<>> THEN Front(cut) ELSE cut

rt_build_jrp(payload) == Built(NoEmptyLast(Pieces(payload, "CRLF")))

\* Title, option and payload.  The option ends at the first empty line after
\* the title, wherever it is: an empty line behind the sections makes them the
\* option.
rt_analyze_req_head(request) ==
  LET skip  == IF \A i \in DOMAIN request : request[i] = "CRLF"
               THEN Len(request)
               ELSE (CHOOSE i \in DOMAIN request :
                       request[i] # "CRLF" /\ \A j \in 1 .. i - 1 : request[j] = "CRLF") - 1
      body  == SubSeq(request, skip + 1, Len(request))
      title == First(body, "CRLF")
      rest  == SubSeq(body, title + 1, Len(body))
      gaps  == {i \in 1 .. Len(rest) - 1 : rest[i] = "CRLF" /\ rest[i + 1] = "CRLF"}
      gap   == CHOOSE i \in gaps : \A j \in gaps : i <= j
  IN  IF title = 0 \/ title - 1 >= MaxTitle THEN Fails
      ELSE IF gaps = {}
      THEN [ok |-> TRUE, title |-> SubSeq(body, 1, title - 1),
            option |-> <<>>, payload |-> rest]
      ELSE IF gap - 1 >= MaxOpt THEN Fails
      ELSE [ok |-> TRUE, title |-> SubSeq(body, 1, title - 1),
            option |-> SubSeq(rest, 1, gap - 1),
            payload |-> SubSeq(rest, gap + 2, Len(rest))]
=============================================================================
