------------------------------ MODULE JessJson ------------------------------
(***************************************************************************)
(* Texts of settings to trees and back: the parser and the printer of      *)
(* src/ldr/cJSON.c, on texts of character codes.  A text starts as one of  *)
(* Seeds and is edited by words, so that the parser meets documents, near  *)
(* documents and garbage.                                                  *)
(***************************************************************************)
EXTENDS Integers, Sequences, SequencesExt, FiniteSets

CONSTANTS
  Seeds,         \* bound: the texts that are edited
  Words,         \* bound: what an edit puts into a text
  MaxEdits,      \* bound: edits of a text of at most Short characters; else 1
  Short,
  NestingLimit,  \* CJSON_NESTING_LIMIT
  DefaultSize    \* default_buffer_size of print

ASSUME JsonAssumption == MaxEdits \in Nat /\ Short \in Nat /\ NestingLimit \in Nat /\ DefaultSize \in Nat \ {0}

VARIABLES text, edits
jsonvars == <<text, edits>>

JsonInit == text \in Seeds /\ edits = 0

\* A word is put in the place of the characters from i to j.
Edit ==
  /\ edits < (IF Len(text) <= Short THEN MaxEdits ELSE 1)
  /\ \E i \in 1 .. Len(text) + 1, w \in Words \cup {<<>>} :
       \E j \in {i - 1} \cup (IF i <= Len(text) THEN {i} ELSE {}) :
         text' = SubSeq(text, 1, i - 1) \o w \o SubSeq(text, j + 1, Len(text))
  /\ edits' = edits + 1

JsonNext == Edit

-----------------------------------------------------------------------------
(* Parsing.  The buffer is the text with its terminator, offsets count from *)
(* 0, and a parser answers [ok, v, o]: the value and the offset after it.   *)

Nul == 0
Quote == 34
Comma == 44
Colon == 58
Backslash == 92
OpenArray == 91
CloseArray == 93
OpenObject == 123
CloseObject == 125
NullWord == <<110, 117, 108, 108>>
FalseWord == <<102, 97, 108, 115, 101>>
TrueWord == <<116, 114, 117, 101>>
Bom == <<239, 187, 191>>

Fail == [ok |-> FALSE, v |-> [k |-> "none"], o |-> 0]
Parsed(v, o) == [ok |-> TRUE, v |-> v, o |-> o]
Can(b, o) == o < Len(b)
Is(b, o, c) == Can(b, o) /\ b[o + 1] = c
StartsWith(b, o, w) == o + Len(w) <= Len(b) /\ SubSeq(b, o + 1, o + Len(w)) = w

\* Everything up to a blank is skipped, the terminator too; then one step back.
buffer_skip_whitespace(b, o) ==
  LET stop == {i \in o .. Len(b) : i = Len(b) \/ b[i + 1] > 32}
      at   == CHOOSE i \in stop : \A j \in stop : i <= j
  IN  IF at = Len(b) THEN Len(b) - 1 ELSE at

skip_utf8_bom(b) == IF Len(b) > 4 /\ StartsWith(b, 0, Bom) THEN 3 ELSE 0

IsDigit(c) == c \in 48 .. 57

\* strtod on the digits and signs of a number: a sign and digits.
strtod(s) ==
  LET sign == IF s # <<>> /\ s[1] \in {43, 45} THEN 1 ELSE 0
      len  == CHOOSE n \in 0 .. Len(s) - sign :
                /\ \A i \in 1 .. n : IsDigit(s[sign + i])
                /\ n = Len(s) - sign \/ ~IsDigit(s[sign + n + 1])
      val[i \in 0 .. len] ==
        IF i = 0 THEN 0 ELSE LET u == val[i - 1] IN 10 * u + s[sign + i] - 48
  IN  [len |-> IF len = 0 THEN 0 ELSE sign + len,
       n   |-> IF sign = 1 /\ s[1] = 45 THEN -val[len] ELSE val[len]]

NumberChars == 48 .. 57 \cup {43, 45}
NumberRoom == 63

parse_number(b, o) ==
  LET run == CHOOSE n \in 0 .. NumberRoom :
               /\ \A i \in 0 .. n - 1 : Can(b, o + i) /\ b[o + i + 1] \in NumberChars
               /\ n = NumberRoom \/ ~Can(b, o + n) \/ b[o + n + 1] \notin NumberChars
      r   == strtod(SubSeq(b, o + 1, o + run))
  IN  IF r.len = 0 THEN Fail ELSE Parsed([k |-> "num", n |-> r.n], o + r.len)

Hex(c) ==
  IF IsDigit(c) THEN c - 48
  ELSE IF c \in 65 .. 70 THEN c - 55
  ELSE IF c \in 97 .. 102 THEN c - 87 ELSE -1

\* 0 when one of the four is no digit.
parse_hex4(s) ==
  IF \E i \in 1 .. 4 : Hex(s[i]) = -1 THEN 0
  ELSE 4096 * Hex(s[1]) + 256 * Hex(s[2]) + 16 * Hex(s[3]) + Hex(s[4])

Utf8(c) ==
  IF c < 128 THEN <<c>>
  ELSE IF c < 2048 THEN <<192 + c \div 64, 128 + (c % 64)>>
  ELSE IF c < 65536 THEN <<224 + c \div 4096, 128 + ((c \div 64) % 64), 128 + (c % 64)>>
  ELSE <<240 + c \div 262144, 128 + ((c \div 4096) % 64), 128 + ((c \div 64) % 64), 128 + (c % 64)>>

\* The bytes of one escape, or of the two of a surrogate pair, and its length;
\* length 0 is a failure.  s is the literal from the backslash on.
utf16_literal_to_utf8(s) ==
  LET bad    == [len |-> 0, out |-> <<>>]
      first  == parse_hex4(SubSeq(s, 3, 6))
      second == parse_hex4(SubSeq(s, 9, 12))
  IN  IF Len(s) < 6 \/ first \in 56320 .. 57343 THEN bad
      ELSE IF first \notin 55296 .. 56319 THEN [len |-> 6, out |-> Utf8(first)]
      ELSE IF Len(s) < 12 \/ s[7] # Backslash \/ s[8] # 117 \/ second \notin 56320 .. 57343
      THEN bad
      ELSE [len |-> 12, out |-> Utf8(65536 + 1024 * (first % 1024) + (second % 1024))]

\* b f n r t, and what stands for itself.
Escape(c) ==
  CASE c = 98 -> 8 [] c = 102 -> 12 [] c = 110 -> 10 [] c = 114 -> 13 [] c = 116 -> 9
    [] c \in {Quote, Backslash, 47} -> c
    [] OTHER -> -1

RECURSIVE Unescape(_)
Unescape(s) ==
  IF s = <<>> THEN [ok |-> TRUE, s |-> <<>>]
  ELSE IF s[1] # Backslash
  THEN LET r == Unescape(Tail(s)) IN [r EXCEPT !.s = <<s[1]>> \o @]
  ELSE IF s[2] = 117
  THEN LET u == utf16_literal_to_utf8(s)
           r == Unescape(SubSeq(s, u.len + 1, Len(s)))
       IN  IF u.len = 0 THEN [ok |-> FALSE, s |-> <<>>] ELSE [r EXCEPT !.s = u.out \o @]
  ELSE IF Escape(s[2]) = -1 THEN [ok |-> FALSE, s |-> <<>>]
  ELSE LET r == Unescape(SubSeq(s, 3, Len(s))) IN [r EXCEPT !.s = <<Escape(s[2])>> \o @]

\* The offset of the quote that ends the string; a backslash takes the next
\* character with it.
RECURSIVE EndOfString(_, _)
EndOfString(b, o) ==
  IF ~Can(b, o) THEN -1
  ELSE IF b[o + 1] = Quote THEN o
  ELSE IF b[o + 1] # Backslash THEN EndOfString(b, o + 1)
  ELSE IF Can(b, o + 1) THEN EndOfString(b, o + 2) ELSE -1

\* The value is a C string: it ends at a zero an escape put into it.
CString(s) ==
  IF \A i \in DOMAIN s : s[i] # Nul THEN s
  ELSE SubSeq(s, 1, (CHOOSE i \in DOMAIN s : s[i] = Nul /\ \A j \in 1 .. i - 1 : s[j] # Nul) - 1)

StringBetween(b, o, end) ==
  LET u == Unescape(SubSeq(b, o + 2, end))
  IN  IF end = -1 \/ ~u.ok THEN Fail
      ELSE Parsed([k |-> "str", s |-> CString(u.s)], end + 1)

parse_string(b, o) ==
  IF ~Is(b, o, Quote) THEN Fail ELSE StringBetween(b, o, EndOfString(b, o + 1))

\* Mutant: one level too many.
DeepByOne(depth) == depth > NestingLimit

TooDeep(depth) == depth >= NestingLimit

RECURSIVE parse_value(_, _, _), parse_array(_, _, _, _), parse_object(_, _, _, _)

parse_value(b, o, depth) ==
  IF StartsWith(b, o, NullWord) THEN Parsed([k |-> "null"], o + 4)
  ELSE IF StartsWith(b, o, FalseWord) THEN Parsed([k |-> "false"], o + 5)
  ELSE IF StartsWith(b, o, TrueWord) THEN Parsed([k |-> "true"], o + 4)
  ELSE IF Is(b, o, Quote) THEN parse_string(b, o)
  ELSE IF Can(b, o) /\ (b[o + 1] = 45 \/ IsDigit(b[o + 1])) THEN parse_number(b, o)
  ELSE IF TooDeep(depth) THEN Fail
  ELSE IF Is(b, o, OpenArray)
  THEN IF Is(b, buffer_skip_whitespace(b, o + 1), CloseArray)
       THEN Parsed([k |-> "arr", c |-> <<>>], buffer_skip_whitespace(b, o + 1) + 1)
       ELSE parse_array(b, o + 1, depth + 1, <<>>)
  ELSE IF Is(b, o, OpenObject)
  THEN IF Is(b, buffer_skip_whitespace(b, o + 1), CloseObject)
       THEN Parsed([k |-> "obj", c |-> <<>>], buffer_skip_whitespace(b, o + 1) + 1)
       ELSE parse_object(b, o + 1, depth + 1, <<>>)
  ELSE Fail

\* What follows an element: a comma and the next one, the end, or a failure.
AfterElement(b, r, at, depth, done) ==
  IF ~r.ok THEN Fail
  ELSE IF Is(b, at, Comma) THEN parse_array(b, at + 1, depth, Append(done, r.v))
  ELSE IF Is(b, at, CloseArray) THEN Parsed([k |-> "arr", c |-> Append(done, r.v)], at + 1)
  ELSE Fail

Element(b, r, depth, done) ==
  AfterElement(b, r, buffer_skip_whitespace(b, r.o), depth, done)

\* The elements from o on; done is the list so far.
parse_array(b, o, depth, done) ==
  Element(b, parse_value(b, buffer_skip_whitespace(b, o), depth), depth, done)

AfterMember(b, r, at, depth, done, name) ==
  IF ~r.ok THEN Fail
  ELSE IF Is(b, at, Comma)
  THEN parse_object(b, at + 1, depth, Append(done, [name |-> name, v |-> r.v]))
  ELSE IF Is(b, at, CloseObject)
  THEN Parsed([k |-> "obj", c |-> Append(done, [name |-> name, v |-> r.v])], at + 1)
  ELSE Fail

MemberValue(b, r, depth, done, name) ==
  AfterMember(b, r, buffer_skip_whitespace(b, r.o), depth, done, name)

Member(b, n, at, depth, done) ==
  IF ~n.ok \/ ~Is(b, at, Colon) THEN Fail
  ELSE MemberValue(b, parse_value(b, buffer_skip_whitespace(b, at + 1), depth), depth, done, n.v.s)

Named(b, n, depth, done) == Member(b, n, buffer_skip_whitespace(b, n.o), depth, done)

parse_object(b, o, depth, done) ==
  Named(b, parse_string(b, buffer_skip_whitespace(b, o)), depth, done)

cJSON_Parse(s) ==
  LET b == Append(s, Nul)
  IN  parse_value(b, buffer_skip_whitespace(b, skip_utf8_bom(b)), 0)

-----------------------------------------------------------------------------
(* Printing, into a buffer that grows or into one that was given.          *)

Buffer(room, noalloc, format) ==
  [mem |-> <<>>, room |-> room, off |-> 0, depth |-> 0, noalloc |-> noalloc,
   format |-> format, ok |-> TRUE, over |-> FALSE]

\* Mutant: a buffer that was given is grown as well.
EnsureGrows(p, needed) ==
  LET n == needed + p.off + 1
  IN  IF ~p.ok \/ p.off >= p.room THEN [p EXCEPT !.ok = FALSE]
      ELSE IF n <= p.room THEN p
      ELSE [p EXCEPT !.room = 2 * n]

\* ensure: room for needed more characters and a terminator.
ensure(p, needed) ==
  LET n == needed + p.off + 1
  IN  IF ~p.ok \/ p.off >= p.room THEN [p EXCEPT !.ok = FALSE]
      ELSE IF n <= p.room THEN p
      ELSE IF p.noalloc THEN [p EXCEPT !.ok = FALSE]
      ELSE [p EXCEPT !.room = 2 * n]

\* The characters go where the offset is, which moves on by forward; over is a
\* write past the buffer.
Write(p, chars, forward) ==
  IF ~p.ok THEN p
  ELSE [p EXCEPT !.mem = SubSeq(@, 1, p.off) \o chars,
                 !.off = @ + forward,
                 !.over = @ \/ p.off + Len(chars) > p.room]

update_offset(p) ==
  IF ~p.ok THEN p
  ELSE [p EXCEPT !.off = (CHOOSE i \in p.off .. Len(p.mem) :
                            /\ i = Len(p.mem) \/ p.mem[i + 1] = Nul
                            /\ \A j \in p.off .. i - 1 : p.mem[j + 1] # Nul),
                 !.over = @ \/ \A i \in p.off + 1 .. Len(p.mem) : p.mem[i] # Nul]

RECURSIVE Digits(_)
Digits(n) == IF n < 10 THEN <<48 + n>> ELSE Append(Digits(n \div 10), 48 + (n % 10))
Decimal(n) == IF n < 0 THEN <<45>> \o Digits(-n) ELSE Digits(n)

print_number(n, p) == Write(ensure(p, Len(Decimal(n)) + 1), Append(Decimal(n), Nul), Len(Decimal(n)))

HexDigit(n) == IF n < 10 THEN 48 + n ELSE 87 + n
Escaped(c) ==
  CASE c = 8 -> <<Backslash, 98>> [] c = 12 -> <<Backslash, 102>>
    [] c = 10 -> <<Backslash, 110>> [] c = 13 -> <<Backslash, 114>>
    [] c = 9 -> <<Backslash, 116>> [] c \in {Quote, Backslash} -> <<Backslash, c>>
    [] c > 31 -> <<c>>
    [] OTHER -> <<Backslash, 117, 48, 48, HexDigit(c \div 16), HexDigit(c % 16)>>

\* The characters escaping adds, counted before the room is asked for.
Extra(c) ==
  IF c \in {Quote, Backslash, 8, 9, 10, 12, 13} THEN 1 ELSE IF c < 32 THEN 5 ELSE 0

EscapeCharacters(s) == FoldFunction(+, 0, [i \in DOMAIN s |-> Extra(s[i])])

print_string_ptr(s, p) ==
  Write(ensure(p, Len(s) + EscapeCharacters(s) + 3),
        <<Quote>> \o FlattenSeq([i \in DOMAIN s |-> Escaped(s[i])]) \o <<Quote, Nul>>, 0)

Tabs(n) == [i \in 1 .. n |-> 9]
Deeper(p, by) == [p EXCEPT !.depth = @ + by]
Put(p, needed, chars, forward) == Write(ensure(p, needed), chars, forward)

RECURSIVE print_value(_, _), PrintElements(_, _), PrintMembers(_, _)

\* print_array after the bracket.
PrintElements(c, p) ==
  IF c = <<>> THEN p
  ELSE LET q == update_offset(print_value(c[1], p))
           sep == IF q.format THEN <<Comma, 32>> ELSE <<Comma>>
       IN  IF Len(c) = 1 THEN q
           ELSE PrintElements(Tail(c), Put(q, Len(sep) + 1, Append(sep, Nul), Len(sep)))

print_array(c, p) ==
  Deeper(Put(PrintElements(c, Deeper(Put(p, 1, <<OpenArray>>, 1), 1)),
             2, <<CloseArray, Nul>>, 0), -1)

Indent(p) == IF p.format THEN Put(p, p.depth, Tabs(p.depth), p.depth) ELSE p
KeyEnd(p) == IF p.format THEN Put(p, 2, <<Colon, 9>>, 2) ELSE Put(p, 1, <<Colon>>, 1)
MemberEnd(p, last) ==
  LET end == (IF last THEN <<>> ELSE <<Comma>>) \o (IF p.format THEN <<10>> ELSE <<>>)
  IN  Put(p, Len(end) + 1, Append(end, Nul), Len(end))

PrintMembers(c, p) ==
  IF c = <<>> THEN p
  ELSE PrintMembers(Tail(c),
         MemberEnd(update_offset(print_value(c[1].v,
           KeyEnd(update_offset(print_string_ptr(c[1].name, Indent(p)))))), Len(c) = 1))

ObjectBegin(p) ==
  IF p.format THEN Put(p, 3, <<OpenObject, 10>>, 2) ELSE Put(p, 2, <<OpenObject>>, 1)
ObjectEnd(p) ==
  IF p.format THEN Put(p, p.depth + 1, Tabs(p.depth - 1) \o <<CloseObject, Nul>>, 0)
  ELSE Put(p, 2, <<CloseObject, Nul>>, 0)

print_object(c, p) ==
  Deeper(ObjectEnd(PrintMembers(c, Deeper(ObjectBegin(p), 1))), -1)

print_value(v, p) ==
  CASE v.k = "null"  -> Put(p, 5, Append(NullWord, Nul), 0)
    [] v.k = "false" -> Put(p, 6, Append(FalseWord, Nul), 0)
    [] v.k = "true"  -> Put(p, 5, Append(TrueWord, Nul), 0)
    [] v.k = "num"   -> print_number(v.n, p)
    [] v.k = "str"   -> print_string_ptr(v.s, p)
    [] v.k = "arr"   -> print_array(v.c, p)
    [] v.k = "obj"   -> print_object(v.c, p)

cJSON_Print(v, format) == update_offset(print_value(v, Buffer(DefaultSize, FALSE, format)))
cJSON_PrintPreallocated(v, room, format) == print_value(v, Buffer(room, TRUE, format))
Printed(p) == SubSeq(p.mem, 1, p.off)

-----------------------------------------------------------------------------
(* Comparing.                                                              *)

RECURSIVE cJSON_Compare(_, _)
\* The first member of that name.
FirstNamed(c, name) ==
  LET at == {i \in DOMAIN c : c[i].name = name}
  IN  IF at = {} THEN [k |-> "none"] ELSE c[CHOOSE i \in at : \A j \in at : i <= j].v

MembersAgree(c, d) ==
  /\ \A i \in DOMAIN c : cJSON_Compare(c[i].v, FirstNamed(d, c[i].name))
  /\ \A i \in DOMAIN d : cJSON_Compare(d[i].v, FirstNamed(c, d[i].name))

cJSON_Compare(v, w) ==
  /\ v.k = w.k /\ v.k # "none"
  /\ v.k = "num" => v.n = w.n
  /\ v.k = "str" => v.s = w.s
  /\ v.k = "arr" => Len(v.c) = Len(w.c) /\ \A i \in DOMAIN v.c : cJSON_Compare(v.c[i], w.c[i])
  /\ v.k = "obj" => MembersAgree(v.c, w.c)

\* cJSON_Duplicate(item, true).
RECURSIVE cJSON_Duplicate(_)
cJSON_Duplicate(v) ==
  IF v.k = "arr" THEN [k |-> "arr", c |-> [i \in DOMAIN v.c |-> cJSON_Duplicate(v.c[i])]]
  ELSE IF v.k = "obj"
  THEN [k |-> "obj", c |-> [i \in DOMAIN v.c |->
                             [name |-> v.c[i].name, v |-> cJSON_Duplicate(v.c[i].v)]]]
  ELSE v

-----------------------------------------------------------------------------
(* cJSON_Minify: blanks and comments go, strings are copied as they are.   *)

\* The last character of the string that minify_string copies from i on.  A
\* backslash hides a quote behind it, and nothing else.
RECURSIVE minify_string(_, _)
minify_string(s, i) ==
  IF i > Len(s) THEN Len(s)
  ELSE IF s[i] = Quote THEN i
  ELSE IF s[i] = Backslash /\ i < Len(s) /\ s[i + 1] = Quote THEN minify_string(s, i + 2)
  ELSE minify_string(s, i + 1)

\* Where a comment ends, and the text after it begins.
AfterComment(s, i, end) ==
  LET at == {j \in i + 2 .. Len(s) - Len(end) + 1 : SubSeq(s, j, j + Len(end) - 1) = end}
  IN  IF at = {} THEN Len(s) + 1 ELSE (CHOOSE j \in at : \A l \in at : j <= l) + Len(end)

RECURSIVE Minify(_, _)
MinifyString(s, i, end) == SubSeq(s, i, end) \o Minify(s, end + 1)
Minify(s, i) ==
  IF i > Len(s) THEN <<>>
  ELSE IF s[i] \in {32, 9, 13, 10} THEN Minify(s, i + 1)
  ELSE IF s[i] = Quote THEN MinifyString(s, i, minify_string(s, i + 1))
  ELSE IF s[i] # 47 THEN <<s[i]>> \o Minify(s, i + 1)
  ELSE IF i < Len(s) /\ s[i + 1] = 47 THEN Minify(s, AfterComment(s, i, <<10>>))
  ELSE IF i < Len(s) /\ s[i + 1] = 42 THEN Minify(s, AfterComment(s, i, <<42, 47>>))
  ELSE Minify(s, i + 1)

cJSON_Minify(s) == Minify(s, 1)

-----------------------------------------------------------------------------
(* What the library promises.  The reference is a grammar, tried on every  *)
(* way to cut a text.  It is that of JSON but for four liberties the       *)
(* library takes: a blank is any character up to 32, a string may hold     *)
(* control characters, a number may begin with zeros, and anything may     *)
(* follow the document.  It shares no definition with the parser's escapes. *)

Cut(s, i, j) == SubSeq(s, i, j)
Blank(s) == \A i \in DOMAIN s : s[i] <= 32

\* The digits of base 16 in their two writings.
HexWritings == {<<48, 49, 50, 51, 52, 53, 54, 55, 56, 57, 97, 98, 99, 100, 101, 102>>,
                <<48, 49, 50, 51, 52, 53, 54, 55, 56, 57, 65, 66, 67, 68, 69, 70>>}
Nibbles(c) == {n \in 0 .. 15 : \E w \in HexWritings : w[n + 1] = c}

\* A code unit stands at i: a backslash, a u, and four digits of base 16.
IsUnit(s, i) ==
  /\ i + 5 <= Len(s) /\ s[i] = Backslash /\ s[i + 1] = 117
  /\ \A k \in i + 2 .. i + 5 : Nibbles(s[k]) # {}

Unit(s, i) ==
  FoldLeft(LAMBDA n, c : 16 * n + (CHOOSE d \in Nibbles(c) : TRUE), 0, Cut(s, i + 2, i + 5))

\* The first and the second unit of a surrogate pair.
Leads(u) == u \div 1024 = 54
Trails(u) == u \div 1024 = 55

IsPair(s, i) == IsUnit(s, i) /\ Leads(Unit(s, i)) /\ IsUnit(s, i + 6) /\ Trails(Unit(s, i + 6))
IsSingle(s, i) == IsUnit(s, i) /\ ~Leads(Unit(s, i)) /\ ~Trails(Unit(s, i))

\* Strings between their quotes: every backslash begins an escape.
RECURSIVE IsChars(_)
IsChars(s) ==
  \/ s = <<>>
  \/ s[1] # Backslash /\ IsChars(Tail(s))
  \/ /\ Len(s) >= 2 /\ s[1] = Backslash
     /\ \/ s[2] \in {98, 102, 110, 114, 116, Quote, Backslash, 47} /\ IsChars(Cut(s, 3, Len(s)))
        \/ IsSingle(s, 1) /\ IsChars(Cut(s, 7, Len(s)))
        \/ IsPair(s, 1) /\ IsChars(Cut(s, 13, Len(s)))

\* The bytes b are the UTF-8 of the code point: as many as the leading ones of the
\* first, six bits of it in each other, and none could be spared.
Spells(b, point) ==
  LET n == Len(b)
      lead == <<0, 192, 224, 240>>[n]
      rest == FoldLeft(LAMBDA m, c : 64 * m + c - 128, 0, Tail(b))
  IN  /\ \A i \in 2 .. n : b[i] \in 128 .. 191
      /\ b[1] - lead \in 0 .. <<127, 31, 15, 7>>[n]
      /\ (b[1] - lead) * 64 ^ (n - 1) + rest = point
      /\ point >= <<0, 128, 2048, 65536>>[n]

\* The characters s between quotes stand for the bytes b.  What follows a zero is
\* not seen: the value is a C string.
RECURSIVE StandsFor(_, _)
Begins(s, b, point, used) ==
  IF point = 0 THEN b = <<>>
  ELSE \E n \in 1 .. 4 : n <= Len(b) /\ Spells(Cut(b, 1, n), point)
                         /\ StandsFor(Cut(s, used + 1, Len(s)), Cut(b, n + 1, Len(b)))
StandsFor(s, b) ==
  IF s = <<>> THEN b = <<>>
  ELSE IF s[1] # Backslash THEN b # <<>> /\ b[1] = s[1] /\ StandsFor(Tail(s), Tail(b))
  ELSE IF IsPair(s, 1)
  THEN Begins(s, b, 65536 + 1024 * (Unit(s, 1) - 55296) + Unit(s, 7) - 56320, 12)
  ELSE IF IsSingle(s, 1) THEN Begins(s, b, Unit(s, 1), 6)
  ELSE \E w \in {<<98, 8>>, <<102, 12>>, <<110, 10>>, <<114, 13>>, <<116, 9>>,
                  <<Quote, Quote>>, <<Backslash, Backslash>>, <<47, 47>>} :
         s[2] = w[1] /\ Begins(s, b, w[2], 2)

\* An odd number of backslashes stands right before i.
Protected(s, i) ==
  \E n \in 1 .. i - 1 :
    /\ n % 2 = 1 /\ \A j \in i - n .. i - 1 : s[j] = Backslash
    /\ i - n = 1 \/ s[i - n - 1] # Backslash

IsString(s) ==
  /\ Len(s) >= 2 /\ s[1] = Quote
  /\ \A i \in 2 .. Len(s) : s[i] = Quote => (i = Len(s) <=> ~Protected(s, i))
  /\ Last(s) = Quote
  /\ IsChars(Cut(s, 2, Len(s) - 1))

IsNumber(s) ==
  LET d == IF s # <<>> /\ s[1] = 45 THEN Tail(s) ELSE s
  IN  d # <<>> /\ \A i \in DOMAIN d : IsDigit(d[i])

RECURSIVE IsValue(_, _), IsElements(_, _), IsMembers(_, _)
\* s is one value of at most depth nestings, with blanks around it.
IsPlain(s, depth) ==
  \/ s \in {NullWord, TrueWord, FalseWord} \/ IsString(s) \/ IsNumber(s)
  \/ /\ depth > 0 /\ Len(s) >= 2
     /\ \/ /\ s[1] = OpenArray /\ Last(s) = CloseArray
           /\ \/ Blank(Cut(s, 2, Len(s) - 1))
              \/ IsElements(Cut(s, 2, Len(s) - 1), depth - 1)
        \/ /\ s[1] = OpenObject /\ Last(s) = CloseObject
           /\ \/ Blank(Cut(s, 2, Len(s) - 1))
              \/ IsMembers(Cut(s, 2, Len(s) - 1), depth - 1)

Trim(s) ==
  LET at == {i \in DOMAIN s : s[i] > 32}
  IN  IF at = {} THEN <<>>
      ELSE Cut(s, CHOOSE i \in at : \A j \in at : i <= j, CHOOSE i \in at : \A j \in at : i >= j)

IsValue(s, depth) == IsPlain(Trim(s), depth)
IsElements(s, depth) ==
  \/ IsValue(s, depth)
  \/ \E i \in DOMAIN s : s[i] = Comma /\ IsValue(Cut(s, 1, i - 1), depth) /\ IsElements(Cut(s, i + 1, Len(s)), depth)
IsMembers(s, depth) ==
  \/ \E i \in DOMAIN s : s[i] = Colon /\ IsString(Trim(Cut(s, 1, i - 1))) /\ IsValue(Cut(s, i + 1, Len(s)), depth)
  \/ \E i \in DOMAIN s : s[i] = Comma /\ IsMembers(Cut(s, 1, i - 1), depth) /\ IsMembers(Cut(s, i + 1, Len(s)), depth)

Body(s) == IF Len(s) > 3 /\ Cut(s, 1, 3) = Bom THEN Cut(s, 4, Len(s)) ELSE s

\* The text begins with a value of the grammar, nested no deeper than the limit,
\* after blanks and a byte order mark.
IsDocument ==
  \E n \in 1 .. Len(Body(text)) : Body(text)[n] > 32 /\ IsValue(Cut(Body(text), 1, n), NestingLimit)

\* Somewhere four characters that are not all hexadecimal follow a \u.
LooseEscape ==
  \E i \in 1 .. Len(text) - 5 :
    /\ text[i] = Backslash /\ text[i + 1] = 117
    /\ \E k \in i + 2 .. i + 5 : Nibbles(text[k]) = {}

\* cJSON_Parse accepts every document of the grammar, and nothing else but texts
\* with a \u that is not followed by four hexadecimal digits: parse_hex4 reads those
\* as U+0000 (cJSON.c:549-584, 993-1116).
ParseExact ==
  /\ IsDocument => cJSON_Parse(text).ok
  /\ cJSON_Parse(text).ok => IsDocument \/ LooseEscape

\* A text that is one string is read as the bytes it stands for: escapes, units of
\* UTF-16 and surrogate pairs included (cJSON.c:585-855).
StringExact ==
  IsString(Trim(Body(text))) =>
    LET s == Trim(Body(text))
    IN  StandsFor(Cut(s, 2, Len(s) - 1), cJSON_Parse(text).v.s)

\* What was parsed can be printed, with layout and without, into a buffer that
\* grows from any size, with no write past its end, and parses to the same tree:
\* archiving the settings and reading them back changes nothing.
RoundTrip(v, p) ==
  ~p.over /\ p.ok /\ \E r \in {cJSON_Parse(Printed(p))} : r.ok /\ r.v = v
PrintRoundTrip ==
  \E r \in {cJSON_Parse(text)} :
    r.ok => \A format \in BOOLEAN : RoundTrip(r.v, cJSON_Print(r.v, format))

\* Printing into a buffer that was given never writes past it, gives the whole
\* text or says no, and does not say no with five characters to spare (cJSON.h).
FitsIn(v, full, format) ==
  \A room \in {1, 2, 5} \cup (Len(full) - 1 .. Len(full) + 6) :
    \E p \in {cJSON_PrintPreallocated(v, room, format)} :
      /\ ~p.over
      /\ p.ok => CString(p.mem) = full /\ Len(full) < room
      /\ room >= Len(full) + 5 => p.ok
PrintBounded ==
  \E r \in {cJSON_Parse(text)} :
    r.ok => \A format \in BOOLEAN : FitsIn(r.v, Printed(cJSON_Print(r.v, format)), format)

\* Equality of trees: members in any order, elements in theirs.
RECURSIVE SameTree(_, _), NoTwins(_)
SameTree(v, w) ==
  /\ v.k = w.k
  /\ v.k \in {"num", "str", "null", "true", "false"} => v = w
  /\ v.k = "arr" => Len(v.c) = Len(w.c) /\ \A i \in DOMAIN v.c : SameTree(v.c[i], w.c[i])
  /\ v.k = "obj" => /\ {m.name : m \in Range(v.c)} = {m.name : m \in Range(w.c)}
                    /\ \A m \in Range(v.c), n \in Range(w.c) : m.name = n.name => SameTree(m.v, n.v)
NoTwins(v) ==
  /\ v.k = "arr" => \A i \in DOMAIN v.c : NoTwins(v.c[i])
  /\ v.k = "obj" => \A i \in DOMAIN v.c :
       NoTwins(v.c[i].v) /\ \A j \in DOMAIN v.c : v.c[i].name = v.c[j].name => i = j

\* cJSON_Compare tells trees apart exactly, and the same both ways, and a copy by
\* cJSON_Duplicate is equal, as long as no object has two members of one name.
CompareExact ==
  \E r \in {cJSON_Parse(text)} : r.ok /\ NoTwins(r.v) =>
    /\ cJSON_Compare(r.v, cJSON_Duplicate(r.v))
    /\ \A s \in Seeds : \E q \in {cJSON_Parse(s)} :
      q.ok /\ NoTwins(q.v) => /\ cJSON_Compare(r.v, q.v) <=> SameTree(r.v, q.v)
                              /\ cJSON_Compare(r.v, q.v) <=> cJSON_Compare(q.v, r.v)

\* cJSON_Minify changes the layout of a document and not what it says, unless a
\* string ends in an escaped backslash, where minify_string misses the end.
EscapedBackslashEnds(s) ==
  \E i \in 3 .. Len(s) : s[i] = Quote /\ s[i - 1] = Backslash /\ s[i - 2] = Backslash
MinifySame ==
  IsValue(text, NestingLimit) /\ ~EscapedBackslashEnds(text) =>
    cJSON_Parse(cJSON_Minify(text)).v = cJSON_Parse(text).v

\* What cJSON.c reads: it accepts the grammar and what ParseExact excepts, gives a
\* string its bytes, tells documents apart and minifies them without changing what
\* they say.
JsonExact == ParseExact /\ StringExact /\ CompareExact /\ MinifySame

\* What cJSON.c prints: all of it, within the buffer, and readable again.
PrintExact == PrintRoundTrip /\ PrintBounded
=============================================================================
