------------------------------ MODULE JsonText ------------------------------
(***************************************************************************)
(* The parser and the printer of cJSON.c, byte by byte. An item is its     *)
(* type, its value (the bytes of a string, a number) and its named kids.   *)
(* The printer writes into a buffer of a given size that it may or may not *)
(* let grow; the parser reads a buffer of a given length.                  *)
(***************************************************************************)
EXTENDS Integers, Sequences

CONSTANTS
  IntMax,                \* INT_MAX, -IntMax - 1 is INT_MIN
  CJSON_NESTING_LIMIT

Quote == 34   Backslash == 92   Comma == 44   Colon == 58   Minus == 45
OpenArray == 91   CloseArray == 93   OpenObject == 123   CloseObject == 125
Tab == 9   Newline == 10   Space == 32
NullText == <<110, 117, 108, 108>>
TrueText == <<116, 114, 117, 101>>
FalseText == <<102, 97, 108, 115, 101>>
BOM == <<239, 187, 191>>
Digit(c) == c \in 48 .. 57

Item(type, value, kids) == [type |-> type, value |-> value, kids |-> kids]
Kid(name, item) == [name |-> name, item |-> item]

\* cJSON_SetNumberHelper and the parser: valueint saturates, valuedouble does not.
Saturated(number) ==
  IF number >= IntMax THEN IntMax ELSE IF number <= -IntMax - 1 THEN -IntMax - 1 ELSE number
Number(n) == Item("number", [valuedouble |-> n, valueint |-> Saturated(n)], <<>>)

-----------------------------------------------------------------------------
(***************************************************************************)
(* The print buffer. memory is the number of times it may still grow; bad: *)
(* a byte outside the buffer was written or read.                          *)
(***************************************************************************)
UNSET == 255
Buffer(size, noalloc, format, memory) ==
  [bytes |-> [i \in 1 .. size |-> UNSET], offset |-> 0, depth |-> 0, noalloc |-> noalloc,
   format |-> format, memory |-> memory, ok |-> TRUE, bad |-> FALSE]
Failed(p) == [p EXCEPT !.ok = FALSE]

ensure_NoMark(p, n) ==
  IF n + p.offset <= Len(p.bytes) THEN p
  ELSE IF p.noalloc \/ p.memory = 0 THEN Failed(p)
  ELSE [p EXCEPT !.memory = @ - 1,
          !.bytes = [i \in 1 .. n + p.offset |-> IF i <= Len(@) THEN @[i] ELSE UNSET]]
ensure(p, n) ==
  LET length == Len(p.bytes)
      needed == n + p.offset + 1
  IN IF ~p.ok \/ (length > 0 /\ p.offset >= length) THEN Failed(p)
     ELSE IF needed <= length THEN p
     ELSE IF p.noalloc \/ p.memory = 0 THEN Failed(p)
     ELSE [p EXCEPT !.memory = @ - 1,
             !.bytes = [i \in 1 .. 2 * needed |-> IF i <= length THEN @[i] ELSE UNSET]]

\* ensure, then bytes written at the offset, which moves by advance.
Emit(p, needed, text, advance) ==
  LET q == ensure(p, needed)
      at == q.offset
  IN IF ~q.ok THEN q
     ELSE [q EXCEPT !.offset = @ + advance,
             !.bad = @ \/ at + Len(text) > Len(q.bytes),
             !.bytes = [i \in DOMAIN @ |-> IF i > at /\ i <= at + Len(text)
                                             THEN text[i - at] ELSE @[i]]]

\* strlen from the offset.
update_offset(p) ==
  LET ends == {i \in p.offset + 1 .. Len(p.bytes) : p.bytes[i] = 0}
  IN IF ~p.ok THEN p
     ELSE IF ends = {} THEN [p EXCEPT !.bad = TRUE]
     ELSE [p EXCEPT !.offset = (CHOOSE i \in ends : \A j \in ends : i <= j) - 1]

Terminated(text) == Append(text, 0)

Decimal(n) ==
  LET Digits[k \in Nat] == IF k < 10 THEN <<48 + k>>
                           ELSE Append(Digits[k \div 10], 48 + (k % 10))
  IN IF n < 0 THEN <<Minus>> \o Digits[-n] ELSE Digits[n]

\* Whole numbers: %d when the integer has the value, else the digits of the double.
print_number(value, p) ==
  LET text == Decimal(IF value.valuedouble = value.valueint THEN value.valueint
                                                            ELSE value.valuedouble)
  IN Emit(p, Len(text) + 1, Terminated(text), Len(text))

HexDigit(d) == IF d < 10 THEN 48 + d ELSE 87 + d
Escape(c) ==
  CASE c \in {Quote, Backslash} -> <<Backslash, c>>
    [] c = 8 -> <<Backslash, 98>>  [] c = 12 -> <<Backslash, 102>>
    [] c = 10 -> <<Backslash, 110>> [] c = 13 -> <<Backslash, 114>>
    [] c = 9 -> <<Backslash, 116>>
    [] c < 32 /\ c \notin {8, 9, 10, 12, 13} ->
         <<Backslash, 117, 48, 48, HexDigit(c \div 16), HexDigit(c % 16)>>
    [] OTHER -> <<c>>

print_string_ptr(input, p) ==
  LET Escaped[i \in 0 .. Len(input)] ==
        IF i = 0 THEN <<>> ELSE Escaped[i - 1] \o Escape(input[i])
      text == Escaped[Len(input)]
  IN Emit(p, Len(text) + 3, <<Quote>> \o text \o <<Quote, 0>>, 0)

Deeper(p, by) == [p EXCEPT !.depth = @ + by]
Tabs(n) == [i \in 1 .. n |-> Tab]

RECURSIVE print_value(_, _), print_elements(_, _, _), print_members(_, _, _)

print_array(item, p) ==
  LET q == print_elements(item.kids, 1, Deeper(Emit(p, 1, <<OpenArray>>, 1), 1))
  IN Deeper(Emit(q, 2, <<CloseArray, 0>>, 0), -1)

print_elements(kids, i, p) ==
  IF i > Len(kids) THEN p
  ELSE LET q == update_offset(print_value(kids[i].item, p))
           comma == IF p.format THEN <<Comma, Space>> ELSE <<Comma>>
       IN print_elements(kids, i + 1,
            IF i < Len(kids) THEN Emit(q, Len(comma) + 1, Terminated(comma), Len(comma))
                             ELSE q)

print_object(item, p) ==
  LET open == IF p.format THEN <<OpenObject, Newline>> ELSE <<OpenObject>>
      q == print_members(item.kids, 1, Deeper(Emit(p, Len(open) + 1, open, Len(open)), 1))
      close == (IF p.format THEN Tabs(q.depth - 1) ELSE <<>>) \o <<CloseObject, 0>>
  IN Deeper(Emit(q, IF p.format THEN q.depth + 1 ELSE 2, close, 0), -1)

print_members(kids, i, p) ==
  IF i > Len(kids) THEN p
  ELSE LET indented == IF p.format THEN Emit(p, p.depth, Tabs(p.depth), p.depth) ELSE p
           named == update_offset(print_string_ptr(kids[i].name, indented))
           colon == IF p.format THEN <<Colon, Tab>> ELSE <<Colon>>
           valued == update_offset(
             print_value(kids[i].item, Emit(named, Len(colon), colon, Len(colon))))
           end == (IF i < Len(kids) THEN <<Comma>> ELSE <<>>)
                    \o (IF p.format THEN <<Newline>> ELSE <<>>)
       IN print_members(kids, i + 1, Emit(valued, Len(end) + 1, Terminated(end), Len(end)))

print_value(item, p) ==
  CASE item.type = "null" -> Emit(p, 5, Terminated(NullText), 0)
    [] item.type = "false" -> Emit(p, 6, Terminated(FalseText), 0)
    [] item.type = "true" -> Emit(p, 5, Terminated(TrueText), 0)
    [] item.type = "number" -> print_number(item.value, p)
    [] item.type = "raw" -> Emit(p, Len(item.value) + 1, Terminated(item.value), 0)
    [] item.type = "string" -> print_string_ptr(item.value, p)
    [] item.type = "array" -> print_array(item, p)
    [] item.type = "object" -> print_object(item, p)

\* cJSON_PrintBuffered and print(), which passes 256: a buffer that may grow.
Printed(item, prebuffer, format, memory) ==
  update_offset(print_value(item, Buffer(prebuffer, FALSE, format, memory)))
cJSON_PrintPreallocated(item, length, format) ==
  print_value(item, Buffer(length, TRUE, format, 0))
\* The C string in the buffer.
Text(p) == SubSeq(p.bytes, 1, update_offset([p EXCEPT !.offset = 0]).offset)

-----------------------------------------------------------------------------
(***************************************************************************)
(* The parser: a call takes an offset and returns whether it succeeded,    *)
(* the offset it reached and the item. bad: it looked behind the buffer.   *)
(***************************************************************************)
Parsed(offset, item) == [ok |-> TRUE, bad |-> FALSE, offset |-> offset, item |-> item]
Error(offset) == [ok |-> FALSE, bad |-> FALSE, offset |-> offset, item |-> <<>>]
Outside(offset) == [Error(offset) EXCEPT !.bad = TRUE]
Is(b, o, c) == o < Len(b) /\ b[o + 1] = c
Begins(b, o, text) == o + Len(text) <= Len(b) /\ SubSeq(b, o + 1, o + Len(text)) = text

\* '\0' counts as white space; at the end of the buffer the last byte is current.
buffer_skip_whitespace(b, o) ==
  LET seen == {i \in o .. Len(b) - 1 : b[i + 1] > 32}
  IN IF o >= Len(b) THEN o
     ELSE IF seen = {} THEN Len(b) - 1
     ELSE CHOOSE i \in seen : \A j \in seen : i <= j
skip_utf8_bom(b) == IF 4 < Len(b) /\ Begins(b, 0, BOM) THEN 3 ELSE 0

\* strtod on what looks like a number, for whole numbers: a sign and digits.
parse_number(b, o) ==
  LET sign == IF b[o + 1] \in {43, Minus} THEN 1 ELSE 0
      digits == {i \in o + sign .. Len(b) - 1 : \A j \in o + sign .. i : Digit(b[j + 1])}
      end == o + sign + (IF digits = {} THEN 0
                         ELSE (CHOOSE i \in digits : \A j \in digits : i >= j) - o - sign + 1)
      Value[i \in o + sign .. end] ==
        IF i = o + sign THEN 0 ELSE Value[i - 1] * 10 + b[i] - 48
  IN IF digits = {} THEN Error(o)
     ELSE Parsed(end, Number(IF b[o + 1] = Minus THEN -Value[end] ELSE Value[end]))

HexValue(c) == IF Digit(c) THEN c - 48
               ELSE IF c \in 65 .. 70 THEN c - 55 ELSE IF c \in 97 .. 102 THEN c - 87 ELSE -1
\* What is no digit makes the whole number 0.
parse_hex4(b, o) ==
  LET d == [i \in 1 .. 4 |-> HexValue(b[o + i])]
  IN IF \E i \in 1 .. 4 : d[i] < 0 THEN 0
     ELSE d[1] * 4096 + d[2] * 256 + d[3] * 16 + d[4]

Utf8(c) ==
  LET Mark(k) == 128 + ((c \div k) % 64)
  IN IF c < 128 THEN <<c>>
     ELSE IF c < 2048 THEN <<192 + (c \div 64), Mark(1)>>
     ELSE IF c < 65536 THEN <<224 + (c \div 4096), Mark(64), Mark(1)>>
     ELSE <<240 + (c \div 262144), Mark(4096), Mark(64), Mark(1)>>

\* \uXXXX at o, before the closing quote at end: the bytes read and their text, or
\* no bytes when it is no character or half of one.
utf16_literal_to_utf8(b, o, end) ==
  LET first == parse_hex4(b, o + 2)
      second == parse_hex4(b, o + 8)
      No == [length |-> 0, text |-> <<>>]
  IN IF end - o < 6 \/ first \in 56320 .. 57343 THEN No
     ELSE IF first \notin 55296 .. 56319 THEN [length |-> 6, text |-> Utf8(first)]
     ELSE IF end - o < 12 \/ ~Begins(b, o + 6, <<Backslash, 117>>)
             \/ second \notin 56320 .. 57343 THEN No
     ELSE [length |-> 12,
           text |-> Utf8(65536 + (first % 1024) * 1024 + (second % 1024))]

\* What a C string shows of bytes among which \u has put a zero.
CString(bytes) ==
  LET n == {i \in DOMAIN bytes : \A j \in 1 .. i : bytes[j] # 0} IN [i \in n |-> bytes[i]]

\* The closing quote is searched for first, a byte behind a backslash skipped.
parse_string(b, o) ==
  LET Close[i \in Nat] == IF i >= Len(b) THEN -1
                          ELSE IF b[i + 1] = Quote THEN i
                          ELSE IF b[i + 1] = Backslash
                            THEN IF i + 1 >= Len(b) THEN -1 ELSE Close[i + 2]
                          ELSE Close[i + 1]
      end == Close[o + 1]
      Plain(c) == CASE c = 98 -> <<8>> [] c = 102 -> <<12>> [] c = 110 -> <<10>>
                    [] c = 114 -> <<13>> [] c = 116 -> <<9>>
                    [] c \in {Quote, Backslash, 47} -> <<c>> [] OTHER -> <<>>
      Then(head, rest) == IF rest.ok THEN [rest EXCEPT !.item = head \o @] ELSE rest
      From[i \in Nat] ==
        IF i >= end THEN Parsed(end + 1, <<>>)
        ELSE IF b[i + 1] # Backslash THEN Then(<<b[i + 1]>>, From[i + 1])
        ELSE IF b[i + 2] = 117
          THEN LET u == utf16_literal_to_utf8(b, i, end)
               IN IF u.length = 0 THEN Error(i) ELSE Then(u.text, From[i + u.length])
        ELSE IF Plain(b[i + 2]) = <<>> THEN Error(i)
        ELSE Then(Plain(b[i + 2]), From[i + 2])
  IN IF o >= Len(b) THEN Outside(o)
     ELSE IF b[o + 1] # Quote \/ end < 0 THEN Error(o + 1)
     ELSE IF From[o + 1].ok THEN [From[o + 1] EXCEPT !.item = CString(@)] ELSE From[o + 1]

RECURSIVE parse_value(_, _, _), parse_elements(_, _, _), parse_members(_, _, _)

\* parse_array and parse_object: a loop over the kids, or nothing between the
\* brackets. They step back in front of the first kid: parse_* steps forward again.
parse_list(b, o, depth, type, close) ==
  LET first == buffer_skip_whitespace(b, o + 1)
      kids == IF type = "array" THEN parse_elements(b, first - 1, depth + 1)
                                 ELSE parse_members(b, first - 1, depth + 1)
  IN IF depth >= CJSON_NESTING_LIMIT THEN Error(o)
     ELSE IF Is(b, first, close) THEN Parsed(first + 1, Item(type, <<>>, <<>>))
     ELSE IF first >= Len(b) THEN Error(first - 1)
     ELSE IF ~kids.ok THEN kids
     ELSE IF ~Is(b, kids.offset, close) THEN Error(kids.offset)
     ELSE Parsed(kids.offset + 1, Item(type, <<>>, kids.item))

\* A kid that has been parsed, and the others while a comma follows.
Continue(b, kid, name, depth, type) ==
  LET end == buffer_skip_whitespace(b, kid.offset)
      more == IF type = "array" THEN parse_elements(b, end, depth)
                                 ELSE parse_members(b, end, depth)
      this == <<Kid(name, kid.item)>>
  IN IF ~kid.ok THEN kid
     ELSE IF ~Is(b, end, Comma) THEN Parsed(end, this)
     ELSE IF more.ok THEN [more EXCEPT !.item = this \o @] ELSE more

parse_elements(b, o, depth) ==
  Continue(b, parse_value(b, buffer_skip_whitespace(b, o + 1), depth), <<>>, depth, "array")

parse_members(b, o, depth) ==
  LET name == parse_string(b, buffer_skip_whitespace(b, o + 1))
      colon == buffer_skip_whitespace(b, name.offset)
  IN IF ~name.ok THEN name
     ELSE IF ~Is(b, colon, Colon) THEN Error(colon)
     ELSE Continue(b, parse_value(b, buffer_skip_whitespace(b, colon + 1), depth),
                   name.item, depth, "object")

parse_value(b, o, depth) ==
  IF Begins(b, o, NullText) THEN Parsed(o + 4, Item("null", <<>>, <<>>))
  ELSE IF Begins(b, o, FalseText) THEN Parsed(o + 5, Item("false", <<>>, <<>>))
  ELSE IF Begins(b, o, TrueText) THEN Parsed(o + 4, Item("true", <<>>, <<>>))
  ELSE IF Is(b, o, Quote)
    THEN LET s == parse_string(b, o)
         IN IF s.ok THEN [s EXCEPT !.item = Item("string", @, <<>>)] ELSE s
  ELSE IF o < Len(b) /\ (b[o + 1] = Minus \/ Digit(b[o + 1])) THEN parse_number(b, o)
  ELSE IF Is(b, o, OpenArray)
    THEN parse_list(b, o, depth, "array", CloseArray)
  ELSE IF Is(b, o, OpenObject)
    THEN parse_list(b, o, depth, "object", CloseObject)
  ELSE Error(o)

\* On failure offset is the place global_error.position names.
cJSON_ParseWithLengthOpts(b, require_null_terminated) ==
  LET v == parse_value(b, buffer_skip_whitespace(b, skip_utf8_bom(b)), 0)
      end == buffer_skip_whitespace(b, v.offset)
      At(o) == [v EXCEPT !.ok = FALSE, !.item = <<>>,
                  !.offset = IF o < Len(b) THEN o ELSE Len(b) - 1]
  IN IF b = <<>> THEN Error(0)
     ELSE IF ~v.ok THEN At(v.offset)
     ELSE IF ~require_null_terminated THEN v
     ELSE IF Is(b, end, 0) THEN [v EXCEPT !.offset = end] ELSE At(end)
cJSON_ParseWithOpts(text, require_null_terminated) ==
  cJSON_ParseWithLengthOpts(Terminated(text), require_null_terminated)

-----------------------------------------------------------------------------
(***************************************************************************)
(* cJSON_Minify: white space and comments go, strings stay. A quote behind *)
(* a backslash does not end a string, whatever stands before the backslash.*)
(***************************************************************************)
Behind(s, i, text) ==    \* the place behind the next text, or the end
  LET at == {k \in i .. Len(s) : Begins(s, k - 1, text)}
  IN IF at = {} THEN Len(s) + 1 ELSE (CHOOSE k \in at : \A j \in at : k <= j) + Len(text)
minify_string(s, i) ==   \* the place behind the string that begins at i
  LET From[k \in Nat] == IF k > Len(s) THEN k
                         ELSE IF s[k] = Quote THEN k + 1
                         ELSE IF Begins(s, k - 1, <<Backslash, Quote>>) THEN From[k + 2]
                         ELSE From[k + 1]
  IN From[i + 1]
cJSON_Minify(s) ==
  LET From[i \in Nat] ==
        IF i > Len(s) THEN <<>>
        ELSE IF s[i] \in {Space, Tab, Newline, 13} THEN From[i + 1]
        ELSE IF Begins(s, i - 1, <<47, 47>>) THEN From[Behind(s, i + 2, <<Newline>>)]
        ELSE IF Begins(s, i - 1, <<47, 42>>) THEN From[Behind(s, i + 2, <<42, 47>>)]
        ELSE IF s[i] = 47 THEN From[i + 1]
        ELSE IF s[i] = Quote
          THEN SubSeq(s, i, minify_string(s, i) - 1) \o From[minify_string(s, i)]
        ELSE <<s[i]>> \o From[i + 1]
  IN From[1]

-----------------------------------------------------------------------------
(***************************************************************************)
(* Lookup by name and comparison.                                          *)
(***************************************************************************)
tolower(c) == IF c \in 65 .. 90 THEN c + 32 ELSE c
case_insensitive_equal(s, t) ==
  [i \in DOMAIN s |-> tolower(s[i])] = [i \in DOMAIN t |-> tolower(t[i])]

\* The first kid of that name, 0 when there is none.
get_object_item(object, name, case_sensitive) ==
  LET same == {i \in DOMAIN object.kids :
                 IF case_sensitive THEN object.kids[i].name = name
                 ELSE case_insensitive_equal(object.kids[i].name, name)}
  IN IF same = {} THEN 0 ELSE CHOOSE i \in same : \A j \in same : i <= j

RECURSIVE cJSON_Compare(_, _, _)
\* Members are looked up by name in both directions, their order does not matter.
Covers(a, b, case_sensitive) ==
  \A i \in DOMAIN a.kids :
    LET k == get_object_item(b, a.kids[i].name, case_sensitive)
    IN k # 0 /\ cJSON_Compare(a.kids[i].item, b.kids[k].item, case_sensitive)
cJSON_Compare(a, b, case_sensitive) ==
  /\ a.type = b.type
  /\ CASE a.type = "number" -> a.value.valuedouble = b.value.valuedouble
       [] a.type \in {"string", "raw"} -> a.value = b.value
       [] a.type = "array" ->
            /\ Len(a.kids) = Len(b.kids)
            /\ \A i \in DOMAIN a.kids :
                 cJSON_Compare(a.kids[i].item, b.kids[i].item, case_sensitive)
       [] a.type = "object" -> Covers(a, b, case_sensitive) /\ Covers(b, a, case_sensitive)
       [] OTHER -> TRUE

-----------------------------------------------------------------------------
\* The printer never leaves its buffer, whatever the size it was given, and returns
\* success only with the whole text; five bytes more than the text are enough, as
\* cJSON.h says; a buffer that may grow gives the same text for every first size, or
\* fails when memory runs out.
PrintsInBuffer(item) ==
  \A format \in BOOLEAN :
    LET whole == Text(Printed(item, 256, format, 9))
    IN /\ \A size \in 0 .. Len(whole) + 5 :
            LET p == cJSON_PrintPreallocated(item, size, format)
            IN /\ ~p.bad
               /\ p.ok => Text(p) = whole
               /\ size = Len(whole) + 5 => p.ok
       /\ \A prebuffer \in 0 .. 2, memory \in {0, 1, 9} :
            LET p == Printed(item, prebuffer, format, memory)
            IN /\ ~p.bad
               /\ p.ok => Text(p) = whole /\ p.offset = Len(whole) /\ p.depth = 0
               /\ memory = 9 => p.ok

\* No two members of an object that a lookup without regard to case would confuse.
RECURSIVE Unambiguous(_)
Unambiguous(item) ==
  \A i \in DOMAIN item.kids :
    /\ Unambiguous(item.kids[i].item)
    /\ item.type = "object" => get_object_item(item, item.kids[i].name, FALSE) = i
\* A string or a name with a backslash at its end: cJSON_Minify takes its closing quote
\* for one behind a backslash and goes on as if the string had not ended.
RECURSIVE EndsInBackslash(_)
EndsInBackslash(item) ==
  LET Ends(text) == text # <<>> /\ text[Len(text)] = Backslash
  IN \/ item.type = "string" /\ Ends(item.value)
     \/ \E i \in DOMAIN item.kids : Ends(item.kids[i].name) \/ EndsInBackslash(item.kids[i].item)

\* What is printed is parsed back as the same item, to the end of the text, in either
\* layout; an item compares equal to what came back; and what cJSON_Minify makes of the
\* text is the text without layout, unless a string ends in a backslash.
ParsesBack(item) ==
  \A format \in BOOLEAN :
    LET text == Text(Printed(item, 256, format, 9))
        back == cJSON_ParseWithOpts(text, TRUE)
    IN /\ back.ok /\ back.item = item /\ back.offset = Len(text)
       /\ EndsInBackslash(item) \/ cJSON_Minify(text) = Text(Printed(item, 256, FALSE, 9))
       /\ Unambiguous(item) => \A c \in BOOLEAN : cJSON_Compare(item, back.item, c)

RECURSIVE Depth(_)
Depth(item) ==
  IF item.kids = <<>> THEN IF item.type \in {"array", "object"} THEN 1 ELSE 0
  ELSE LET d == {Depth(item.kids[i].item) : i \in DOMAIN item.kids}
       IN 1 + CHOOSE x \in d : \A y \in d : y <= x
\* The parser looks at nothing behind a text with an end mark; behind one without it, only
\* when the text breaks off after a comma, whose next name it then takes for there
\* (cJSON.c:1659, 781). The place of an error is inside; what it accepts is printed and
\* accepted again as the same; and no item is nested deeper than the limit.
ParsesInside(text) ==
  LET v == cJSON_ParseWithOpts(text, FALSE)
      cut == cJSON_ParseWithLengthOpts(text, FALSE)
  IN /\ ~v.bad /\ v.offset <= Len(text)
     /\ cut.bad => text[Len(text)] = Comma
     /\ cut.ok => v.ok /\ v.item = cut.item
     /\ v.ok => ParsesBack(v.item) /\ Depth(v.item) <= CJSON_NESTING_LIMIT
=============================================================================
