-------------------------------- MODULE Ini ---------------------------------
(***************************************************************************)
(* SimpleIni.h: the INI file object. A text is a sequence of symbols: a    *)
(* word, a blank, a line end, a bracket, "=", a comment mark or "<<<". The *)
(* loader works in place: it ends the strings it finds with EOS inside the *)
(* text, and sections, keys, values and comments are places in it. Strings *)
(* are values once they are in the object; their memory is not modelled.   *)
(***************************************************************************)
EXTENDS Integers, Sequences, FiniteSets
LOCAL INSTANCE SequencesExt

CONSTANT LowerOf     \* the lower case of the symbols that have one

EOS == ""
NewLine == "\n"
LineEnds == {NewLine, "\r"}
Blanks == {" ", "\t"}
BOM == "BOM"
Multi == "<<<"
END_OF_TEXT == "END_OF_TEXT"
NULL == <<"NULL">>   \* the pointer
None == 0            \* NULL, for a place in the text

IsNewLineChar(c) == c \in LineEnds
IsSpace(c) == c \in LineEnds \cup Blanks
IsComment(c) == c \in {";", "#"}
\* SI_GenericNoCase: equal when neither is less.
Lower(name) == [i \in DOMAIN name |->
  IF name[i] \in DOMAIN LowerOf THEN LowerOf[name[i]] ELSE name[i]]

-----------------------------------------------------------------------------
\* The loops of the parser over d, a text that ends with EOS, from place p.
Find(d, p, stops) ==
  CHOOSE q \in p .. Len(d) : /\ d[q] \in stops \cup {EOS}
                             /\ \A r \in p .. q - 1 : d[r] \notin stops \cup {EOS}
Skip(d, p, blanks) ==
  CHOOSE q \in p .. Len(d) : d[q] \notin blanks /\ \A r \in p .. q - 1 : d[r] \in blanks
SkipNewLine(d, p) == IF d[p] = "\r" /\ d[p + 1] = NewLine THEN p + 2 ELSE p + 1
String(d, p) == SubSeq(d, p, Find(d, p, {}) - 1)
\* EOS behind what stands in from .. to, trailing blanks cut off.
Terminate(d, from, to) ==
  LET solid == {i \in from .. to : ~IsSpace(d[i])}
  IN [d EXCEPT ![IF solid = {} THEN from
                 ELSE 1 + CHOOSE i \in solid : \A j \in solid : j <= i] = EOS]

\* LoadMultiLineText. Lines are moved down to line, where the text grows, each with
\* one line end; it ends behind the tag, at the first line that is no comment (blank
\* lines stay when a comment follows them), or at the end of the data.
RECURSIVE MultiLines(_, _, _, _, _, _)
MultiLines(d, start, line, p, tag, allowBlankLines) ==
  LET Found(data, pos) == [data |-> data, pos |-> pos, val |-> start]
      next == Skip(d, p, Blanks \cup LineEnds)
      ends == {i \in p .. next - 1 : d[i] \in LineEnds
                                     /\ ~(d[i] = "\r" /\ d[i + 1] = NewLine)}
      eol == Find(d, p, LineEnds)
      n == eol - p
      moved == IF line < p
                 THEN [i \in DOMAIN d |-> IF i \in line .. line + n - 1 THEN d[p + i - line]
                                          ELSE IF i = line + n THEN EOS ELSE d[i]]
                 ELSE d
      ended == [moved EXCEPT ![eol] = EOS]
  IN IF tag = NULL /\ ~IsComment(d[p])
       THEN IF allowBlankLines /\ IsComment(d[next])
              THEN MultiLines([i \in DOMAIN d |-> IF i \in line .. line + Cardinality(ends) - 1
                                                  THEN NewLine ELSE d[i]],
                              start, line + Cardinality(ends), next, tag, allowBlankLines)
            ELSE IF p = start THEN [data |-> d, pos |-> p, val |-> None]
            ELSE Found([d EXCEPT ![line - 1] = EOS], p)
     ELSE IF tag # NULL /\ Lower(String(ended, line)) = Lower(tag)
       THEN IF eol = start THEN [data |-> ended, pos |-> eol, val |-> None]
            ELSE IF d[eol] = EOS THEN Found([ended EXCEPT ![line - 1] = EOS], eol)
            ELSE Found([moved EXCEPT ![line - 1] = EOS], SkipNewLine(moved, eol))
     ELSE IF d[eol] = EOS THEN Found(ended, eol)
     ELSE MultiLines([moved EXCEPT ![line + n] = NewLine], start, line + n + 1,
                     SkipNewLine(moved, eol), tag, allowBlankLines)
LoadMultiLineText(d, p, tag, allowBlankLines) ==
  MultiLines(d, p, p, p, tag, allowBlankLines)

\* FindEntry: the next section or key behind p. A line that is neither is skipped;
\* the name of a section that is not closed has become the current one by then.
RECURSIVE FindEntry(_, _, _, _, _)
FindEntry(d, p, section, comment, multiLine) ==
  LET q == Skip(d, p, Blanks \cup LineEnds)
      remark == LoadMultiLineText(d, q, NULL, TRUE)
      name == Skip(d, q + 1, Blanks \cup LineEnds)
      close == Find(d, name, {"]"} \cup LineEnds)
      equals == Find(d, q, {"="} \cup LineEnds)
      keyed == Terminate(d, q, equals - 1)
      val == Skip(keyed, equals + 1, Blanks)
      end == Find(keyed, val, LineEnds)
      after == IF keyed[end] = EOS THEN end ELSE SkipNewLine(keyed, end)
      valued == Terminate(keyed, val, end - 1)
      long == LoadMultiLineText(valued, after, String(valued, val + 1), FALSE)
      Entry(data, pos, s, k, v) ==
        [found |-> TRUE, data |-> data, pos |-> pos, section |-> s, key |-> k, val |-> v,
         comment |-> comment]
  IN IF d[q] = EOS THEN [found |-> FALSE, data |-> d]
     ELSE IF IsComment(d[q])
       THEN FindEntry(remark.data, remark.pos, section, remark.val, multiLine)
     ELSE IF d[q] = "["
       THEN IF d[close] # "]" THEN FindEntry(d, close, name, comment, multiLine)
            ELSE Entry(Terminate(d, name, close - 1), Find(d, close + 1, LineEnds),
                       name, None, None)
     ELSE IF d[equals] # "=" THEN FindEntry(d, equals, section, comment, multiLine)
     ELSE IF equals = q
       THEN FindEntry(d, Find(d, q, LineEnds), section, comment, multiLine)
     ELSE IF multiLine /\ valued[val] = Multi
       THEN [Entry(long.data, long.pos, section, q, long.val) EXCEPT
               !.found = long.val # None]
     ELSE Entry(valued, after, section, q, val)

-----------------------------------------------------------------------------
\* The object: m_data maps a section to its name, comment, load order and keys, the
\* keys in the order the multimap keeps equal ones in. pData: a text was loaded.
New(multiKey, multiLine) ==
  [data |-> <<>>, pData |-> FALSE, fileComment |-> NULL, nOrder |-> 0,
   multiKey |-> multiKey, multiLine |-> multiLine, spaces |-> TRUE, utf8 |-> TRUE]
\* Reset(), also the destructor: the settings stay.
Reset(ini) == [ini EXCEPT !.data = <<>>, !.pData = FALSE, !.fileComment = NULL]

HasSection(ini, s) == Lower(s) \in DOMAIN ini.data
Same(keys, k) == {i \in DOMAIN keys : Lower(keys[i].name) = Lower(k)}
Keys(ini, s) == ini.data[Lower(s)].keys
First(is) == CHOOSE i \in is : \A j \in is : i <= j
WithKeys(ini, s, keys) == [ini EXCEPT !.data[Lower(s)].keys = keys]
Without(keys, is) ==
  LET Keep[i \in 0 .. Len(keys)] ==
        IF i = 0 THEN <<>> ELSE IF i \in is THEN Keep[i - 1] ELSE Append(Keep[i - 1], keys[i])
  IN Keep[Len(keys)]

\* DeleteValue; Delete() passes NULL as value. NULL as key: the whole section.
DeleteValue(ini, s, k, v, removeEmpty) ==
  LET gone == {i \in Same(Keys(ini, s), k) : v = NULL \/ Lower(Keys(ini, s)[i].value) = Lower(v)}
      left == Without(Keys(ini, s), gone)
      NoSection == [ini EXCEPT !.data = [f \in DOMAIN @ \ {Lower(s)} |-> @[f]]]
  IN IF ~HasSection(ini, s) THEN ini
     ELSE IF k = NULL THEN NoSection
     ELSE IF gone # {} /\ left = <<>> /\ removeEmpty THEN NoSection
     ELSE WithKeys(ini, s, left)

\* AddEntry; SetValue() is AddEntry. A key that replaces others keeps the load order
\* and the comment of the first of them.
AddEntry(ini, s, k, v, comment, forceReplace) ==
  LET new == ~HasSection(ini, s)
      numbered == IF new THEN ini.nOrder + 1 ELSE ini.nOrder
      section == [name |-> s, order |-> numbered, keys |-> <<>>,
                  comment |-> IF k = NULL \/ v = NULL THEN comment ELSE NULL]
      made == [ini EXCEPT !.nOrder = numbered,
                 !.data = IF new THEN [f \in DOMAIN @ \cup {Lower(s)} |->
                                         IF f = Lower(s) THEN section ELSE @[f]] ELSE @]
      keys == Keys(made, s)
      same == Same(keys, k)
      first == CHOOSE i \in same : \A j \in same : keys[i].order <= keys[j].order
      Key(order, remark) == [name |-> k, order |-> order, comment |-> remark, value |-> v]
      counted == [made EXCEPT !.nOrder = numbered + 1]
  IN IF k = NULL \/ v = NULL THEN made
     ELSE WithKeys(counted, s,
       IF same # {} /\ ini.multiKey /\ forceReplace
         THEN Append(Without(keys, same),
                     Key(keys[first].order, IF keys[first].comment # NULL
                                              THEN keys[first].comment ELSE comment))
       ELSE IF same = {} \/ ini.multiKey THEN Append(keys, Key(numbered + 1, comment))
       ELSE [keys EXCEPT ![First(same)].value = v])

\* The strings at the places of an entry.
At(d, p) == IF p = None THEN NULL ELSE String(d, p)

\* What the loop of LoadData finds in d from place p, the end as its last. The empty
\* section is a string of its own, here the EOS at the end of d.
RECURSIVE Entries(_, _)
Entries(e, multiLine) ==
  IF ~e.found THEN <<e>>
  ELSE <<e>> \o Entries(FindEntry(e.data, e.pos, e.section, None, multiLine), multiLine)
Found(d, p, multiLine) == Entries(FindEntry(d, p, Len(d), None, multiLine), multiLine)
Data(ini, text) ==
  Append(IF ini.utf8 /\ text # <<>> /\ text[1] = BOM THEN Tail(text) ELSE text, EOS)
FindFileComment(ini, d) ==
  IF ini.fileComment = NULL THEN LoadMultiLineText(d, 1, NULL, FALSE)
  ELSE [data |-> d, pos |-> 1, val |-> None]

\* Strings are copied as they are found when the object has data; otherwise they stay in
\* the text, and a string is whatever stands at its place when the loop is done. (The
\* lookups in between read the names earlier; NamesStay says that it is the same.)
LoadData(ini, text) ==
  LET begun == FindFileComment(ini, Data(ini, text))
      entries == Found(begun.data, begun.pos, ini.multiLine)
      final == entries[Len(entries)].data
      ReadFrom(found) == IF ini.pData THEN found ELSE final
      Load[i \in 0 .. Len(entries) - 1] ==
        IF i = 0 THEN [ini EXCEPT !.pData = TRUE,
                         !.fileComment = IF @ # NULL THEN @
                                         ELSE At(ReadFrom(begun.data), begun.val)]
        ELSE LET e == entries[i]
                 d == ReadFrom(e.data)
             IN AddEntry(Load[i - 1], At(d, e.section), At(d, e.key), At(d, e.val),
                         At(d, e.comment), FALSE)
  IN IF text = <<>> THEN ini ELSE Load[Len(entries) - 1]

-----------------------------------------------------------------------------
GetValue(ini, s, k, default) ==
  IF HasSection(ini, s) /\ Same(Keys(ini, s), k) # {}
    THEN Keys(ini, s)[First(Same(Keys(ini, s), k))].value ELSE default
HasMultiple(ini, s, k) ==
  ini.multiKey /\ HasSection(ini, s)
  /\ \E i, j \in Same(Keys(ini, s), k) : i # j
\* All of a key, as entries; the first alone when a key may have one value only.
GetAllEntries(ini, s, k) ==
  LET all == SelectSeq(Keys(ini, s), LAMBDA e : Lower(e.name) = Lower(k))
  IN IF ini.multiKey \/ all = <<>> THEN all ELSE <<all[1]>>
GetAllValues(ini, s, k) ==
  IF ~HasSection(ini, s) THEN <<>>
  ELSE LET all == GetAllEntries(ini, s, k) IN [i \in DOMAIN all |-> all[i].value]
\* The first entry of each key.
GetAllKeys(ini, s) ==
  {Keys(ini, s)[First(Same(Keys(ini, s), e.name))] : e \in ToSet(Keys(ini, s))}
GetSectionSize(ini, s) ==
  IF ~HasSection(ini, s) THEN -1
  ELSE IF ini.multiKey THEN Cardinality({Lower(e.name) : e \in ToSet(Keys(ini, s))})
  ELSE Len(Keys(ini, s))
GetAllSections(ini) == {ini.data[f] : f \in DOMAIN ini.data}

LoadOrder(entries) == SetToSortSeq(entries, LAMBDA a, b : a.order < b.order)

IsMultiLineData_LineEnds(text) == \E i \in DOMAIN text : IsNewLineChar(text[i])
IsMultiLineData(text) ==
  /\ text # <<>>
  /\ \/ IsSpace(text[1]) \/ IsSpace(text[Len(text)])
     \/ \E i \in DOMAIN text : IsNewLineChar(text[i])
\* Every line with a line end behind it, the last one too.
OutputMultiLineText(text) == IF text = <<>> \/ text = NULL THEN <<>> ELSE Append(text, NewLine)

SaveEntry(ini, key, e) ==
  (IF e.comment # NULL THEN <<NewLine>> \o OutputMultiLineText(e.comment) ELSE <<>>)
  \o key.name \o (IF ini.spaces THEN <<" ", "=", " ">> ELSE <<"=">>)
  \o (IF ini.multiLine /\ IsMultiLineData(e.value)
        THEN <<Multi, END_OF_TEXT, NewLine>> \o OutputMultiLineText(e.value)
             \o <<END_OF_TEXT>>
        ELSE e.value)
  \o <<NewLine>>
SaveSection(ini, section, first) ==
  LET keys == LoadOrder(GetAllKeys(ini, section.name))
      Values(key) == LET all == GetAllEntries(ini, section.name, key.name)
                     IN FlattenSeq([j \in DOMAIN all |-> SaveEntry(ini, key, all[j])])
  IN (IF first /\ ini.fileComment = NULL THEN <<>> ELSE <<NewLine, NewLine>>)
     \o OutputMultiLineText(section.comment)
     \o (IF section.name = <<>> THEN <<>> ELSE <<"[">> \o section.name \o <<"]", NewLine>>)
     \o FlattenSeq([i \in DOMAIN keys |-> Values(keys[i])])
Save(ini, addSignature) ==
  LET sections == LoadOrder(GetAllSections(ini))
  IN (IF ini.utf8 /\ addSignature THEN <<BOM>> ELSE <<>>)
     \o OutputMultiLineText(ini.fileComment)
     \o FlattenSeq([i \in DOMAIN sections |-> SaveSection(ini, sections[i], i = 1)])

-----------------------------------------------------------------------------
\* What an object holds: its sections in load order, with their keys in load order
\* and the values of each; with the comments when asked for.
Contents(ini, comments) ==
  LET Remark(e) == IF comments THEN e.comment ELSE NULL
      sections == LoadOrder(GetAllSections(ini))
      Key(s, key) == LET all == GetAllEntries(ini, s.name, key.name)
                     IN [i \in DOMAIN all |-> <<key.name, all[i].value, Remark(all[i])>>]
      KeysOf(s) == LET keys == LoadOrder(GetAllKeys(ini, s.name))
                   IN [i \in DOMAIN keys |-> Key(s, keys[i])]
  IN [i \in DOMAIN sections |-> <<sections[i].name, Remark(sections[i]), KeysOf(sections[i])>>]

\* An INI text can say what the object holds: keys without a section come first, no name
\* runs over a line (that of a section does when its line is not closed, SimpleIni.h:1583),
\* no value looks like a tag or contains the one Save() writes.
Sayable(ini) ==
  LET sections == LoadOrder(GetAllSections(ini))
  IN /\ \A i \in DOMAIN sections :
          /\ \A c \in ToSet(sections[i].name) : ~IsNewLineChar(c)
          /\ sections[i].name = <<>> => i = 1 /\ sections[i].keys # <<>>
     /\ \A s \in GetAllSections(ini) : \A e \in ToSet(s.keys) :
          /\ e.value # <<>> => e.value[1] # Multi
          /\ {"\r", END_OF_TEXT} \cap ToSet(e.value) = {}
SavesAndLoads(ini) ==
  LET comments == ini.fileComment # NULL
                  \/ \A s \in GetAllSections(ini) : s.comment = NULL
  IN Sayable(ini) =>
       \A addSignature \in BOOLEAN :
         LET back == LoadData(New(ini.multiKey, ini.multiLine), Save(ini, addSignature))
         IN /\ Contents(back, comments) = Contents(ini, comments)
            /\ comments => back.fileComment = ini.fileComment

\* A multi-line value that ends where it begins: the tag stands on its first line.
EmptyMultiLine(text) ==
  LET Line(p) == SelectSeq(SubSeq(text, p, Find(Append(text, EOS), p, LineEnds) - 1),
                           LAMBDA c : ~IsSpace(c))
  IN \E i \in DOMAIN text :
       /\ text[i] = Multi
       /\ \E j \in i + 1 .. Len(text) :
            /\ text[j] = NewLine /\ Lower(Line(j + 1)) = Lower(Line(i + 1))
            /\ \A r \in i + 1 .. j - 1 : text[r] # NewLine

\* The names the map compares are not changed by what the loop does to the text behind them.
NamesStay(ini, text) ==
  LET begun == FindFileComment(ini, Data(ini, text))
      entries == Found(begun.data, begun.pos, ini.multiLine)
  IN \A i \in 1 .. Len(entries) - 1, j \in DOMAIN entries :
       LET e == entries[i]
       IN i <= j => /\ At(entries[j].data, e.section) = At(e.data, e.section)
                    /\ At(entries[j].data, e.key) = At(e.data, e.key)

\* What was loaded is what a load into an object with data finds, which copies the strings
\* as they are found, and what comes back after saving: unless a multi-line value ends where
\* it begins, which then takes in the text behind it (SimpleIni.h:1817-1855).
LoadsAlike(text) ==
  \A multiKey, multiLine \in BOOLEAN :
    LET ini == LoadData(New(multiKey, multiLine), text)
        copied == LoadData([New(multiKey, multiLine) EXCEPT !.pData = TRUE], text)
    IN /\ NamesStay(New(multiKey, multiLine), text)
       /\ \/ multiLine /\ EmptyMultiLine(text)
          \/ /\ Contents(ini, TRUE) = Contents(copied, TRUE)
             /\ ini.fileComment = copied.fileComment
             /\ SavesAndLoads(ini)

\* What calls leave of one key: its values alone, sections and orders forgotten.
Expected(calls, s, k, multiKey) ==
  LET Equal(n, m) == m = NULL \/ Lower(n) = Lower(m)
      After[i \in 0 .. Len(calls)] ==
        IF i = 0 THEN <<>>
        ELSE LET c == calls[i]
                 old == After[i - 1]
             IN IF ~(Equal(s, c.section) /\ Equal(k, c.key)) THEN old
                ELSE IF c.call = "delete" THEN SelectSeq(old, LAMBDA v : ~Equal(v, c.value))
                ELSE IF c.key = NULL THEN old
                ELSE IF multiKey /\ ~c.flag THEN Append(old, c.value) ELSE <<c.value>>
  IN After[Len(calls)]
Called(calls, multiKey) ==
  LET After[i \in 0 .. Len(calls)] ==
        IF i = 0 THEN New(multiKey, TRUE)
        ELSE LET ini == After[i - 1]
                 c == calls[i]
             IN CASE c.call = "set" -> AddEntry(ini, c.section, c.key, c.value, c.comment, c.flag)
                  [] c.call = "delete" -> DeleteValue(ini, c.section, c.key, c.value, c.flag)
                  [] c.call = "load" ->
                       LoadData(ini, <<"[">> \o c.section \o <<"]", "\r", NewLine>>
                                     \o c.key \o <<"=">> \o c.value)
  IN After[Len(calls)]
CallsLeave(calls, sections, keys) ==
  \A multiKey \in BOOLEAN :
    LET ini == Called(calls, multiKey)
        Left(s, k) == Expected(calls, s, k, multiKey)
    IN /\ \A s \in sections :
            /\ \A k \in keys : /\ GetAllValues(ini, s, k) = Left(s, k)
                               /\ GetValue(ini, s, k, NULL) = Append(Left(s, k), NULL)[1]
                               /\ HasMultiple(ini, s, k) <=> Len(Left(s, k)) > 1
            /\ HasSection(ini, s) =>
                 GetSectionSize(ini, s) =
                   Cardinality({Lower(k) : k \in {n \in keys : Left(s, n) # <<>>}})
       /\ SavesAndLoads(ini)
=============================================================================
