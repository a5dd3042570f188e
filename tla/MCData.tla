------------------------------- MODULE MCData -------------------------------
(***************************************************************************)
(* The data classes of the library, side by side. A behaviour chooses one  *)
(* part and stays with it: the objects of CString and HashStream live      *)
(* through their calls, and an input grows by one symbol a step for the    *)
(* operations that are functions of their input.                           *)
(***************************************************************************)
EXTENDS CString, HashStream, Inputs, TLC

datavars == <<svars, hvars, inputvars>>

D == INSTANCE Dns
I == INSTANCE Ini WITH LowerOf <- ("A" :> "a" @@ "S" :> "s")
J == INSTANCE JsonText WITH IntMax <- 20, CJSON_NESTING_LIMIT <- 2
Shallow == INSTANCE JsonText WITH IntMax <- 20, CJSON_NESTING_LIMIT <- 1

DataInit ==
  /\ InputInit
  /\ StringInit
  /\ HashInit /\ (part # "hash" => algo = "md5")

DataNext ==
  \/ part = "string" /\ StringNext /\ UNCHANGED <<hvars, inputvars>>
  \/ part = "hash" /\ HashNext /\ UNCHANGED <<svars, inputvars>>
  \/ More /\ UNCHANGED <<svars, hvars>>
  \/ /\ part \in {"ini", "calls", "json", "parse"} /\ Give
     /\ UNCHANGED <<svars, hvars>>

DataSpec == DataInit /\ [][DataNext]_datavars
Symmetry == Permutations(Strings)

-----------------------------------------------------------------------------
Call(call, s, k, v, c, f) ==
  [call |-> call, section |-> s, key |-> k, value |-> v, comment |-> c, flag |-> f]
MCTexts == {<<"a">>, <<"b">>, <<"b", "a">>}
MCAlphabet ==
  [ text  |-> {"a", "b", "A", " "},
    codec |-> {0, 38, 63, 64, 131, 255},
    mask  |-> {<<7>>, <<1, 2, 3, 4, 5>>, <<0, 200, 0, 200, 0, 200, 9, 8>>, <<>>},
    dns   |-> [name : {"full", "pointer", "chain", "itself"}, more : {0}, type : {1},
                data : {<<10, 0, 0, 1>>}]
              \cup [name : {"label"}, more : {0, 40}, type : {1}, data : {<<192, 12, 0, 255>>}]
              \cup [name : {"full", "pointer", "label", "chain", "itself", "behind"}, more : {0},
                   type : {5}, data : {<<1, 98, 0>>}]
              \cup [name : {"pointer"}, more : {0, 40}, type : {16}, data : {<<0>>, <<192, 12>>}],
    ini   |-> {<<"[", "s", " ", "]", "\n">>, <<"[", "\n">>, <<"A", " ", "=", " ", "b">>,
               <<"a", "=", "<<<", "T", "\r", "\n">>, <<"T", "\n">>, <<" ">>, <<"\n">>,
               <<"\r", "\n">>, <<";", "c">>},
    calls |-> {Call("set", <<"s">>, <<"a">>, <<"v">>, <<";", "1">>, FALSE),
               Call("set", <<"S">>, <<"A">>, <<"v", "\n">>, I!NULL, FALSE),
               Call("set", <<"s">>, <<"a">>, <<"w">>, <<";", "2", "\n", "#", "3">>, TRUE),
               Call("set", <<"s">>, <<"b">>, <<>>, I!NULL, FALSE),
               Call("set", <<"t">>, I!NULL, I!NULL, <<";", "4">>, FALSE),
               Call("set", <<>>, <<"b">>, <<" ">>, I!NULL, TRUE),
               Call("delete", <<"s">>, <<"a">>, I!NULL, I!NULL, FALSE),
               Call("delete", <<"s">>, <<"A">>, <<"v">>, I!NULL, TRUE),
               Call("delete", <<"S">>, I!NULL, I!NULL, I!NULL, FALSE),
               Call("load", <<"s">>, <<"a">>, <<"x">>, I!NULL, FALSE)},
    json  |-> {<<"null">>, <<"number", 40>>, <<"number", -7>>, <<"string", <<>>>>,
               <<"string", <<34, 10, 1, 92>>>>, <<"array">>, <<"object">>, <<"close">>},
    parse |-> {<<123>>, <<125>>, <<91>>, <<93>>, <<44>>, <<34>>, <<92, 34>>,
               <<34, 97, 34, 58>>, <<116, 114, 117, 101>>,
               <<92, 117, 100, 56, 48, 48>>, <<92, 117, 68, 99, 48, 49>>},
    utf8  |-> {65, 128, 143, 160, 193, 195, 224, 237, 240, 244},
    utf16 |-> {65, 2047, 55296, 56319, 56320, 57343, 65535},
    utf32 |-> {127, 128, 2048, 55296, 57343, 65535, 65536, 1114111, 1114112} ]
MCLongest ==
  [text |-> 4, codec |-> 4, mask |-> 3, dns |-> 3, ini |-> 4, calls |-> 3, json |-> 3,
   parse |-> 4, utf8 |-> 4, utf16 |-> 4, utf32 |-> 3]

\* The item an input builds: leaves and lists go into the last list left open.
Built ==
  LET Into(list, item) ==
        [list EXCEPT !.kids = Append(@, J!Kid(
           CASE list.type # "object" -> <<>> [] Len(list.kids) = 0 -> <<97>>
             [] Len(list.kids) = 1 -> <<98, 34>> [] OTHER -> <<65>>, item))]
      Close(open) == Append(SubSeq(open, 1, Len(open) - 2),
                            Into(open[Len(open) - 1], open[Len(open)]))
      Leaf(c) == IF c[1] = "number" THEN J!Number(c[2])
                 ELSE J!Item(c[1], IF c[1] = "string" THEN c[2] ELSE <<>>, <<>>)
      Open[i \in 0 .. Len(input)] ==
        IF i = 0 THEN <<J!Item("array", <<>>, <<>>)>>
        ELSE LET open == Open[i - 1]
                 c == input[i]
             IN IF c[1] = "close" THEN IF Len(open) > 1 THEN Close(open) ELSE open
                ELSE IF c[1] \in {"array", "object"} THEN Append(open, Leaf(c))
                ELSE [open EXCEPT ![Len(open)] = Into(@, Leaf(c))]
      All[n \in 1 .. Len(input) + 1] ==
        IF n = Len(Open[Len(input)]) THEN Open[Len(input)] ELSE Close(All[n + 1])
  IN All[1][1]
Flat == LET F[i \in 0 .. Len(input)] == IF i = 0 THEN <<>> ELSE F[i - 1] \o input[i]
        IN F[Len(input)]

MCParts == DOMAIN MCAlphabet \cup {"string", "hash"}
MCWords == UNION {[1 .. k -> {"a", "b"}] : k \in 0 .. 2}
MCMaskKey == <<250, 3, 4, 255>>
MCLowerOf == "A" :> "a" @@ "a" :> "a" @@ "b" :> "b" @@ " " :> " "
Hosts == {<<97>>, <<97, 98, 46, 99>>, <<97, 46, 98, 46, 99, 100>>}

\* A lookup finds the first address among the records of an answer when the records up to
\* it are well-formed: whatever other records come before it, however their names are
\* compressed and whatever follows. Of a packet that was cut it reads no other address, and
\* it reads outside of it only when the cut is inside the data of a record before. (The
\* parser compares neither the pointers nor the lengths of a record with the packet: one
\* that leads out of it before the address is followed.)
LookupFindsAddress == part = "dns" => \A host \in Hosts : D!FindsAddress(host, input)

\* An item or a text that a step has put together.
MadeItem == part = "json" => J!PrintsInBuffer(Built) /\ (J!Depth(Built) <= 2 => J!ParsesBack(Built))
MadeText ==
  part = "parse" =>
    LET deep == J!cJSON_ParseWithOpts(Flat, FALSE)
        shallow == Shallow!cJSON_ParseWithOpts(Flat, FALSE)
    IN /\ J!ParsesInside(Flat) /\ Shallow!ParsesInside(Flat)
       /\ shallow.ok = (deep.ok /\ J!Depth(deep.item) <= 1)
MadeIni ==
  /\ part = "ini" => I!LoadsAlike(Flat)
  /\ part = "calls" => I!CallsLeave(input, {<<"s">>, <<"T">>, <<>>}, {<<"a">>, <<"b">>})

\* Printing writes inside its buffer, also when an allocation fails or the buffer was
\* given and is too small; what was printed is read back as the same tree, and also when it
\* was minified, unless a string in it ends in a backslash. Parsing stays inside the text,
\* unless it has no end mark and breaks off after a comma; and it refuses a text because of
\* its depth exactly if it is deeper than the limit.
JsonTexts == [][given # given' => MadeItem /\ MadeText]_given

\* An INI file is loaded the same whether its strings are copied at once or stay in the
\* text that is cut up around them, and comes back after saving, unless a multi-line value
\* is empty or a section line is not closed; and calls that set, add, delete and load leave
\* of each key the values they should, also when keys repeat and names differ in case only.
IniKeeps == [][given # given' => MadeIni]_given
=============================================================================
