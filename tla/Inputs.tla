------------------------------- MODULE Inputs --------------------------------
(***************************************************************************)
(* The operations that are functions of their input: searching and         *)
(* replacing text, the codecs, the conversions of Unicode. An input grows  *)
(* by one symbol a step until it is complete and handed over.              *)
(***************************************************************************)
EXTENDS CStringText, Codec, Utf

CONSTANTS Parts,      \* what a behaviour may be about
          Alphabet,   \* the symbols of an input, for each part that has one
          Longest,    \* bound: the longest input of a part
          Words,      \* the texts that are searched for and put in their place
          MaskKey    \* the key both ends of a masked connection begin with
VARIABLES part, input,
          given   \* the input is complete and handed over

inputvars == <<part, input, given>>

\* Words are texts of the alphabet, tolower() maps a character to a character, and
\* the symbols are bytes, messages of bytes, and units of the encodings.
ASSUME InputAssumption ==
  /\ Words \subseteq Seq(Alphabet["text"])
  /\ LowerOf \in [Alphabet["text"] -> Alphabet["text"]]
  /\ Alphabet["codec"] \subseteq Bytes8
  /\ MaskKey \in [1 .. 4 -> Bytes8] /\ Alphabet["mask"] \subseteq Seq(Bytes8)
  /\ Alphabet["utf8"] \cup Alphabet["utf16"] \cup Alphabet["utf32"] \subseteq Nat
  /\ \A unit \in Alphabet["utf16"] : unit <= UNI_MAX_BMP

InputInit == part \in Parts /\ input = <<>> /\ given = FALSE

More ==
  /\ part \in DOMAIN Alphabet /\ ~given /\ Len(input) < Longest[part]
  /\ \E c \in Alphabet[part] : input' = Append(input, c)
  /\ UNCHANGED <<part, given>>
Give == ~given /\ given' = TRUE /\ UNCHANGED <<part, input>>

InputNext == More \/ Give
InputSpec == InputInit /\ [][InputNext]_inputvars

\* Searching, replacing, splitting and comparing agree with the occurrences of the
\* match in the text, whatever overlaps and wherever an attempt fails.
TextSearch ==
  part = "text" =>
    \A w \in Words \ {<<>>} :
      /\ FindsFirst(input, w)
      /\ \A v \in Words : ReplacesEvery(input, w, v)
      /\ \A v \in Words \ {<<>>} : SplitsBetween(input, w, v)

\* Base64 and hexadecimal text give the bytes back within the buffers asked for, a
\* masked message is understood in whatever pieces it comes, and the conversions
\* between the three Unicode encodings resume where the target was full and invert.
EncodingsAgree ==
  /\ part = "codec" => Base64Agrees(input)
  /\ part = "mask" => MaskAgrees(MaskKey, input)
  /\ part = "utf8" => Utf8Agrees(input)
  /\ part = "utf16" => Utf16Agrees(input)
  /\ part = "utf32" => Utf32Agrees(input)
=============================================================================
