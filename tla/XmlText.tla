------------------------------ MODULE XmlText ------------------------------
(***************************************************************************)
(* One string of an XML document on its way through tinyxml2: printed with *)
(* entities, found again in the file by StrPair::ParseText, and decoded in *)
(* place, at the first call of GetStr only.  GetStr writes behind the      *)
(* place it reads, in the buffer of the whole document.  Characters are    *)
(* bytes, 0 ends a string.                                                 *)
(***************************************************************************)
EXTENDS Naturals, Sequences, SequencesExt

CONSTANTS
  Pieces,   \* what a user writes: strings, each with "by" = "printer" or "hand"
  MaxPieces \* bound on the length of a text

LF == 10
CR == 13
Space == 32
Quote == 34
Hash == 35
Amp == 38
Semicolon == 59
Less == 60
Greater == 62
SmallX == 120

\* entities: the name and the character
Entities ==
  { [pattern |-> <<113, 117, 111, 116>>, value |-> Quote],
    [pattern |-> <<97, 109, 112>>, value |-> Amp],
    [pattern |-> <<97, 112, 111, 115>>, value |-> 39],
    [pattern |-> <<108, 116>>, value |-> Less],
    [pattern |-> <<103, 116>>, value |-> Greater] }

\* What a string is in the document.
Kinds == {"text", "collapsed", "attribute", "comment"}

\* The flags that the parsers give to ParseText.
FlagsOf(kind) ==
  CASE kind \in {"text", "attribute"} -> {"entities", "newlines"}
    [] kind = "collapsed" -> {"entities", "newlines", "whitespace"}
    [] kind = "comment" -> {"newlines"}

EndTag(kind) ==
  CASE kind \in {"text", "collapsed"} -> <<Less>>
    [] kind = "attribute" -> <<Quote>>
    [] kind = "comment" -> <<45, 45, Greater>>

VARIABLES
  pieces, \* history: what the user wrote
  kind,
  stage,  \* "none", "file", "parsed", "decode", "trim", "collapse", "read"
  buf,    \* the document from the first character of the string on
  flags,  \* of the StrPair, with "flush" for NEEDS_FLUSH
  start,  \* of the StrPair
  end,
  p, q    \* the read and the write pointer of GetStr

textVars == <<pieces, kind, stage, buf, flags, start, end, p, q>>

TextInit ==
  /\ pieces = <<>> /\ kind = "text" /\ stage = "none"
  /\ buf = <<>> /\ flags = {} /\ start = 1 /\ end = 1
  /\ p = 1 /\ q = 1

IsWhiteSpace(c) == c = Space \/ c \in 9 .. 13

-----------------------------------------------------------------------------
(* XMLPrinter *)

\* PrintString and the two tables of flags: text leaves the quotes alone.
Escaped(c, k) ==
  IF \E e \in Entities : e.value = c /\ (k = "attribute" \/ c \in {Amp, Less, Greater})
  THEN <<Amp>> \o (CHOOSE e \in Entities : e.value = c).pattern \o <<Semicolon>>
  ELSE <<c>>

PrintString(string, k) ==
  IF k = "comment" THEN string
  ELSE FlattenSeq([i \in DOMAIN string |-> Escaped(string[i], k)])

InFile(piece, k) == IF piece.by = "hand" THEN piece.string ELSE PrintString(piece.string, k)

\* The string in a file, up to where the file goes on after it.
PrintText ==
  /\ stage = "none"
  /\ stage' = "file"
  /\ kind' \in Kinds
  /\ pieces' \in BoundedSeq(Pieces, MaxPieces)
  /\ buf' = FlattenSeq([i \in DOMAIN pieces' |-> InFile(pieces'[i], kind')]) \o EndTag(kind')
  /\ UNCHANGED <<flags, start, end, p, q>>

-----------------------------------------------------------------------------
(* StrPair *)

\* Where ParseText finds the end tag, 0 if it does not.
FindTag(tag) ==
  LET at == {i \in 1 .. Len(buf) - Len(tag) + 1 : SubSeq(buf, i, i + Len(tag) - 1) = tag}
  IN  IF at = {} THEN 0 ELSE CHOOSE i \in at : \A j \in at : i <= j

\* ParseText; there is no text of white space only, because Identify skips it.
ParseText ==
  /\ stage = "file"
  /\ FindTag(EndTag(kind)) # 0
  /\ kind \in {"text", "collapsed"} =>
       \E i \in 1 .. FindTag(EndTag(kind)) - 1 : ~IsWhiteSpace(buf[i])
  /\ end' = FindTag(EndTag(kind))
  /\ flags' = FlagsOf(kind) \cup {"flush"}
  /\ stage' = "parsed"
  /\ UNCHANGED <<pieces, kind, buf, start, p, q>>

Overwritten(at, string) ==
  [i \in DOMAIN buf |-> IF i \in at .. at + Len(string) - 1 THEN string[i - at + 1] ELSE buf[i]]

\* ConvertUTF32ToUTF8
UTF8(ucs) ==
  LET length == IF ucs < 128 THEN 1 ELSE IF ucs < 2048 THEN 2
                ELSE IF ucs < 65536 THEN 3 ELSE IF ucs < 2097152 THEN 4 ELSE 0
      mark == <<0, 192, 224, 240>>
      byte(i) == (ucs \div 64 ^ (length - i)) % 64
  IN  CASE length = 0 -> <<>>
        [] length = 1 -> <<ucs>>
        [] OTHER -> [i \in 1 .. length |-> IF i = 1 THEN mark[length] + byte(1) ELSE 128 + byte(i)]

Digit(c, base) ==
  LET d == IF c \in 48 .. 57 THEN c - 48
           ELSE IF c \in 97 .. 102 THEN c - 87
           ELSE IF c \in 65 .. 70 THEN c - 55 ELSE 99
  IN  IF d < base THEN d ELSE 99

\* What is written to q, how far q goes and where p goes.
Out(string, to) == [string |-> string, by |-> Len(string), to |-> to]

\* GetCharacterRef: digits are read backwards from the semicolon, as far as the
\* nearest x or #.  Where it returns 0 the ampersand is copied.
CharacterRef(i) ==
  LET hex == buf[i + 2] = SmallX
      base == IF hex THEN 16 ELSE 10
      stops == {j \in (IF hex THEN i + 3 ELSE i + 2) .. end - 1 : buf[j] = Semicolon}
      stop == CHOOSE j \in stops : \A k \in stops : j <= k
      from == CHOOSE j \in i + 1 .. stop :
                /\ buf[j] = (IF hex THEN SmallX ELSE Hash)
                /\ \A k \in j + 1 .. stop : buf[k] # buf[j]
      ucs[j \in from .. stop - 1] ==
        IF j = from THEN 0 ELSE base * ucs[j - 1] + Digit(buf[j], base)
  IN  IF buf[i + 2] = 0 THEN Out(<<>>, i + 1)
      ELSE IF stops = {} \/ \E j \in from + 1 .. stop - 1 : Digit(buf[j], base) = 99
      THEN Out(<<Amp>>, i + 1)
      ELSE Out(UTF8(ucs[stop - 1]), stop + 1)

\* An entity; one that is not known leaves at q what was there.
Entity(i) ==
  LET found == {e \in Entities :
                  /\ i + Len(e.pattern) + 1 <= end
                  /\ SubSeq(buf, i + 1, i + Len(e.pattern)) = e.pattern
                  /\ buf[i + Len(e.pattern) + 1] = Semicolon}
  IN  IF found = {} THEN [string |-> <<>>, by |-> 1, to |-> i + 1]
      ELSE LET e == CHOOSE e \in found : TRUE
           IN  Out(<<e.value>>, i + Len(e.pattern) + 2)

\* CR-LF, LF-CR and a CR alone become LF.
Newline(i) ==
  Out(<<LF>>, IF {buf[i], buf[i + 1]} = {CR, LF} THEN i + 2 ELSE i + 1)

Decoded(i) ==
  IF "newlines" \in flags /\ buf[i] \in {CR, LF} THEN Newline(i)
  ELSE IF "entities" \in flags /\ buf[i] = Amp
  THEN IF buf[i + 1] = Hash THEN CharacterRef(i) ELSE Entity(i)
  ELSE Out(<<buf[i]>>, i + 1)

\* GetStr: *_end = 0; without the flag it only returns start.
GetStr ==
  /\ stage \in {"parsed", "read"}
  /\ "flush" \in flags
  /\ buf' = Overwritten(end, <<0>>)
  /\ flags' = flags \ {"flush"}
  /\ p' = start /\ q' = start
  /\ stage' = "decode"
  /\ UNCHANGED <<pieces, kind, start, end>>

\* One round of its loop.
Decode ==
  /\ stage = "decode"
  /\ p < end
  /\ buf' = Overwritten(q, Decoded(p).string)
  /\ q' = q + Decoded(p).by
  /\ p' = Decoded(p).to
  /\ UNCHANGED <<pieces, kind, stage, flags, start, end>>

\* SkipWhiteSpace
Skipped(i) ==
  CHOOSE j \in i .. end : ~IsWhiteSpace(buf[j]) /\ \A k \in i .. j - 1 : IsWhiteSpace(buf[k])

\* Mutant: the flags stay as they are.
FlagsKept == flags \cup {"flush"}

FlagsLeft == {}

\* The end of the loop, and the beginning of CollapseWhitespace.
Decoding ==
  /\ stage = "decode"
  /\ p >= end
  /\ buf' = Overwritten(q, <<0>>)
  /\ stage' = IF "whitespace" \in flags THEN "trim" ELSE "read"
  /\ flags' = IF "whitespace" \in flags THEN flags ELSE FlagsLeft
  /\ UNCHANGED <<pieces, kind, start, end, p, q>>

Trim ==
  /\ stage = "trim"
  /\ start' = Skipped(start) /\ p' = Skipped(start) /\ q' = Skipped(start)
  /\ stage' = "collapse"
  /\ UNCHANGED <<pieces, kind, buf, flags, end>>

\* One round of the loop of CollapseWhitespace, or its end.
Collapse ==
  LET next == Skipped(p)
      space == IF next = p THEN <<>> ELSE <<Space>>
  IN  /\ stage = "collapse"
      /\ IF buf[next] = 0
         THEN /\ buf' = Overwritten(q, <<0>>)
              /\ stage' = "read"
              /\ flags' = FlagsLeft
              /\ UNCHANGED <<p, q>>
         ELSE /\ buf' = Overwritten(q, Append(space, buf[next]))
              /\ q' = q + Len(space) + 1
              /\ p' = next + 1
              /\ UNCHANGED <<stage, flags>>
      /\ UNCHANGED <<pieces, kind, start, end>>

TextNext == PrintText \/ ParseText \/ GetStr \/ Decode \/ Decoding \/ Trim \/ Collapse

TextSpec == TextInit /\ [][TextNext]_textVars

-----------------------------------------------------------------------------
(* Properties. *)

\* A reference written by hand stands for one character; the reader keeps the rest.
Meaning ==
  FlattenSeq([i \in DOMAIN pieces |-> IF kind = "comment" THEN pieces[i].string
                                      ELSE pieces[i].means])

\* Where the line ends of a string are, with the character that they start at.
Unbroken(string) ==
  LET after[i \in 0 .. Len(string)] ==
        IF i = 0 THEN FALSE
        ELSE i > 1 /\ ~after[i - 1] /\ {string[i - 1], string[i]} = {CR, LF}
      rest == SelectSeq([i \in DOMAIN string |-> i], LAMBDA i : ~after[i])
  IN  [i \in DOMAIN rest |-> IF string[rest[i]] = CR THEN LF ELSE string[rest[i]]]

\* The words of a string with one space between them.
Spaced(string) ==
  LET solid == {i \in DOMAIN string : ~IsWhiteSpace(string[i])}
      kept == SelectSeq([i \in DOMAIN string |-> i],
                LAMBDA i : i \in solid \/ (i - 1 \in solid /\ \E j \in solid : j > i))
  IN  [i \in DOMAIN kept |-> IF kept[i] \in solid THEN string[kept[i]] ELSE Space]

Result ==
  LET zero == CHOOSE i \in start .. Len(buf) : buf[i] = 0 /\ \A j \in start .. i - 1 : buf[j] # 0
  IN  SubSeq(buf, start, zero - 1)

\* What GetStr returns, after any number of calls, is what was printed: with its line
\* ends normalised and, if that is asked for, its white space collapsed; each entity is
\* decoded once and only once, and what is written into the document never reaches
\* what is still to be read.
TextReadBack ==
  stage = "read" =>
    Result = IF kind = "collapsed" THEN Spaced(Unbroken(Meaning)) ELSE Unbroken(Meaning)
============================================================================
