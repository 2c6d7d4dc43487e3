----------------------------- MODULE XmlParser -----------------------------
(***************************************************************************)
(* The parser of tinyxml2 over the object model of XmlTree, the calls of   *)
(* the program that uses the document, and what LoadServerXML reads in it. *)
(* XMLNode::ParseDeep calls itself through XMLElement::ParseDeep; its      *)
(* activations are the sequence open: the document, then the elements      *)
(* whose end tag has not been read.  An element gets its place in the tree *)
(* when its end tag is read.                                               *)
(*                                                                         *)
(* The file is a sequence of tokens, chosen one at a time as the parser    *)
(* asks for them.  The scan inside a token is abstract: Identify tells the *)
(* kinds apart, and a token either reads well or is cut short (Broken).    *)
(***************************************************************************)
EXTENDS XmlTree

CONSTANTS
  MaxDepth,   \* TINYXML2_MAX_ELEMENT_DEPTH
  MaxTokens,  \* bound: tokens of a file
  Leaves,     \* the kinds of token that have no name
  Server      \* the name that LoadServerXML asks for

ASSUME LeavesAssumption == Leaves \subseteq NodeKinds \ {"element"}

VARIABLE parse

Idle ==
  [stage |-> "idle",   \* idle, reading, unwinding (ParseDeep returns null) or ended
   source |-> "none",  \* file: LoadFile; memory: Parse(const char*)
   open |-> <<>>,
   error |-> "none",   \* _errorID
   read |-> <<>>,      \* the tokens read so far
   lost |-> FALSE]     \* a failed LoadFile deleted nodes that the pools still count

Init == dom = EmptyDom /\ parse = Idle

Open == Last(parse.open)

\* _parsingDepth: every activation of ParseDeep has pushed once.
Depth == Len(parse.open)

\* ParseDeep returns null to its caller, and no token is read any more.
Fails(p, error) == [p EXCEPT !.stage = "unwinding", !.error = error, !.read = <<>>]

-----------------------------------------------------------------------------
(* LoadFile and Parse(const char* ).                                        *)

\* Bound on the pools' counts: a failed LoadFile is not followed by another.
Start(source) ==
  /\ parse.stage \in {"idle", "ended"}
  /\ source = "file" => ~parse.lost
  /\ dom' = ClearDocument(dom)
  /\ \/ parse' = [Idle EXCEPT !.stage = "reading", !.source = source, !.open = <<Doc>>,
                              !.lost = parse.lost]
     \* No such file, or nothing in it.
     \/ parse' = [Idle EXCEPT !.stage = "ended", !.source = source, !.error = "empty",
                              !.lost = parse.lost]

Reading ==
  /\ parse.stage = "reading"
  /\ Len(parse.read) < MaxTokens

Took(token) == [parse EXCEPT !.read = Append(@, token)]

\* Mutant: a node that did not parse is left where it is.
DiscardNothing(d, n) == d

\* The static DeleteNode, which does not tell the pool.
Discard(d, n) == DestroyNode(d, n)

\* A declaration comes before everything else in the document.
WellLocated ==
  /\ Open = Doc
  /\ dom.first[Doc] # Null =>
       dom.kind[dom.first[Doc]] = "declaration" /\ dom.kind[dom.last[Doc]] = "declaration"

ReadLeaf(kind) ==
  LET token == Token(kind, Null, <<>>)
      created == CreateUnlinkedNode(dom, kind, Null)
  IN  /\ Reading
      /\ HasRoom(dom, 1)
      \* Two texts in a row are one text, and one that ends the file is Broken.
      /\ kind = "text" =>
           /\ parse.read # <<>> => Last(parse.read).tag # "text"
           /\ Len(parse.read) + 2 <= MaxTokens
      /\ IF kind = "declaration" /\ ~WellLocated
         THEN /\ parse' = Fails(Took(token), "declaration")
              /\ dom' = Discard(created, Fresh(dom))
         ELSE /\ parse' = Took(token)
              /\ dom' = InsertEndChild(created, Open, Fresh(dom))

\* ParseAttributes refuses a name that the element has already.
ParseAttributes(attrs) == \A i, j \in DOMAIN attrs : attrs[i] = attrs[j] => i = j

\* An element created with its attributes, up to the first one refused.
CreateElement(name, attrs) ==
  [CreateUnlinkedNode(dom, "element", name) EXCEPT !.attrs[Fresh(dom)] = attrs]

\* <name attrs> : the element waits for its end tag.
ReadOpen(name, attrs) ==
  LET token == Token("open", name, attrs)
      n == Fresh(dom)
  IN  /\ Reading
      /\ HasRoom(dom, 1)
      /\ IF ~ParseAttributes(attrs)
         THEN /\ parse' = Fails(Took(token), "attribute")
              /\ dom' = Discard(CreateElement(name, attrs), n)
         \* PushDepth in the new activation, which returns at once.
         ELSE IF Depth + 1 = MaxDepth
         THEN /\ parse' = Fails(Took(token), "depth")
              /\ dom' = Discard(CreateElement(name, attrs), n)
         ELSE /\ parse' = [Took(token) EXCEPT !.open = Append(@, n)]
              /\ dom' = CreateElement(name, attrs)

\* <name attrs/>
ReadEmpty(name, attrs) ==
  LET token == Token("empty", name, attrs)
      n == Fresh(dom)
  IN  /\ Reading
      /\ HasRoom(dom, 1)
      /\ IF ~ParseAttributes(attrs)
         THEN /\ parse' = Fails(Took(token), "attribute")
              /\ dom' = Discard(CreateElement(name, attrs), n)
         ELSE /\ parse' = Took(token)
              /\ dom' = InsertEndChild(CreateElement(name, attrs), Open, n)

\* The end of Parse(): Parse(const char* ) cleans up after an error.
End(p, d) ==
  /\ dom' = IF p.error # "none" /\ p.source = "memory"
            THEN [DeleteChildren(d, Doc) EXCEPT !.untracked = [pool \in Pools |-> 0]]
            ELSE d
  /\ parse' = [p EXCEPT !.stage = "ended", !.open = <<>>,
                        !.lost = IF p.error = "none" THEN @ ELSE p.source = "file"]

\* Mutant: the names of the two tags are not compared.
AlwaysMatches(name) == TRUE

Matches(name) == name = dom.name[Open]

\* </name>, read as an element that is deleted at once.
ReadClose(name) ==
  LET token == Token("close", name, <<>>)
      parent == parse.open[Depth - 1]
      popped == [Took(token) EXCEPT !.open = Front(@)]
  IN  /\ Reading
      /\ IF Open = Doc
         THEN End(Took(token), dom)
         ELSE IF Matches(name)
         THEN /\ dom' = InsertEndChild(dom, parent, Open)
              /\ parse' = popped
         ELSE /\ dom' = Discard(dom, Open)
              /\ parse' = Fails(popped, "mismatched")

\* A token that does not read well, or that the file ends in: the node is deleted.
Broken(kind) ==
  /\ Reading
  /\ HasRoom(dom, 1)
  /\ dom' = Discard(CreateUnlinkedNode(dom, kind, Null), Fresh(dom))
  /\ parse' = Fails(Took(Token("broken", Null, <<>>)), "parsing")

\* The end of the file.  An element that is open does not get its end tag; when
\* not even a space follows its start tag, the error is another one.
EndOfFile ==
  /\ parse.stage = "reading"
  \* A text that the file ends in is Broken.
  /\ parse.read # <<>> => Last(parse.read).tag # "text"
  /\ IF Open = Doc THEN End(parse, dom)
     ELSE /\ \/ parse' = [parse EXCEPT !.stage = "unwinding"]
             \/ /\ Last(parse.read).tag = "open"
                /\ parse' = Fails(parse, "mismatched")
          /\ UNCHANGED dom

\* ParseDeep has returned null to the activation around it.
Unwind ==
  /\ parse.stage = "unwinding"
  /\ IF Open = Doc THEN End(parse, dom)
     ELSE /\ dom' = Discard(dom, Open)
          /\ parse' = [parse EXCEPT !.open = Front(@),
                                    !.error = IF @ = "none" THEN "parsing" ELSE @,
                                    !.read = <<>>]

AttrLists == {<<>>} \cup {<<x>> : x \in AttrNames} \cup {<<x, y>> : x, y \in AttrNames}

Parse ==
  \/ \E kind \in Leaves : ReadLeaf(kind)
  \/ \E name \in Names, attrs \in AttrLists : ReadOpen(name, attrs) \/ ReadEmpty(name, attrs)
  \/ \E name \in Names : ReadClose(name)
  \/ \E kind \in {"element", "text"} : Broken(kind)
  \/ EndOfFile
  \/ Unwind

\* The user of the library calls it between two parses; bound: not after a
\* failed LoadFile.
UserEdits ==
  /\ parse.stage \in {"idle", "ended"}
  /\ ~parse.lost
  /\ Edit
  /\ parse' = Idle

Next ==
  \/ UserEdits
  \/ \E source \in {"file", "memory"} : Start(source)
  \/ Parse

vars == <<dom, parse>>

Spec == Init /\ [][Next]_vars

-----------------------------------------------------------------------------
(* LoadServerXML of ShareFunction.cpp, after xml.LoadFile. *)

\* Mutant: the server element is looked for beside the root.
LoadBesideRoot(d) ==
  LET top == FirstChildElement(d, Doc, AnyName)
  IN  IF top = Null THEN Null ELSE FirstChildElement(d, Doc, Server)

\* RootElement() and then FirstChildElement("server"); the caller returns -1
\* when there is no root, and uses the second pointer without a test.
LoadServerXML(d) ==
  LET top == FirstChildElement(d, Doc, AnyName)
  IN  IF top = Null THEN Null ELSE FirstChildElement(d, top, Server)

-----------------------------------------------------------------------------
(* Properties. *)

TypeOK ==
  /\ dom.kind \in [Nodes -> NodeKinds \cup {"free"}]
  /\ dom.name \in [Nodes -> Names \cup {Null}]
  /\ dom.attrs \in [Nodes -> Seq(AttrNames)]
  /\ \A field \in {dom.parent, dom.prev, dom.next} : field \in [Nodes -> Places \cup {Null}]
  /\ \A field \in {dom.first, dom.last} : field \in [Places -> Nodes \cup {Null}]
  /\ dom.unlinked \in Seq(Nodes)
  /\ dom.untracked \in [Pools -> Nat]
  /\ parse.stage \in {"idle", "reading", "unwinding", "ended"}
  /\ parse.open \in Seq(Places)

\* The elements below p, as LastChildElement and PreviousSiblingElement find
\* them, are those that FirstChildElement and NextSiblingElement find, in the
\* opposite order; and every node found from p has p for parent: no insertion,
\* move or deletion leaves a half-changed list behind.
ListsBothWays ==
  \A p \in Live(dom) \cup {Doc} :
    LET forth == [n \in Nodes |-> NextSiblingElement(dom, n, AnyName)]
        back == [n \in Nodes |-> PreviousSiblingElement(dom, n, AnyName)]
        Elements(from, link) == Walk(from, link, Null, MaxNodes)
    IN  /\ Elements(FirstChildElement(dom, p, AnyName), forth) =
             Reverse(Elements(LastChildElement(dom, p, AnyName), back))
        /\ \A n \in Nodes : Contains(Children(dom, p), n) <=> dom.parent[n] = p

\* _unlinked holds every live node that has no parent, once, and no other: Clear
\* deletes every node exactly once, whatever was created, placed, moved and
\* deleted before, and also in the middle of a parse.
UnlinkedExact ==
  LET orphans == {n \in Live(dom) : dom.parent[n] = Null}
  IN  /\ ToSet(dom.unlinked) = orphans
      /\ Len(dom.unlinked) = Cardinality(orphans)

\* What Clear asserts: the untracked allocations of a pool are the nodes of it
\* that were never placed.  It does not hold from the first error of a parse
\* until the pools are cleared, which LoadFile never does (lost).
PoolsTracked ==
  parse.error = "none" /\ ~parse.lost =>
    \A pool \in Pools :
      dom.untracked[pool] =
        Cardinality({n \in ToSet(dom.unlinked) : PoolOf(dom.kind[n]) = pool})

\* <a></a> and <a/> are the same document.
Shortened(tokens) ==
  LET Shorten(out, t) ==
        IF t.tag = "close" /\ out # <<>> /\ Last(out).tag = "open"
        THEN [out EXCEPT ![Len(out)].tag = "empty"]
        ELSE Append(out, t)
  IN  FoldLeft(Shorten, <<>>, tokens)

Opens(tokens) == Len(SelectSeq(tokens, LAMBDA t : t.tag = "open"))
Closes(tokens) == Len(SelectSeq(tokens, LAMBDA t : t.tag = "close"))

\* An end tag for which nothing is open ends the parse as if the file ended there.
WithoutStray(tokens) == IF Closes(tokens) > Opens(tokens) THEN Front(tokens) ELSE tokens

\* When a parse succeeds, printing the document gives the file back: every token
\* is in its place in the tree, whatever the nesting.
ReadsBack ==
  parse.stage = "ended" /\ parse.error = "none" =>
    Accept(dom) = Shortened(WithoutStray(parse.read))

\* When a parse ends, however deep the element in which it failed, every node is
\* in the document, and after a failed Parse(const char* ) there is no node.
NothingLeft ==
  parse.stage = "ended" =>
    /\ Live(dom) \subseteq Below(dom, Doc)
    /\ parse.source = "memory" /\ parse.error # "none" => Live(dom) = {}

\* After LoadFile, LoadServerXML reads the attributes of the first element of the
\* name "server" directly inside the first element of the file, and finds no
\* element when the file has none there.
ServerElementRead ==
  parse.stage = "ended" /\ parse.error = "none" =>
    LET file == WithoutStray(parse.read)
        Elements == {i \in DOMAIN file : file[i].tag \in {"open", "empty"}}
        Level(i) == Opens(SubSeq(file, 1, i - 1)) - Closes(SubSeq(file, 1, i - 1))
        inRoot == {i \in Elements :
                     /\ Level(i) = 1
                     /\ Cardinality({j \in Elements : j < i /\ Level(j) = 0}) = 1
                     /\ file[i].name = Server}
        found == LoadServerXML(dom)
    IN  IF inRoot = {} THEN found = Null
        ELSE LET i == CHOOSE i \in inRoot : \A j \in inRoot : i <= j
             IN  found # Null /\ dom.attrs[found] = file[i].attrs

\* DeepCopy makes a document that prints the same, with every copied node in its
\* place and none left among the unlinked ones of the target.
CopiesWhole ==
  LET copy == DeepCopy(dom)
  IN  /\ Accept(copy) = Accept(dom)
      /\ copy.unlinked = <<>>
      /\ \A pool \in Pools : copy.untracked[pool] = 0

\* The object graph implements the ordered tree of XmlForest: every call, and
\* every step of the parser, creates, places, moves or deletes nodes as
\* their user sees them, or leaves them as they are.
Forest == INSTANCE XmlForest WITH
  kids <- [p \in Places |-> Children(dom, p)],
  loose <- {n \in Live(dom) : dom.parent[n] = Null}

IsForest == Forest!Spec
=============================================================================
