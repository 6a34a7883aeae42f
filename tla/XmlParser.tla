----------------------------- MODULE XmlParser -----------------------------
(***************************************************************************)
(* The parser of swxml (parser.c): a document is read token by token, with *)
(* one token of look-ahead, and built with the functions of XmlTree.  The  *)
(* tokens of the document are chosen as the parser asks for them; white    *)
(* space, comments, processing instructions and the prolog yield none.  A  *)
(* client may go on to edit the tree.                                      *)
(***************************************************************************)
EXTENDS XmlTree

CONSTANTS
    Tags,          \* qualified names of elements: records of name and prefix
    Attrs,         \* attributes: records of name, declares and value
    Workloads      \* lengths of a document (0: none is parsed) and of the calls made after it

VARIABLES
    parser,        \* struct Parser
    phase,         \* where xml_parser_parseDocument stands
    doc,           \* gRootDoc
    read,          \* the tokens of the document so far
    workload       \* the member of Workloads this behaviour has

parserVars == <<parser, phase, doc, read, workload>>
vars == <<heap, calls, parser, phase, doc, read, workload>>

NotNs == "no declaration"      \* declares: what an attribute that is no xmlns declares
Default == NoText              \* declares: the prefix that xmlns declares

Token(t, name, prefix, declares, value) ==
    [t |-> t, name |-> name, prefix |-> prefix, declares |-> declares, value |-> value]
Plain(t) == Token(t, NoText, NoText, NotNs, NoText)
None == Plain("none")

STags == {Token("stag", q.name, q.prefix, NotNs, NoText) : q \in Tags}
ETags == {Token("etag", q.name, q.prefix, NotNs, NoText) : q \in Tags}
AttrTokens == {Token("attr", a.name, NoText, a.declares, a.value) : a \in Attrs}

(* What the characters of a document can be taken for between tags, and inside one. *)
ContentTokens == STags \cup ETags \cup {Plain(t) : t \in {"text", "cdata", "bad", "eof"}}
TagTokens == STags \cup ETags \cup AttrTokens \cup {Plain(t) : t \in {">", "/>", "bad", "eof"}}

Reads(toks, tok) ==
    /\ tok \in toks
    /\ Len(read) >= workload.tokens => tok = Plain("eof")
    /\ read' = Append(read, tok)

(* xml_parser_init *)
NewParser ==
    [state |-> "ELEMENT", stack |-> <<>>, pending |-> Null, current |-> Null,
     hasTopLevel |-> FALSE, lastElem |-> NoText, ahead |-> None]

Parsing(states) ==
    /\ phase = "parsing"
    /\ parser.state \in states

(* goto ErrorHandler: the document is freed. *)
Fails == /\ phase' = "failed"
         /\ heap' = freed(heap, doc)
         /\ parser' = NewParser

(* A NULL pointer is followed. *)
Crashes == /\ phase' = "crashed"
           /\ UNCHANGED <<heap, parser>>

-----------------------------------------------------------------------------
(* Namespaces.  An item of the element stack has the name, the prefix and the namespace of an  *)
(* element, and the namespaces of the other prefixes it declares.                              *)

Item(node) == [name |-> node.nodeName, prefix |-> node.prefix, uri |-> node.namespaceURI,
               ns |-> [p \in {} |-> NoText]]

(* A search that looks at the enclosing element only. *)
ElementPrefixDefinedAbove(stack, prefix) ==
    IF stack # <<>> /\ Head(stack).prefix = prefix THEN Head(stack).uri ELSE NoText

(* ElementPrefixDefined: the first item from the top that has or declares the prefix. *)
ElementPrefixDefined(stack, prefix) ==
    LET knows(i) == stack[i].prefix = prefix \/ prefix \in DOMAIN stack[i].ns
        item == stack[SelectInSeq(stack, LAMBDA s : s.prefix = prefix \/ prefix \in DOMAIN s.ns)]
    IN IF \E i \in DOMAIN stack : knows(i)
       THEN IF item.prefix = prefix THEN item.uri ELSE item.ns[prefix]
       ELSE NoText

(* hasDefaultNamespace: the first item from the top without prefix and with a namespace. *)
hasDefaultNamespace(stack) ==
    LET i == SelectInSeq(stack, LAMBDA s : s.prefix = NoText /\ s.uri # NoText)
    IN IF i = 0 THEN NoText ELSE stack[i].uri

(* xmlNamespace: what the attribute declares goes to the item on top of the stack. *)
Declared(item, tok) ==
    CASE tok.declares = NotNs -> item
      [] tok.declares \in {Default, item.prefix} -> [item EXCEPT !.uri = tok.value]
      [] OTHER -> [item EXCEPT !.ns = (tok.declares :> tok.value) @@ @]

(* addNamespace: whether the node that waits for its namespace gets one from the item. *)
addNamespace(h, pending, item) ==
    CASE pending = Null -> "nothing"
      [] pending # Null /\ h[pending].nodeName = item.name ->
           IF item.uri # NoText THEN "found" ELSE "none"
      [] pending # Null /\ h[pending].nodeName # item.name ->
           CASE h[pending].prefix = NoText -> "failed"
             [] h[pending].prefix # NoText /\ item.prefix = NoText -> "crash"
             [] h[pending].prefix # NoText /\ item.prefix # NoText ->
                  IF h[pending].prefix # item.prefix THEN "failed"
                  ELSE IF item.uri # NoText THEN "found" ELSE "none"

-----------------------------------------------------------------------------
(* The parts of parseDocument. *)

(* xml_parser_processElementName, after processSTag has set the state. *)
processElementName(h, p, tok) ==
    LET n == New(h)
        uri == IF tok.prefix # NoText THEN ElementPrefixDefined(p.stack, tok.prefix)
               ELSE hasDefaultNamespace(p.stack)
        waits == uri = NoText /\ (tok.prefix # NoText \/ p.state = "ATTRIBUTE")
        node == [Blank EXCEPT !.nodeType = "element", !.nodeName = tok.name,
                              !.prefix = tok.prefix, !.namespaceURI = uri]
    IN [h |-> appendChild([h EXCEPT ![n] = node], p.current, n),
        p |-> [p EXCEPT !.hasTopLevel = TRUE, !.current = n,
                        !.pending = IF waits THEN n ELSE @,
                        !.stack = <<Item(node)>> \o @]]

(* A document of one element only. *)
SecondElement(p) == p.hasTopLevel

(* A second element beside the first one. *)
SecondTopLevel(p) == p.hasTopLevel /\ p.stack = <<>>

STag(tok, next) ==
    LET p == [parser EXCEPT !.lastElem = tok.name,
                            !.state = CASE next.t = "/>" -> "ELEMENT"
                                        [] next.t = ">" -> "CONTENT"
                                        [] OTHER -> "ATTRIBUTE",
                            !.ahead = IF next.t = ">" THEN None ELSE next]
    IN /\ Parsing({"ELEMENT", "ATTRIBUTE"}) /\ tok = parser.ahead /\ tok.t = "stag"
       /\ Reads(TagTokens, next)
       /\ IF next.t \in {"bad", "eof"} \/ SecondTopLevel(parser)
          THEN Fails
          ELSE \E r \in {processElementName(heap, p, tok)} :
                 heap' = r.h /\ parser' = r.p /\ phase' = phase
       /\ UNCHANGED <<calls, doc, workload>>

(* processAttribute, and then processAttributeName. *)
Attribute(tok, next) ==
    LET item == Declared(Head(parser.stack), tok)
        found == addNamespace(heap, parser.pending, item)
        h1 == IF found = "found" THEN Store(heap, parser.pending, "namespaceURI", item.uri) ELSE heap
        settled == found = "found" \/ (found = "none" /\ heap[parser.pending].prefix = NoText)
    IN /\ Parsing({"ATTRIBUTE"}) /\ tok = parser.ahead /\ tok.t = "attr"
       /\ Reads(TagTokens, next)
       /\ CASE found = "crash" -> Crashes
            [] found = "failed" \/ next.t \in {"bad", "eof", "stag"}
               \/ getAttributeNode(heap, parser.current, tok.name) # Null -> Fails
            [] OTHER ->
               /\ heap' = setAttribute(h1, parser.current, tok.name, tok.value)
               /\ parser' = [parser EXCEPT
                    !.stack = <<item>> \o Tail(@),
                    !.pending = IF settled THEN Null ELSE @,
                    !.state = IF next.t = ">" THEN "CONTENT" ELSE @,
                    !.ahead = IF next.t = ">" THEN None ELSE next]
               /\ phase' = phase
       /\ UNCHANGED <<calls, doc, workload>>

(* An end tag that closes whatever is open. *)
EndOfAnyElement(name) ==
    IF parser.stack = <<>> THEN Crashes
    ELSE /\ parser' = [parser EXCEPT !.stack = Tail(@), !.state = "CONTENT", !.ahead = None,
                                     !.current = heap[@].parentNode]
         /\ UNCHANGED <<heap, phase>>

(* eTagVerification for an end tag, or for "/>" after the last start tag. *)
EndOfElement(name) ==
    CASE parser.stack = <<>> -> Crashes
      [] parser.stack # <<>> /\ Head(parser.stack).name # name -> Fails
      [] parser.stack # <<>> /\ Head(parser.stack).name = name ->
           IF heap[parser.current].nodeName # name THEN Fails
           ELSE /\ parser' = [parser EXCEPT !.stack = Tail(@), !.state = "CONTENT", !.ahead = None,
                                            !.current = heap[@].parentNode]
                /\ UNCHANGED <<heap, phase>>

ETag ==
    /\ Parsing({"ELEMENT", "ATTRIBUTE"})
    /\ \/ parser.ahead.t = "etag" /\ EndOfElement(parser.ahead.name)
       \/ parser.ahead.t = "/>" /\ parser.lastElem # NoText /\ EndOfElement(parser.lastElem)
    /\ UNCHANGED <<calls, doc, read, workload>>

(* A token that fits nowhere inside a tag. *)
BadToken ==
    /\ Parsing({"ELEMENT", "ATTRIBUTE"})
    /\ \/ parser.ahead.t \in {"bad", "text"}
       \/ parser.ahead.t = "/>" /\ parser.lastElem = NoText
    /\ Fails
    /\ UNCHANGED <<calls, doc, read, workload>>

(* processContent: text, a CDATA section, or what the next call takes for a tag. *)
Content(tok) ==
    /\ Parsing({"CONTENT"})
    /\ Reads(ContentTokens, tok)
    /\ CASE tok.t = "bad" -> Fails
         [] tok.t \in {"stag", "etag"} ->
              /\ parser' = [parser EXCEPT !.state = "ELEMENT", !.ahead = tok]
              /\ UNCHANGED <<heap, phase>>
         [] tok.t \in {"text", "cdata"} ->
              LET h == Created(heap, tok.t, NoText)
                  allowed == allowChildren(h, parser.current, New(heap))
              IN /\ heap' = IF allowed THEN appendChild(h, parser.current, New(heap)) ELSE h
                 /\ phase' = IF allowed THEN phase ELSE "failing"
                 /\ UNCHANGED parser
         [] tok.t = "eof" ->
              IF parser.stack # <<>> THEN Fails
              ELSE phase' = "parsed" /\ UNCHANGED <<heap, parser>>
    /\ UNCHANGED <<calls, doc, workload>>

(* The file ends before the first tag. *)
Empty ==
    /\ Parsing({"ELEMENT"}) /\ parser.ahead.t = "eof"
    /\ phase' = "parsed"
    /\ UNCHANGED <<heap, calls, parser, doc, read, workload>>

(* LoadDocument: a parser and a document, and the first token. *)
LoadDocument(tok) ==
    /\ phase = "start"
    /\ Reads(STags \cup ETags \cup {Plain(t) : t \in {"text", "/>", "bad", "eof"}}, tok)
    /\ heap' = Created(heap, "document", NoText)
    /\ doc' = New(heap)
    /\ parser' = [NewParser EXCEPT !.current = New(heap), !.ahead = tok]
    /\ phase' = "parsing"
    /\ UNCHANGED <<calls, workload>>

(* The same after a text that the document refused, which stays allocated. *)
Refused ==
    /\ phase = "failing"
    /\ Fails
    /\ UNCHANGED <<calls, doc, read, workload>>

ParserStep ==
    \/ \E tok \in ContentTokens \cup {Plain("/>")} : LoadDocument(tok)
    \/ \E tok \in ContentTokens : Content(tok)
    \/ \E next \in TagTokens : STag(parser.ahead, next) \/ Attribute(parser.ahead, next)
    \/ ETag \/ BadToken \/ Empty \/ Refused

Edit ==
    /\ phase \in {"idle", "parsed", "failed"}
    /\ calls < workload.calls
    /\ ClientStep
    /\ UNCHANGED parserVars

Init ==
    /\ TreeInit
    /\ workload \in Workloads
    /\ parser = NewParser
    /\ phase = IF workload.tokens > 0 THEN "start" ELSE "idle"
    /\ doc = Null
    /\ read = <<>>

Next == ParserStep \/ Edit

Spec == Init /\ [][Next]_vars

-----------------------------------------------------------------------------
(* What a document means, from its tokens alone. *)

Opens(i) == read[i].t = "stag"
Closes(i) == read[i].t \in {"etag", "/>"}
Depth(i) == Cardinality({j \in 1..i : Opens(j)}) - Cardinality({j \in 1..i : Closes(j)})

(* The start tag that the end tag at i closes: the last one that led to the depth i leaves. *)
OpenOf(i) == CHOOSE j \in 1..i : /\ Opens(j) /\ Depth(j) = Depth(i) + 1
                                /\ \A k \in (j + 1)..i : Opens(k) => Depth(k) # Depth(i) + 1

(* The attributes of the start tag at j. *)
AttrsOf(j) == {i \in (j + 1)..Len(read) : \A k \in (j + 1)..i : read[k].t = "attr"}
InTag(i) == \E j \in 1..(i - 1) : Opens(j) /\ \A k \in (j + 1)..(i - 1) : read[k].t = "attr"

(* The elements around the start tag at j, itself included, and the namespace of its prefix. *)
Around(j) == {k \in 1..j : Opens(k) /\ \A i \in k..j : Depth(i) >= Depth(k)}
DeclaredBy(k, prefix) == {i \in AttrsOf(k) : read[i].declares = prefix}
Declarers(j, prefix) == {k \in Around(j) : DeclaredBy(k, prefix) # {}}
NamespaceOf(j) ==
    LET from == Declarers(j, read[j].prefix)
    IN IF from = {} THEN NoText
       ELSE read[CHOOSE i \in DeclaredBy(Max(from), read[j].prefix) : TRUE].value

(* Some well-formed document begins with the tokens read. *)
Viable ==
    \A i \in DOMAIN read :
      LET t == read[i].t
      IN /\ t # "bad"
         /\ t \in {"attr", ">", "/>"} <=> InTag(i)
         /\ t \in {"etag", "/>"} => Depth(i - 1) >= 1
         /\ t = "etag" => read[OpenOf(i)].name = read[i].name
         /\ t \in {"text", "cdata"} => Depth(i) >= 1
         /\ t = "stag" => i = 1 \/ Depth(i - 1) >= 1
         /\ t = "eof" => i > 1 /\ Depth(i) = 0
         /\ t \in {">", "/>"} => \A j \in 1..i : Opens(j) /\ read[j].prefix # NoText => NamespaceOf(j) # NoText
         /\ t = "attr" => \A k \in 1..(i - 1) :
              read[k].name = read[i].name /\ read[k].t = "attr" => \E m \in k..i : read[m].t # "attr"

(* The tokens, with "/>" spelt out. *)
DocumentEvents ==
    LET event(i) == IF read[i].t = "/>" THEN <<"etag", read[OpenOf(i)].name, NoText>>
                    ELSE <<read[i].t, read[i].name, read[i].value>>
    IN SelectSeq([i \in DOMAIN read |-> event(i)], LAMBDA e : e[1] \notin {">", "eof"})

(* The elements from n down, in document order. *)
ElementsUnder(h, n) ==
    LET el[m \in Node] ==
            (IF h[m].nodeType = "element" THEN <<m>> ELSE <<>>)
            \o FlattenSeq([i \in DOMAIN Children(h, m) |-> el[Children(h, m)[i]]])
    IN el[n]

Parsed == phase = "parsed" /\ calls = 0

-----------------------------------------------------------------------------
(* Properties. *)

(* A document that parseDocument accepts is returned as it was written: the same elements in   *)
(* the same nesting, each with its attributes and contents in order (parser.c:854-972).        *)
ParsedMirrorsInput == Parsed => TreeEvents(heap, doc) = DocumentEvents

(* parseDocument gives up only on what no well-formed document begins with: whatever the token *)
(* look-ahead and the three states of the parser do, no legal order of start tags, attributes,  *)
(* content and end tags is refused or crashes it (parser.c:1763-2128, 2246-2429).              *)
RejectsMalformed == phase \in {"failed", "crashed"} => ~Viable

(* Namespace declarations that the one-pass scheme of the parser can follow: a default one     *)
(* comes first in its tag, on an element without prefix, and no element declares anew the      *)
(* prefix it has itself.                                                                       *)
PlainDeclarations ==
    \A j \in {i \in DOMAIN read : Opens(i)} :
      /\ DeclaredBy(j, Default) \subseteq {j + 1}
      /\ read[j].prefix # Default => DeclaredBy(j, Default) = {} /\ NamespaceOf(j) # NoText
      /\ DeclaredBy(j, read[j].prefix) # {} => Declarers(j, read[j].prefix) = {j}

(* Every element of an accepted document has the namespace that the nearest declaration around *)
(* it gives its prefix, although the parser sets it before it has read the declarations of the *)
(* element itself (parser.c:741-762, 1544-1754).                                               *)
NamespacesResolved ==
    Parsed /\ PlainDeclarations =>
        LET els == ElementsUnder(heap, doc)
            tags == SelectSeq([i \in DOMAIN read |-> i], Opens)
        IN [i \in DOMAIN els |-> heap[els[i]].namespaceURI]
           = [i \in DOMAIN tags |-> NamespaceOf(tags[i])]
=============================================================================
