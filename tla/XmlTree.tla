------------------------------ MODULE XmlTree ------------------------------
(***************************************************************************)
(* The document tree of swxml (node.c, element.c, document.c, swxml.c):    *)
(* nodes on the heap linked by parentNode, firstChild, prevSibling,        *)
(* nextSibling and firstAttr, and the functions that relink them.  One     *)
(* thread uses a tree; the memory is large enough.                         *)
(***************************************************************************)
EXTENDS Integers, Sequences, FiniteSets, SequencesExt

CONSTANTS
    MaxNodes,      \* size of the node pool
    Names,         \* names of the elements a client creates
    AttrNames,     \* names of the attributes a client creates
    Values,        \* values it gives them
    Careful        \* clients keep to the uses the functions support (see Supported...)

VARIABLES
    heap,          \* the nodes
    calls          \* calls the client has made

Node == 1..MaxNodes
Null == 0
NoText == "(null)"
Kinds == {"element", "text", "cdata", "document", "attr"}
Links == {"parentNode", "firstChild", "prevSibling", "nextSibling", "firstAttr", "owner"}

(* A node that is not allocated, and one after malloc and memset. *)
Blank == [nodeType |-> "none", nodeName |-> NoText, prefix |-> NoText, nodeValue |-> NoText,
          namespaceURI |-> NoText, parentNode |-> Null, firstChild |-> Null,
          prevSibling |-> Null, nextSibling |-> Null, firstAttr |-> Null, owner |-> Null]

Live(h) == {n \in Node : h[n].nodeType # "none"}

(* The k smallest unused nodes: where the next k mallocs put theirs. *)
Fresh(h, k) ==
    LET unused == Node \ Live(h)
    IN {n \in unused : Cardinality({m \in unused : m < n}) < k}
New(h) == CHOOSE n \in Fresh(h, 1) : TRUE
Room(h, k) == Cardinality(Node \ Live(h)) >= k

-----------------------------------------------------------------------------
(* Reading the lists. *)

(* The nodes met by following nextSibling from n. *)
Siblings(h, n) ==
    LET from[k \in 0..MaxNodes, m \in Node \cup {Null}] ==
            IF k = 0 \/ m = Null THEN <<>> ELSE <<m>> \o from[k - 1, h[m].nextSibling]
    IN from[MaxNodes, n]

Children(h, n) == Siblings(h, h[n].firstChild)
Attributes(h, n) == Siblings(h, h[n].firstAttr)

(* The nodes a recursion over the given links visits from n. *)
Visited(h, n, links) ==
    LET grow[s \in SUBSET Node] ==
            LET new == {h[m][f] : m \in s, f \in links} \ (s \cup {Null})
            IN IF new = {} THEN s ELSE grow[s \cup new]
    IN grow[{n} \ {Null}]

(* xml_node_isAncestor asks of every node under or after ancestorNode whether it is the parent. *)
isAncestor(h, ancestorNode, toFind) ==
    h[toFind].parentNode \in Visited(h, ancestorNode, {"firstChild", "nextSibling"})

isParent(h, nodeptr, toFind) == h[toFind].parentNode = nodeptr

allowChildren(h, nodeptr, newChild) ==
    CASE h[nodeptr].nodeType \in {"attr", "text", "cdata"} -> FALSE
      [] h[nodeptr].nodeType = "element" -> h[newChild].nodeType \notin {"attr", "document"}
      [] h[nodeptr].nodeType = "document" -> h[newChild].nodeType = "element"

(* The attribute of that name on the element, or Null. *)
getAttributeNode(h, element, name) ==
    LET found == SelectSeq(Attributes(h, element), LAMBDA a : h[a].nodeName = name)
    IN IF found = <<>> THEN Null ELSE Head(found)

-----------------------------------------------------------------------------
(* Relinking: each function of the code as a function of the heap. *)

(* A store through a pointer that the code first compares with NULL. *)
Store(h, n, field, v) == IF n = Null THEN h ELSE [h EXCEPT ![n][field] = v]

(* A removal that forgets the neighbour behind. *)
removeChildOneWay(h, nodeptr, oldChild) ==
    LET old == h[oldChild]
        h1 == Store(h, old.prevSibling, "nextSibling", old.nextSibling)
        h2 == IF h1[nodeptr].firstChild = oldChild
              THEN Store(h1, nodeptr, "firstChild", old.nextSibling) ELSE h1
    IN [h2 EXCEPT ![oldChild].nextSibling = Null, ![oldChild].prevSibling = Null,
                  ![oldChild].parentNode = Null]

removeChild(h, nodeptr, oldChild) ==
    LET old == h[oldChild]
        h1 == Store(h, old.prevSibling, "nextSibling", old.nextSibling)
        h2 == IF h1[nodeptr].firstChild = oldChild
              THEN Store(h1, nodeptr, "firstChild", old.nextSibling) ELSE h1
        h3 == Store(h2, old.nextSibling, "prevSibling", old.prevSibling)
    IN [h3 EXCEPT ![oldChild].nextSibling = Null, ![oldChild].prevSibling = Null,
                  ![oldChild].parentNode = Null]

(* newChild leaves nodeptr's list when it is on it - and no other list. *)
TakenOut(h, nodeptr, newChild) ==
    IF isParent(h, nodeptr, newChild) THEN removeChild(h, nodeptr, newChild) ELSE h

insertBefore(h, nodeptr, newChild, refChild) ==
    LET h1 == Store(TakenOut(h, nodeptr, newChild), newChild, "nextSibling", refChild)
        prev == h1[refChild].prevSibling
        h2 == IF prev = Null THEN h1
              ELSE [h1 EXCEPT ![prev].nextSibling = newChild, ![newChild].prevSibling = prev]
        h3 == Store(h2, refChild, "prevSibling", newChild)
        h4 == IF h3[newChild].prevSibling = Null
              THEN Store(h3, nodeptr, "firstChild", newChild) ELSE h3
    IN Store(h4, newChild, "parentNode", nodeptr)

appendChild(h, nodeptr, newChild) ==
    LET h1 == Store(TakenOut(h, nodeptr, newChild), newChild, "parentNode", nodeptr)
        last == Last(Children(h1, nodeptr))
    IN IF h1[nodeptr].firstChild = Null
       THEN Store(h1, nodeptr, "firstChild", newChild)
       ELSE [h1 EXCEPT ![last].nextSibling = newChild, ![newChild].prevSibling = last]

(* The attribute named like newAttr gives its place up; a new name goes to the end. *)
setAttributeNode(h, element, newAttr) ==
    LET h1 == Store(h, newAttr, "owner", element)
        old == getAttributeNode(h, element, h[newAttr].nodeName)
        h2 == Store(h1, h1[old].prevSibling, "nextSibling", newAttr)
        h3 == Store(h2, h1[old].nextSibling, "prevSibling", newAttr)
        last == Last(Attributes(h1, element))
    IN CASE old # Null ->
              IF h[element].firstAttr = old THEN Store(h3, element, "firstAttr", newAttr) ELSE h3
         [] old = Null /\ h[element].firstAttr # Null ->
              [h1 EXCEPT ![last].nextSibling = newAttr, ![newAttr].prevSibling = last]
         [] old = Null /\ h[element].firstAttr = Null ->
              [h1 EXCEPT ![element].firstAttr = newAttr,
                         ![newAttr].prevSibling = Null, ![newAttr].nextSibling = Null]

removeAttributeNode(h, element, oldAttr) ==
    LET old == h[oldAttr]
        h1 == Store(h, old.prevSibling, "nextSibling", old.nextSibling)
        h2 == Store(h1, old.nextSibling, "prevSibling", old.prevSibling)
        h3 == IF h2[element].firstAttr = oldAttr
              THEN Store(h2, element, "firstAttr", old.nextSibling) ELSE h2
    IN [h3 EXCEPT ![oldAttr].parentNode = Null, ![oldAttr].prevSibling = Null,
                  ![oldAttr].nextSibling = Null]

(* A free that leaves the attributes allocated. *)
freedWithoutAttributes(h, n) ==
    LET gone == Visited(h, n, {"firstChild", "nextSibling"})
    IN [m \in Node |-> IF m \in gone THEN Blank ELSE h[m]]

(* xml_node_free follows firstChild, nextSibling and firstAttr. *)
freed(h, n) ==
    LET gone == Visited(h, n, {"firstChild", "nextSibling", "firstAttr"})
    IN [m \in Node |-> IF m \in gone THEN Blank ELSE h[m]]

(* setAttributeNodeNS: as above, but the new last attribute gets no prevSibling. *)
setAttributeNodeNS(h, element, newAttr) ==
    LET h1 == setAttributeNode(h, element, newAttr)
    IN IF getAttributeNode(h, element, h[newAttr].nodeName) = Null
       THEN Store(h1, newAttr, "prevSibling", h[newAttr].prevSibling) ELSE h1

-----------------------------------------------------------------------------
(* Cloning. *)

(* Where the recursion goes on from m: after a text or a CDATA section it stops. *)
CloneLinks(h, m) ==
    CASE h[m].nodeType = "element" -> {"firstAttr", "firstChild", "nextSibling"}
      [] h[m].nodeType = "attr" -> {"nextSibling"}
      [] h[m].nodeType = "document" -> {"firstChild"}
      [] h[m].nodeType \in {"text", "cdata"} -> {}

(* The nodes copied: the root with its attributes, and when deep what hangs below it. *)
Copied(h, n, deep) ==
    LET roots == IF h[n].nodeType = "attr" THEN {}
                 ELSE {h[n].firstAttr} \cup (IF deep THEN {h[n].firstChild} ELSE {})
        grow[s \in SUBSET Node] ==
            LET new == UNION {{h[m][f] : f \in CloneLinks(h, m)} : m \in s} \ (s \cup {Null})
            IN IF new = {} THEN s ELSE grow[s \cup new]
    IN {n} \cup grow[roots \ {Null}]

(* The heap with the copies; a copied attribute has no owner, the root no parent and siblings. *)
cloned(h, n, deep) ==
    LET from == Copied(h, n, deep)
        to == Fresh(h, Cardinality(from))
        rank(S, m) == Cardinality({k \in S : k < m})
        image(m) == IF m \in from THEN CHOOSE t \in to : rank(to, t) = rank(from, m) ELSE Null
        source(t) == CHOOSE m \in from : rank(from, m) = rank(to, t)
        orphan(m) == \/ m = n \/ h[m].nodeType = "attr"
                     \/ h[n].nodeType = "document" /\ h[m].parentNode = n
                        /\ m # h[n].firstChild
        copy(m) == [h[m] EXCEPT
            !.parentNode = IF orphan(m) THEN Null ELSE image(@),
            !.firstChild = image(@),
            !.firstAttr = image(@),
            !.prevSibling = IF m = n THEN Null ELSE image(@),
            !.nextSibling = IF m = n \/ h[m].nodeType \in {"text", "cdata"} THEN Null ELSE image(@),
            !.owner = Null]
    IN [m \in Node |-> IF m \in to THEN copy(source(m)) ELSE h[m]]

-----------------------------------------------------------------------------
(* Writing a tree.  What is written is a sequence of tags, attributes and texts. *)

Open(h, n) == <<"stag", h[n].nodeName, NoText>>
Close(h, n) == <<"etag", h[n].nodeName, NoText>>
Written(h, n) == <<h[n].nodeType, h[n].nodeName, h[n].nodeValue>>

(* xml_document_dumpRecursive goes on to the siblings of elements and attributes only. *)
dumpRecursive(h, n) ==
    LET dump[m \in Node \cup {Null}] ==
            IF m = Null THEN <<>>
            ELSE CASE h[m].nodeType = "text" -> <<Written(h, m)>>
                   [] h[m].nodeType = "cdata" -> <<<<"raw", NoText, h[m].nodeValue>>>>
                   [] h[m].nodeType = "document" -> dump[h[m].firstChild]
                   [] h[m].nodeType = "attr" -> <<Written(h, m)>> \o dump[h[m].nextSibling]
                   [] h[m].nodeType = "element" ->
                        <<Open(h, m)>> \o dump[h[m].firstAttr] \o dump[h[m].firstChild]
                        \o <<Close(h, m)>> \o dump[h[m].nextSibling]
    IN dump[n]

(* A writer that goes on to the siblings of the node itself. *)
toStringWithSiblings(h, n) == dumpRecursive(h, n)

(* xml_document_toString and xml_document_dump leave out the siblings of the node itself. *)
toString(h, n) ==
    CASE h[n].nodeType = "attr" -> <<Written(h, n)>>
      [] h[n].nodeType = "element" ->
           <<Open(h, n)>> \o dumpRecursive(h, h[n].firstAttr)
           \o dumpRecursive(h, h[n].firstChild) \o <<Close(h, n)>>
      [] OTHER -> dumpRecursive(h, n)

-----------------------------------------------------------------------------
(* Creating. *)

Created(h, k, name) ==
    [h EXCEPT ![New(h)] = [Blank EXCEPT !.nodeType = k, !.nodeName = name]]

(* sw_xml_createNode: an element and, when it has a value, a text under it. *)
CreatedWithText(h, name) ==
    LET h1 == Created(h, "element", name)
        h2 == Created(h1, "text", NoText)
    IN appendChild(h2, New(h), New(h1))

(* xml_element_setAttribute: a new attribute, or a new value for the one of that name. *)
setAttribute(h, element, name, v) ==
    LET old == getAttributeNode(h, element, name)
    IN IF old = Null
       THEN setAttributeNode(Store(Created(h, "attr", name), New(h), "nodeValue", v), element, New(h))
       ELSE Store(h, old, "nodeValue", v)

-----------------------------------------------------------------------------
(* The client.  The uses the functions support: newChild hangs nowhere or under the same       *)
(* parent, an attribute is on no list and replaces at most a lone one, what is freed is a root, *)
(* and what is cloned has its text last.                                                        *)

SupportedChild(nodeptr, newChild) ==
    Careful => newChild # nodeptr /\ heap[newChild].parentNode \in {Null, nodeptr}

OnAList(a) == \E n \in Live(heap) : a \in ToSet(Attributes(heap, n))

SupportedAttr(element, a) ==
    Careful => /\ ~OnAList(a)
               /\ \/ getAttributeNode(heap, element, heap[a].nodeName) = Null
                  \/ Len(Attributes(heap, element)) = 1

TextLast(h, n) ==
    /\ \A m \in Visited(h, h[n].firstChild, {"firstChild", "nextSibling"}) :
         h[m].nodeType \in {"text", "cdata"} => h[m].nextSibling = Null
    /\ h[n].nodeType = "document" => Len(Children(h, n)) <= 1

IsRoot(n) == heap[n].parentNode = Null /\ ~OnAList(n)

Elements == {n \in Live(heap) : heap[n].nodeType = "element"}
AttrNodes == {n \in Live(heap) : heap[n].nodeType = "attr"}

Call(h) ==
    /\ calls' = calls + 1
    /\ heap' = h

CreateNode(k, name) == Room(heap, 1) /\ Call(Created(heap, k, name))

CreateNodeWithText(name) == Room(heap, 2) /\ Call(CreatedWithText(heap, name))

InsertBefore(nodeptr, newChild, refChild) ==
    /\ SupportedChild(nodeptr, newChild) /\ (Careful => newChild # refChild)
    /\ allowChildren(heap, nodeptr, newChild)
    /\ ~isAncestor(heap, newChild, nodeptr)
    /\ isParent(heap, nodeptr, refChild)
    /\ Call(insertBefore(heap, nodeptr, newChild, refChild))

ReplaceChild(nodeptr, newChild, oldChild) ==
    /\ SupportedChild(nodeptr, newChild) /\ (Careful => newChild # oldChild)
    /\ ~isAncestor(heap, newChild, nodeptr)
    /\ allowChildren(heap, nodeptr, newChild)
    /\ isParent(heap, nodeptr, oldChild)
    /\ Call(removeChild(insertBefore(heap, nodeptr, newChild, oldChild), nodeptr, oldChild))

RemoveChild(nodeptr, oldChild) ==
    /\ isParent(heap, nodeptr, oldChild)
    /\ Call(removeChild(heap, nodeptr, oldChild))

AppendChild(nodeptr, newChild) ==
    /\ SupportedChild(nodeptr, newChild)
    /\ ~isAncestor(heap, newChild, nodeptr)
    /\ allowChildren(heap, nodeptr, newChild)
    /\ Call(appendChild(heap, nodeptr, newChild))

CloneNode(nodeptr, deep) ==
    /\ Room(heap, Cardinality(Copied(heap, nodeptr, deep)))
    /\ (Careful => TextLast(heap, nodeptr))
    /\ Call(cloned(heap, nodeptr, deep))

SetAttribute(element, name, v) ==
    /\ getAttributeNode(heap, element, name) # Null \/ Room(heap, 1)
    /\ Call(setAttribute(heap, element, name, v))

(* removeAttribute drops the value and keeps the attribute. *)
RemoveAttribute(element, name) ==
    Call(Store(heap, getAttributeNode(heap, element, name), "nodeValue", NoText))

SetAttributeNode(element, newAttr) ==
    /\ SupportedAttr(element, newAttr)
    /\ heap[newAttr].owner = Null
    /\ Call(setAttributeNode(heap, element, newAttr))

SetAttributeNodeNS(element, newAttr) ==
    /\ SupportedAttr(element, newAttr) /\ (Careful => heap[element].firstAttr = Null)
    /\ heap[newAttr].owner \in {Null, element}
    /\ Call(setAttributeNodeNS(heap, element, newAttr))

RemoveAttributeNode(element, oldAttr) ==
    /\ oldAttr \in ToSet(Attributes(heap, element))
    /\ Call(removeAttributeNode(heap, element, oldAttr))

FreeNode(n) == (Careful => IsRoot(n)) /\ Call(freed(heap, n))

ClientStep ==
    \/ \E k \in Kinds, name \in Names \cup AttrNames \cup {NoText} :
         /\ name \in (CASE k = "element" -> Names [] k = "attr" -> AttrNames [] OTHER -> {NoText})
         /\ CreateNode(k, name)
    \/ \E name \in Names : CreateNodeWithText(name)
    \/ \E n, c \in Live(heap) :
         \/ RemoveChild(n, c) \/ AppendChild(n, c)
         \/ \E r \in Live(heap) : InsertBefore(n, c, r) \/ ReplaceChild(n, c, r)
    \/ \E n \in Live(heap), deep \in BOOLEAN : CloneNode(n, deep)
    \/ \E e \in Elements, name \in AttrNames :
         RemoveAttribute(e, name) \/ \E v \in Values : SetAttribute(e, name, v)
    \/ \E e \in Elements, a \in AttrNodes :
         SetAttributeNode(e, a) \/ SetAttributeNodeNS(e, a) \/ RemoveAttributeNode(e, a)
    \/ \E n \in Live(heap) : FreeNode(n)

TreeInit ==
    /\ heap = [n \in Node |-> Blank]
    /\ calls = 0

-----------------------------------------------------------------------------
(* Properties. *)

TreeTypeOK ==
    /\ calls \in Nat
    /\ \A n \in Node :
         /\ heap[n].nodeType \in Kinds \cup {"none"}
         /\ \A f \in Links : heap[n][f] \in Node \cup {Null}
         /\ heap[n].nodeType = "none" => heap[n] = Blank

(* Both directions of every link agree: what insertBefore, replaceChild, removeChild,          *)
(* appendChild, cloneNode and the attribute functions rely on when they follow one direction   *)
(* and repair the other (node.c, element.c).  The children of a node are exactly the nodes     *)
(* whose parentNode it is, a node without parent has no siblings, an attribute list holds one   *)
(* attribute per name, no link leads to freed memory and no node is below itself.              *)
TreeOK ==
    /\ TreeTypeOK
    /\ \A n \in Live(heap) :
         LET r == heap[n]
         IN /\ {r[f] : f \in Links \ {"owner"}} \subseteq Live(heap) \cup {Null}
            /\ r.nextSibling # Null => /\ heap[r.nextSibling].prevSibling = n
                                       /\ heap[r.nextSibling].parentNode = r.parentNode
            /\ r.prevSibling # Null => heap[r.prevSibling].nextSibling = n
            /\ r.firstChild # Null => /\ heap[r.firstChild].parentNode = n
                                      /\ heap[r.firstChild].prevSibling = Null
            /\ r.firstAttr # Null => heap[r.firstAttr].prevSibling = Null
            /\ r.parentNode # Null => n \in ToSet(Children(heap, r.parentNode))
            /\ r.parentNode = Null /\ r.nodeType # "attr" => r.nextSibling = Null /\ r.prevSibling = Null
            /\ n \notin Visited(heap, r.parentNode, {"parentNode"})
            /\ \A a, b \in ToSet(Attributes(heap, n)) :
                 /\ heap[a].nodeType = "attr" /\ heap[a].owner \in {n, Null}
                 /\ heap[a].nodeName = heap[b].nodeName => a = b

(* insertBefore and appendChild move a node: "If the newChild is already in the tree, it is    *)
(* first removed" (node.c:519-520, 687), so that no node is in the lists of two parents.  It     *)
(* holds for callers that are Careful; for the others the README says how it does not.           *)
OnePlace ==
    \A n, m \in Live(heap) :
      n # m => ToSet(Children(heap, n)) \cap ToSet(Children(heap, m)) = {}

(* The tree from n down, in document order. *)
TreeEvents(h, n) ==
    LET all(s, f) == FlattenSeq([i \in DOMAIN s |-> f[s[i]]])
        ev[m \in Node] ==
            CASE h[m].nodeType = "element" ->
                   <<Open(h, m)>> \o all(Attributes(h, m), ev) \o all(Children(h, m), ev)
                   \o <<Close(h, m)>>
              [] h[m].nodeType = "document" -> all(Children(h, m), ev)
              [] OTHER -> <<Written(h, m)>>
    IN ev[n]

(* The text that toString and dump write is the tree from the node down and no more, when a    *)
(* text comes last among its siblings and no CDATA section is there (document.c:676-915).      *)
WritesTree ==
    \A n \in Live(heap) :
      /\ TextLast(heap, n) /\ heap[n].nodeType # "cdata"
      /\ \A m \in Visited(heap, heap[n].firstChild, {"firstChild", "nextSibling"}) : heap[m].nodeType # "cdata"
      => toString(heap, n) = TreeEvents(heap, n)
=============================================================================
